------------------------------ MODULE Multisign ------------------------------
(***************************************************************************)
(* TLWalletCore.signTranscation on a transaction that several owners sign  *)
(* in turn.  A call reads the signatures that are there, recovers their    *)
(* signers under its own hash, and appends one more or, when its account   *)
(* has signed, only drops duplicates.  Between calls the transaction is    *)
(* with others, who may copy signatures, write them in the other encoding, *)
(* damage them, or edit what was signed.                                   *)
(*                                                                         *)
(* One call at a time has the transaction: its array has no lock, and the  *)
(* code leaves its sharing to the caller.  Keys may go while a call waits  *)
(* for its key to be decrypted.                                            *)
(***************************************************************************)
EXTENDS Naturals, Sequences, SequencesExt, FiniteSets

CONSTANTS
  Owner,             \* accounts
  Device,            \* key stores
  Chain,             \* "" for the main chain, dappChainId for others
  NoHex,             \* the dappChainIds that are no bytes in hexadecimal, or none
  Incomplete,        \* the editions of the raw data that cannot be encoded, or
                     \* have no contract
  MaxSignatures,     \* the literal 5
  MaxEdits,          \* bound: edits of the raw data
  MaxDamage          \* bound: signatures copied or damaged on the way

ASSUME MultisignAssumption ==
  /\ {"none", "nothing", "stranger"} \cap Owner = {}
  /\ NoHex \subseteq Chain
  /\ MaxSignatures \in Nat \ {0}
  /\ MaxEdits \in Nat /\ MaxDamage \in Nat

VARIABLES
  keys,              \* device -> the accounts it has
  raw,               \* which edition of the raw data
  signatureArray,    \* [by, hash, form], form "bad" for one nobody can recover
  call,              \* the call that waits for its key, or NoCall
  last,              \* how the last call ended
  damage             \* signatures copied or damaged so far

vars == <<keys, raw, signatureArray, call, last, damage>>

NoCall == [owner |-> "none"]
Nothing == <<"nothing">>
Stranger(s, h) == <<"stranger", s.by, s.hash, h>>

\* hashECRecover: both encodings of the recovery byte are taken; under
\* another hash a signature recovers to an address nobody has.
hashECRecover(h, s) ==
  IF s.form = "bad" THEN Nothing
  ELSE IF s.hash = h THEN <<s.by>> ELSE Stranger(s, h)

newHash(chain) == <<raw, chain>>

Signers(array, h) == [i \in DOMAIN array |-> hashECRecover(h, array[i])]

\* A fault: encodings are compared, not signers.
FaultyDuplicates(array, h) == {i \in DOMAIN array : \E j \in 1..(i - 1) : array[j] = array[i]}

\* A fault: signatures by addresses nobody knows are dropped too.
FaultyUnknown(array, h) ==
  {i \in DOMAIN array :
     \/ Signers(array, h)[i] \notin {<<o>> : o \in Owner}
     \/ \E j \in 1..(i - 1) : Signers(array, h)[j] = Signers(array, h)[i]}

duplicateIndexes(array, h) ==
  {i \in DOMAIN array : \E j \in 1..(i - 1) : Signers(array, h)[j] = Signers(array, h)[i]}

\* left[m]: what is left when the indexes above m have gone, the last one first.
RemoveAll(array, at) ==
  LET left[m \in 0..Len(array)] ==
        IF m = Len(array) THEN array
        ELSE IF m + 1 \in at THEN RemoveAt(left[m + 1], m + 1) ELSE left[m + 1]
  IN left[0]

Failure(owner) == [ok |-> FALSE, owner |-> owner, chain |-> "none"]
Success(owner, chain) == [ok |-> TRUE, owner |-> owner, chain |-> chain]
NoResult == [ok |-> FALSE, owner |-> "none", chain |-> "none"]

Init ==
  /\ keys \in [Device -> SUBSET Owner]
  /\ raw = 0
  /\ signatureArray = <<>>
  /\ call = NoCall
  /\ last = NoResult
  /\ damage = 0

Room(duplicates) == Len(signatureArray) - Cardinality(duplicates) < MaxSignatures

Refused(owner) ==
  /\ last' = Failure(owner)
  /\ UNCHANGED <<keys, raw, signatureArray, call, damage>>

\* The account has signed: success without the key, and without a password.
AlreadySigned(owner, chain, duplicates) ==
  /\ signatureArray' = RemoveAll(signatureArray, duplicates)
  /\ last' = Success(owner, chain)
  /\ UNCHANGED <<keys, raw, call, damage>>

ToSign(device, owner, chain, password, duplicates) ==
  /\ call' = [device |-> device, owner |-> owner, chain |-> chain, password |-> password,
              duplicates |-> duplicates]
  /\ last' = NoResult
  /\ UNCHANGED <<keys, raw, signatureArray, damage>>

\* Up to keyStore.signHash.  password: the caller gave the right one.
BeginSign(device, owner, chain, password) ==
  LET signers == Signers(signatureArray, newHash(chain))
      duplicates == duplicateIndexes(signatureArray, newHash(chain))
  IN /\ call = NoCall
     /\ IF \/ Len(signatureArray) > MaxSignatures
           \/ owner \notin keys[device]
           \/ raw \in Incomplete \/ chain \in NoHex
           \/ Nothing \in Range(signers)
        THEN Refused(owner)
        ELSE IF <<owner>> \in Range(signers) THEN AlreadySigned(owner, chain, duplicates)
        ELSE IF ~Room(duplicates) THEN Refused(owner)
        ELSE ToSign(device, owner, chain, password, duplicates)

\* A fault: duplicates are dropped before the signing that may throw.
FaultyEndSign(signed) ==
  /\ call # NoCall
  /\ call' = NoCall
  /\ LET ok == call.owner \in keys[call.device] /\ call.password /\ signed
         kept == RemoveAll(signatureArray, call.duplicates)
     IN /\ signatureArray' =
             IF ok THEN Append(kept, [by |-> call.owner, hash |-> newHash(call.chain), form |-> "0"])
             ELSE kept
        /\ last' = IF ok THEN Success(call.owner, call.chain) ELSE Failure(call.owner)
  /\ UNCHANGED <<keys, raw, damage>>

\* signHash and what follows.  It throws when the key has gone meanwhile, the
\* password is wrong, or, ~signed, what was decrypted gives no signature of
\* 65 bytes.
EndSign(signed) ==
  /\ call # NoCall
  /\ call' = NoCall
  /\ LET ok == call.owner \in keys[call.device] /\ call.password /\ signed
     IN /\ signatureArray' =
             IF ok THEN Append(RemoveAll(signatureArray, call.duplicates),
                               [by |-> call.owner, hash |-> newHash(call.chain), form |-> "0"])
             ELSE signatureArray
        /\ last' = IF ok THEN Success(call.owner, call.chain) ELSE Failure(call.owner)
  /\ UNCHANGED <<keys, raw, damage>>

\* KeyStore.delete
DeleteKey(device, owner) ==
  /\ owner \in keys[device]
  /\ keys' = [keys EXCEPT ![device] = @ \ {owner}]
  /\ UNCHANGED <<raw, signatureArray, call, last, damage>>

Elsewhere == call = NoCall /\ last' = NoResult

\* Another party appends signature i once more, in one of its encodings.
Copied(i, form) ==
  /\ Elsewhere
  /\ damage < MaxDamage /\ damage' = damage + 1
  /\ signatureArray' = Append(signatureArray, [signatureArray[i] EXCEPT !.form = form])
  /\ UNCHANGED <<keys, raw, call>>

Damaged(i) ==
  /\ Elsewhere
  /\ damage < MaxDamage /\ damage' = damage + 1
  /\ signatureArray' = [signatureArray EXCEPT ![i].form = "bad"]
  /\ UNCHANGED <<keys, raw, call>>

\* The expiration is renewed, say; what was signed before no longer counts.
EditRaw ==
  /\ Elsewhere
  /\ raw < MaxEdits /\ raw' = raw + 1
  /\ UNCHANGED <<keys, signatureArray, call, damage>>

Next ==
  \/ \E device \in Device, owner \in Owner, chain \in Chain, password \in BOOLEAN :
        BeginSign(device, owner, chain, password)
  \/ \E signed \in BOOLEAN : EndSign(signed)
  \/ \E device \in Device, owner \in Owner : DeleteKey(device, owner)
  \/ \E i \in DOMAIN signatureArray : (\E form \in {"0", "27"} : Copied(i, form)) \/ Damaged(i)
  \/ EditRaw

Spec == Init /\ [][Next]_vars
-----------------------------------------------------------------------------
(* Properties *)

Signed(array) == {<<s.by, s.hash>> : s \in {array[i] : i \in {j \in DOMAIN array : array[j].form # "bad"}}}

\* After a success the account has signed exactly once under the call's hash,
\* no signer is there twice, every signature can be recovered, and the array
\* is within what a node takes: whatever was copied or edited before, and
\* though the call looked at the array before it waited for the key.
SuccessIsComplete ==
  last.ok =>
    LET signers == Signers(signatureArray, newHash(last.chain))
    IN /\ Cardinality({i \in DOMAIN signers : signers[i] = <<last.owner>>}) = 1
       /\ Cardinality(Range(signers)) = Len(signers)
       /\ Nothing \notin Range(signers)
       /\ Len(signatureArray) <= MaxSignatures

\* A call never costs another owner's signature, for this chain, another one
\* or an older edition, and adds at most the caller's.
SignersKept ==
  [][damage' = damage =>
       /\ Signed(signatureArray) \subseteq Signed(signatureArray')
       /\ \A s \in Signed(signatureArray') \ Signed(signatureArray) :
            last'.ok /\ s = <<last'.owner, newHash(last'.chain)>>]_vars

\* A call that fails leaves the transaction as it was.
FailureChangesNothing ==
  [][last' # last /\ last'.owner # "none" /\ ~last'.ok => signatureArray' = signatureArray]_vars
=============================================================================
