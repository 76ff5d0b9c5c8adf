# TLA+ models of tronlink-iOS-core

This directory specifies the parts of tronlink-iOS-core (the wallet core of
TronLink for iOS) that keep state, share it between threads, callbacks and
processes, or compute what keys, addresses and signatures depend on. The
specifications are checked with TLC on small instances, and the central ones are
proved with TLAPS for all instances. Paths below are relative to the repository;
`Classes/` stands for `tronlink-iOS-core/Classes/`, `crypto/` for
`Classes/ABI/TrezorCrypto/trezor-crypto/`.

## 1. The system

| part | where | state | operations |
|---|---|---|---|
| KeyStore | `Classes/Keystore/KeyStore.swift` | a directory of encrypted key files; two dictionaries (accounts, keys) caching it; lists of files still to be read; two locks; two retry flags | create, import, addKey, addAccount, update, delete, export, sign, list |
| Keystore encryption | `Keystore/KeystoreKey*.swift`, `Scrypt*.swift` | none | encrypt, decrypt, JSON |
| HD wallet | `Keystore/Wallet/` | a seed, wiped on `deinit` and by `clear` | derive keys, validate mnemonics |
| Address map | `Metrics/Reporter/TRXAddressMapManager.swift` | address → random UUID in memory, `AddressMapTable`, a snapshot of older versions in UserDefaults | `id(for:)`, generate, remove, reset |
| Metrics database | `Metrics/DataBase/TRXMetricsDBManager.swift` | `AssetSyncTable`, `TransactionSyncTable`, `AddressMapTable` behind one FMDatabaseQueue | record, read, acknowledge, delete, migrate |
| Statistics upload | `Metrics/Reporter/TRXStatisticalUploadManager.swift`, `Metrics/Repository/` | a serial queue, the host's configuration | record, upload, handle the answer |
| Wallet facade | `TLWalletCore.swift` | the signature array of the transaction it is given | sign transactions and messages, collect signatures of several owners |
| ABI, RLP, Web3 subset | `Classes/ABI`, `Classes/Web3Subset` | none | encode, decode |
| Random numbers, curve glue | `ABI/TrezorCrypto/util/SecRandom.m`, `ABI/ObjectiveC` | none | fill buffers, sign, recover |
| Hashes and ciphers | `crypto/`: `sha2.c`, `sha3.c`, `blake*.c`, `groestl.c`, `ripemd160.c`, `hasher.c`, `hmac.c`, `pbkdf2.c`, `aes/`, `chacha20poly1305/` | contexts fed in pieces | open, update, finish, reset |
| Texts for bytes | `crypto/`: `base58.c`, `base32.c`, `segwit_addr.c`, `cash_addr.c`, `bip39.c`, `nem.c`, `address.c`, `script.c` | buffers of the caller | write, read, check |
| Key trees | `crypto/bip32.c` | nodes with a cached public key | derive privately and publicly, serialize, share, sign |
| Curves secp256k1, nist256p1 | `crypto/bignum.c`, `ecdsa.c` | numbers in partly reduced limbs | multiply, sign, verify, recover, read keys |
| Curve ed25519 | `crypto/ed25519-donna/` | the same, in two sizes of limbs | sign, open, sign collectively, exchange keys |
| Rest of the library | `crypto/`: `rand.c`, `rc4.c`, `memzero.c`, tables | – | – |
| gRPC client, protocol files | `Classes/gRPC`, `Protos` (generated) | – | – |

How they interact. The host application owns a `KeyStore`, calls it from any
thread and keeps `Account` values it has got from it. The facade decrypts keys
out of the store and signs; keys come from the HD wallet, whose derivation,
texts and signatures are the vendored library's. Independently, the host reports
balances and transactions to the statistics manager, which files them under the
UUID that the address map gives the selected wallet, and now and then asks for an
upload; the upload runs on a serial queue, hands one request to the host's
network code and comes back through a callback. The configuration is a live
object of the host: two reads of it may differ.

What is hard:

* KeyStore derives keys outside `stateLock`, between a locked section that checks
  and a locked section that commits, and every locked section first *retries*
  files the device refused to show. Files may be unreadable at any time (the
  device is locked), any write may fail, and the process may die between the
  temporary file and its rename.
* The address map looks an address up in a concurrent read and inserts it in a
  later barrier. Its removals delete statistics in the database, while a
  recorder may already hold the UUID.
* An upload first merges an older database row by row, where any row may fail and
  the process may die; it then reads two tables in two steps, checks a configuration
  that may change in between, and confirms rows when the answer comes – after new
  events, removals, a roll-over of the UTC day, or a restart.
* Several owners sign one transaction in turn, and a call looks at the signatures
  before it waits for its key and changes them afterwards.
* The library's contexts take input in pieces that end anywhere, its buffers are
  estimates, its nodes cache keys through derivations that may be refused, and its
  numbers stay unreduced where the code says that they may.

`PROJECT.json` lists every component and every hazard at its line.

## 2. Plan

Done:

1. `KeyStore` with `AbstractKeyStore`, and `KeyStoreProofs`: the inductive
   invariants, the safety properties and the refinement.
2. `AddressMap` and `AddressMapProofs`: every property of its run.
3. `MetricsSync`, which composes recording, merging, uploading and clean-up with
   `AddressMap`, and `MetricsSyncProofs`: every safety property of its runs.
4. `Multisign` and `MultisignProofs`: every property of its run.
5. `TrezorCrypto`: `Streams`, `Codecs`, `Derivation`, `EdSessions`; `Signing`.
6. `DerivationProofs`: every property of `Derivation`, at every depth and for
   messages of every length.

Left, in this order:

1. The relocation of the statistics database between directories
   (`TRXMetricsDBManager.swift:36-52`), whose retry deletes a database recorded
   into since.
2. `SecRandom`'s retry and abort policy, scrypt's parameter limits, and the ABI and
   RLP encoders as operators with reference definitions.

## 3. KeyStore

`KeyStore.tla` has one action per atomic piece of `KeyStore.swift`.

| TLA+ | code |
|---|---|
| `disk`, `names`, `strays`, `dirExcluded` | the directory: committed files, file names used, leftover temporary files, the backup-exclusion attribute |
| `accountsByAddress` … `backupExclusionPending`, `mutationLock`, `stateLock` | the fields of the same names |
| `pc`, `op` | where each thread is in its call, and with which arguments and handle |
| `Open` / `load` / `loadAccounts` / `Register` | `init`, `load`, `loadAccounts` |
| `Begin`, `Lock` | a mutating call and `mutationLock.lock()` |
| `Enter` / `RetryPending` | `withStateLock`: take the lock, then retry everything pending |
| `Check` | the first locked section of import, update, delete and the decryption after it |
| `Stage`, `Rename` | `save` before its `rename`, and from there to the end of the call |
| `CommitDelete`, `CommitAddKey` | the commit sections of `delete` and `addKey` |
| `BeginRead`, `EndRead` | every method that takes only `stateLock` |
| `Crash`, `Outage`, `Recover` | the process dies; the device locks and unlocks |

A key is its encryption password, so "decrypts with the wrong password" is a
comparison. A file name is an address and a generation, because
`generateFileName` uses a timestamp. `storageOK` says whether file operations may
fail; while it is FALSE each may fail or succeed independently. Initially an
earlier session left at most one file per address, perhaps one that is not a
keystore.

Two constants describe hosts. `HandlesStayCurrent` excludes hosts that overlap
`update` or `addAccount` with `delete` on one account, which make the handle
stale; `StagedApi` includes hosts that use the two-step `addKey`/`addAccount`.
Properties that need such a restriction are run with it; the others are run
without. `keystore_stale_update` shows what happens to hosts outside it.

`AbstractKeyStore.tla` is the promise: a map from addresses to keys on which each
call acts once or fails. The refinement mapping at the end of `KeyStore.tla` takes
the abstract map from the *files*, not from the caches, so atomicity includes
process deaths.

### Fairness

`Fairness` assumes only that threads with a call in progress are scheduled, that
the application is started again and the device unlocked in the end. `NSLock`
promises no order among waiters, so there is no strong fairness, and
`CallsReturn` is claimed for hosts whose reads come to an end; `UnreadableClears`
for hosts that read again and again.

### Proofs

`KeyStoreProofs.tla` proves, for all finite or infinite sets of threads,
addresses and passwords and all bounds, from the assumptions `SpecialAssumption`
(the special values are not data) and `BoundAssumption` (there are more file names
than calls), for every host:

| theorem | statement |
|---|---|
| `TypeCorrect` | `Spec => []TypeOK` |
| `ListedAccountsOpen` | `Spec => []AccountBacked` |
| `DecisionsHold` | `Spec => []DecisionStillValid` |
| `KeysStayOutOfBackups` | `Spec => []NoKeyInBackup` |
| `UnreadableBlocksWrites` | `Spec => NoWriteWhileUnreadable` |
| `NothingResurrects` | `Spec => RetryNeverResurrects` |
| `KeysChangeAtCommits` | `Spec => OnlyCommitChangesKey` |

and for hosts with `HandlesStayCurrent /\ ~StagedApi`, the hosts of the run
`keystore_hosts`:

| theorem | statement |
|---|---|
| `NeverTwoFiles` | `Spec => []OneFilePerAddress` |
| `CachesFollowTheDirectory` | `Spec => []ListingIsDirectory` |
| `CallsAreAtomicAndDurable` | `Spec => CallsAreAtomic`: `KeyStore` implements `AbstractKeyStore` |

The invariants are not inductive. The inductive one of the first group, `IInv`, adds

* `PcOK`: a thread beyond `mutex` that mutates holds `mutationLock`, one in a
  section holds `stateLock`, so that two commits never overlap – without it
  nothing protects a decision between its two sections;
* `NamesOK`: files exist only under names already handed out, so a new file never
  overwrites a listed one;
* `CreateOK`: a `createAccount` in flight owns its address.

The second group needs `FilesOK /\ HostCalls` on top of it: a file that decodes is
listed, or pending, or the directory was never listed (`FilesKnown`); a file that
was loaded and still decodes is the listed one (`LoadedIsListed`); the two
dictionaries agree with the files (`CachesAgree`); and the handle an update was
given stays the listed one until it returns (`HostCalls`). From this every step
is shown to be an abstract call, an abstract request, or a stutter (`StepRefines`,
one case per action): the abstract call acts at the `rename` or the removal of a file.

Each action has a lemma for the part of the invariant it can disturb; retries and
throws are handled once for all calls (`RetryKeeps`, `ThrowKeeps`).

## 4. Metrics

### AddressMap

| TLA+ | code |
|---|---|
| `mapping`, `usedIds`, `persistenceDisabled` | the fields of `TRXAddressMapManager` |
| `table`, `legacy` | `AddressMapTable`; the UserDefaults snapshot |
| `jobs` | barrier blocks submitted with `queue.async` |
| `resolving` | each caller's progress through `id(for:)`: the concurrent read, then the barrier |
| `Launch`, `Exit` | `init`; the process dies |
| `RunGenerate`, `RunRemove`, `RunReset` | the three barrier blocks |
| `forgotten` | bookkeeping for `MappingsSurvive`: addresses whose UUID was given up |

UUIDs are numbers handed out once (`issued`): `UUID()` does not repeat. `gone` is
the set of UUIDs whose statistics a table rewrite deletes in its transaction.

`UsedIdsExact` and the others hold in every session, also in one that could not
load the table. A failed migration of the snapshot gives up all its UUIDs, by
design (lines 32–34); `MappingsSurvive` counts them as forgotten.

### MetricsSync

`MetricsSync` EXTENDS `AddressMap` and adds the two statistics tables (`rows`),
the older database (`oldRows`, `migrated`), recorders (`rec`), `metricsQueue`
(`queue`, `work`), the host's configuration, the network and the server's set of
received values. FMDatabaseQueue runs one block at a time, so each `inDatabase`
is one step:

| TLA+ | code |
|---|---|
| `BeginRecord`, `Stamp`, `Write` | `upsertTransactionsData`, and `makeCurrentAddressAssetSyncModel` + `upsertAssetData`: guard, UUID, date and chain, database |
| `Upload`, `StartUpload` | `uploadStatisticalData`: the guard, the block on `metricsQueue`, the captured chain and wallet |
| `BeginMigration`, `MigrateRow`, `EndMigration` | `migrateFromLegacyIfNeeded`, which asks for the chain again, writes each row in a transaction of its own, and marks the chain as merged if all succeeded |
| `CheckConfig`, `ReadAssets`, `ReadTransactions` | `uploadStatisticalDataToServer` |
| `CheckAgain`, `Send` | `uploadStatisticalDatabase`: the last look at the configuration, and the call of the host's network |
| `Receive`, `Succeed`, `Fail` | the host's network and server, the callbacks |
| `StartAcknowledge`, `Acknowledge`, `Clean` | the block the success callback submits |
| `Remap` | address-map steps whose transaction also deletes rows |
| `Die`, `NextDay`, `Reconfigure` | process death, UTC roll-over, the host's switches |

A transaction row's value is its count, standing for the amounts and buckets
summed with it; an asset row's is its balances, with a blank one, because the
compare-and-update treats blanks specially. A request that the client gave up may
still have been received; one that arrives after the client gave up only adds
values to `received`, which no property can be broken by.

The older database holds any set of up to `MaxOldRows` unreported rows – what hosts hand
over is "records that need to be uploaded" (`TRXMetricsDataSource.swift:41`) – of wallets
the upgraded app still had. Each goes over with the flag it has, and over whatever is
there. `window` is history: the answers the data source has given since `CheckAgain`
looked, for `SendsAreCurrent`.

`EveryEventReported` speaks of a row whose wallet stays selected, under the row's UUID, with
reporting on. A restarted session may hand out another UUID for a wallet, namely when the
row of the first one could not be written; the statistics under the first are then lost, as
tests fix, and the property does not claim them.

`RowsHaveOwners` is claimed while no database write fails: a UUID whose row could
not be written is used all the same (tests fix that), and its rows are lost to
the next session.

### Fairness

`SyncFairness` assumes that `metricsQueue`, the address map and the application
are scheduled and the host keeps asking for uploads (weak fairness), and that a
request that is sent again and again is received and answered (strong fairness:
the network may lose any one of them).

### Proofs

`AddressMapProofs.tla` proves every property of the run `addressmap`, for any
finite set of addresses, any set of callers and all bounds, from `MapAssumption`:
`MapTypeCorrect`, `UuidsAreUnique` (`OneAddressPerId`), `UsedIdsAreExact`,
`RacingCallersAgree` (`AnswersAgree`) and `RowsSurvive` (`MappingsSurvive`).

The inductive invariant `MapInv` adds to these

* `IdsIssued`: every UUID in memory, in the table, in the snapshot or in an answer
  was handed out before, which is what makes a fresh one differ from all of them;
* `SnapshotInjective` and `IdleUntilLaunch`: what a launch adopts, and that it
  finds no call in progress;
* `RowsRemembered`: unless the table could not be loaded, memory holds every row
  whose address was not forgotten – the reason why a removal may rewrite the whole
  table from memory.

Two lemmas carry the argument: `AdoptKeepsMapInv` (new UUIDs, whichever of their
rows could not be written), used by the batch and by the racing callers, and
`ForgetKeepsMapInv` (a rewrite from memory, or a failed one), used by removal and
reset.

`MetricsSyncProofs.tla` goes on from there, for any number of wallets, networks,
recorders, requests on the wire, days, failures and process deaths:

| theorem | statement | invariant it needs |
|---|---|---|
| `SyncTypeCorrect` | `SyncSpec => []SyncTypeOK` | `Typed`: `MapInv` and the range of every row, call, block and request |
| `AcknowledgedWasReceived` | `[]AckedWasReceived` | `Confirming`: whatever the worker, the queue or an answer is about to confirm, the server has |
| `DeletedOnlyWhenReported` | `DeletedWasReported` | `Typed`, `Confirming` |
| `OnlyTheSelectedIsSent` | `SendsAreCurrent` | `Owned`: the UUID a worker holds is that of its wallet, or the wallet was forgotten; nothing it holds outlives the process; a worker that looked again has in `window` an answer that selects what it holds (`LookedAgain`), and every row it holds is of its chain and UUID (`WorkKeyed`) |
| `MergedRowsAreKept` | `[]MergedIsKept`, for any number of older rows | `Merging`, below |
| `RowsStayOwned` | `[]RowsHaveOwners`, assuming `OldWallets` and `[](OnlyGenerates /\ loadFailures = 0)` | `Merging`, `Filing`, below |

`MergedIsKept` speaks of rows of the older database that may meanwhile have been
merged, recorded on, sent, confirmed, deleted or given up. `Merging` says where each of
them is: there is one old row per key (`OneOldRow`), and a merge in progress has done
what it has ticked off (`MigrateHeld`); the UUIDs of the older database were handed out
before (`OldIssued`), memory and table never give one to two addresses (`Crossed`), and
one that memory uses is in the table, so that a UUID given up never comes back
(`NeverBack`); a process that does not run has no map, and a snapshot is found before
the first launch only (`BeforeLaunch`, `Forgetful`). `MapMoves`
lists what any step does to the address map, so that the rest is argued once for
each kind of step.

`RowsStayOwned` assumes what the instance of `metrics_tx` has: hosts only ask for
new UUIDs (`metrics_orphan` refutes the statement for hosts that remove wallets while
recording), the table can be loaded, and the rows of the older database are of wallets
in the snapshot that is adopted. `Filing` then says that as long as no write failed
memory is the table (`TableIsMemory`), and that every UUID an answer, a recorder about to
write, the older database or a row names is in it (`AnswersFiled` … `RowsFiled`): a row
is written some steps after its UUID was answered, and the table gave nothing
up in between. Until a snapshot is adopted nothing was answered or recorded
(`Untouched`). Model-checked only: `EveryEventReported`, a liveness property.

## 5. Multisign

`Multisign.tla` models `TLWalletCore.signTranscation` (lines 75–143) on a transaction that
several owners sign in turn.

| TLA+ | code |
|---|---|
| `keys` | the accounts of each device's `KeyStore` |
| `raw` | which edition of `rawData` was hashed; `newHash` adds the chain |
| `signatureArray` | the array, each signature with its signer, what it signs, and its encoding (recovery byte 0/1 or 27/28, or damaged) |
| `BeginSign` | the guards (limit, account, raw data without contracts in `Incomplete`, a chain id that is no hexadecimal in `NoHex`), the loop over the signatures, and the early returns: `Refused`, `AlreadySigned` |
| `ToSign`, `call` | the call that waits in `keyStore.signHash`, with the indexes it computed |
| `EndSign` | `signHash` returns or throws: the key has gone, the password is wrong, or (`~signed`) it gives no signature of 65 bytes; duplicates are removed, the signature is added |
| `DeleteKey` | `KeyStore.delete` on another thread |
| `Copied`, `Damaged`, `EditRaw` | what others do with the transaction between calls (external) |

`hashECRecover` gives the signer under the right hash, an address nobody has under
another one, and fails on a damaged signature. Concurrent calls on one transaction
object are not modelled: its array has no lock, and the code leaves its sharing to
the caller.

### Proofs

`MultisignProofs.tla` proves the three properties for any sets of owners, devices
and chains, any limit on the signatures, and any number of edits and damaged signatures:
`SuccessMeansComplete` (`SuccessIsComplete`), `SignersAreKept` (`SignersKept`) and
`FailureIsHarmless` (`FailureChangesNothing`). The inductive invariant `MInv` adds to
the types

* `StillSeen`: what a waiting call saw of the array – its duplicates, that its
  account has not signed, that there is room – is still so when it goes on;
* `SuccessComplete`: a success is complete as long as nobody touches the
  transaction.

Removal by index (`RemoveAll`) is a recursion over the array. The library's
induction theorems are stated over predicates, which the provers cannot instantiate;
instead, `LeastNumber` gives the least element of a set of numbers, and the lemmas about
`RemoveAll` take the least position at which the array were wrong.

## 6. The vendored library

The library's parts share no state, so `TrezorCrypto.tla` puts them side by side:
a behaviour is one of one *desk* – streams, codecs, derivation or ed25519 – and one
run checks them all.

| modules | code | what is modelled |
|---|---|---|
| `Streams` over `Hasher`, `HashBlocks`, `Sha2`, `Sha3`, `Ripemd160`, `Blake256`, `Blake2`, `Groestl`, `Hmac`, `AesModes`, `ChaChaPoly` | the hashes, `hasher.c`, `hmac.c`, `pbkdf2.c`, `aes_modes.c`, `chacha20poly1305/` | every interface that takes its input in pieces: buffers, fills, counts with their carries, paddings, positions inside a block, and the calls that take a whole message at once; here a compression or a cipher is an unknown function |
| `Streams` over `Words`, `Aes` and the blocks of `Sha2`, `Ripemd160`, `Blake256`, `Blake2`, `Groestl` | the compressions of the same files, `aescrypt.c`, `aeskey.c`, `aestab.c` | single blocks, bit for bit: AES-256 with both key schedules, the permutations of Groestl, SHA-1 and SHA-2 in both forms a build can choose (looped and unrolled), RIPEMD-160, BLAKE-256, BLAKE2 |
| `Codecs` over `Base58`, `Bech32`, `Nem`, `Bignum` | `base58.c`, `base32.c`, `segwit_addr.c`, `cash_addr.c`, `bip39.c`, `nem.c`, `address.c`, `script.c`, `bn_format` in `bignum.c` | a writer into a buffer of some size, what happens to the text on the way, a reader on the network it expects; the digest is a toy function |
| `Derivation` over `HDNode` | `bip32.c`, `Wallet.swift` | a keeper with private keys, a watcher with the public text of one of its nodes, an app asking for whole paths, a peer; numbers are small, HMAC is a chosen function that often lands on the edges |
| `EdSessions` over `Ed25519`, `FieldElements`, `Field25519`, `ModM` | `ed25519-donna/` | signing, opening, collective signing, key exchange; points by tables and windows, the field and the scalars in limbs |
| `Signing` over `Ecdsa`, `Bignum` | `ecdsa.c`, `bignum.c` | keys, signatures, verification, recovery and multiplication through limbs, windows of signed digits and partly reduced numbers; nonces and blinding factors are inputs |

`Loops.tla` holds the folds the loops of the code are written with. Each property
compares what the code's buffers, limbs and windows give with a *reference*: the
standard's definition for the whole input, the group's law over whole numbers, the
content a text was written from.

What a reader should know about the abstractions:

* `options.h` compiles NEM, Cardano, Monero and Graphene out (`USE_NEM` … 0). The
  code of the first two is modelled, the others are not.
* `hdnode_private_ckd` on a node without a private key is the caller's contract and
  does not occur. The keeper may go on from its own private text (`Restore`), but not on
  Cardano: a text has no place for `private_key_extension`, so what `hdnode_deserialize`
  makes of a Cardano text has halves that do not belong together (`bip32.c:735-752`, 768,
  811). `TextsReadBack` says that a text tells all of a node but this. The
  depth in a text is cut to a byte. A public text of a node whose public key was never asked
  for is refused when it is read.
* Points of small order: `hdnode_get_shared_key` refuses them, `hdnode_get_nem_shared_key`
  does not (`bip32.c:581-599`), and a message through one is sealed with a key that
  everybody has. `PeersAgree` says of such a message only that both sides read it alike; of
  what is no point at all (`NotAPoint`) both have no key.
* `NothingOverflows` says for each writer of text that it stays within its buffer, the one it
  is told or the one its header asks for, and of each that is told a size that it refuses none
  that holds the text, with two exceptions: a number that is cut to no digits takes room for
  one, and `mnemonic_generate` and
  `mnemonic_from_data` refuse everything below 240 bytes, as `bip39.h:36` asks, though the
  words may be shorter. `base58_decode_check` answers 0, which says failure, for a text of
  an empty payload; such a text can be written and not read. DER has no size of a buffer.
* `get_curve_by_name` names one curve of each kind that differs in the code.
* Words of the exact blocks are sets of bits (`Words.tla`). Their references are written
  from the standards' formulas, with the message schedules, registers and rounds in the
  standards' order, and the first block of each hash is "abc", whose published digest the
  run compares too; AES begins with the vector of FIPS 197. The rounds of ChaCha20,
  Poly1305 and Keccak stay unknown functions.
* `bn_format` cuts all digits of a number away when the exponent says so, and then leaves
  a 0, but nothing in front of a suffix: it looks for its own end at the first character
  behind the number. No caller in the repository has both.
* HMACs repeated until there is an acceptable key (`FirstKey`, `FirstThat`) are
  cut off after `MaxTries` tries, a number no child of the instance reaches.
* Cardano's ratio of sizes (28 of 32 bytes) is a toy one; so are the sizes of blocks, counts, limbs, windows
  and group orders, with the relations the code relies on as ASSUMEs (`CountsAssumption`,
  `CiphersAssumption`, `OrderAssumption`, `WindowAssumption`, …).

### Proofs

`DerivationProofs.tla` proves the three properties of `Derivation`, for every group
order, every set of seeds, child indices, paths and payloads, every size of blocks, every
bound on generations, and every function for HMAC:

| theorem | statement | assumptions |
|---|---|---|
| `NodesOnTheirPaths` | `DeriveSpec => []DInv` | `HalvesAreNumbers` |
| `WatcherSeesSpendable` | `DeriveSpec => []WatcherFollows` | `HalvesAreNumbers` |
| `NodesAreTheirPaths` | `DeriveSpec => []NodeIsItsPath` | `HalvesAreNumbers`, `KeysAreFound`, `CardanoRoom` |
| `PeersShareSecrets` | `DeriveSpec => []PeersAgree` | `HalvesAreNumbers`, `KeysAreFound`, `OrderIsPrime` |

`HalvesAreNumbers`: an HMAC has two halves and they are numbers. `KeysAreFound`: one of
`MaxTries` HMACs has an acceptable left half; the code's loops have no bound and return
only then, so this is what their return gives. `CardanoRoom`: roots lie between
2^254 and 2^255 in words of 256 bits, a child adds less than 8 · 2^224, and 255
generations add no carry; the toy sizes of the run are so as well. `OrderIsPrime`: no
product of two keys is a multiple of the group's order, as for the curves of the library
(the run's 3593 is prime).

`WatcherFollows` is not inductive: it says what the watcher has, not that the next
child is the right one. `DInv` adds that the keeper's node is the one its path leads to
from the seed, with or without its cached public key, on the curve and at the depth
the path has (`OnPath`); the same for the path the watcher has come from. The argument
then goes:

* a node is its fields (`Stripped`, `IsBare`), and the public key it may cache is
  `KeyOf` of them (`FilledOnce`), so a child is the same whether the parent was asked for its
  public key or not (`CkdIsNode`);
* private and public derivation ask for the same HMACs (`PrivateTries`, `PublicTries`) and
  pass over the same ones, because a point cannot be added exactly where a key
  would be out of range or zero (`PublicChildFollows`);
* a published text reads back to the public part of its node (`PublishedIsPublicPart`);
* a path taken in one go, with its cache of the parent, is the path taken step by step,
  and stays at the parent of a step that is refused (`DescendantIsWalked`, `CachedIsWalked`).

`NodeIsItsPath` speaks also of what a call returned, until the caller takes it.
A node read back from its private text is the node itself without its cached public key
(`RestoreHolds`), so the path goes on from it. `AnswersAreRight` says of each kind of answer what it is (`SignatureRight`,
`TextsReadBack`, `PathRight`, `KeyRight`); keys in range are an induction over the
path (`KeysInOrder`, `CardanoInRange`).

`PeersAgree` needs of the invariant that the keeper's key is in range wherever it went
(`KeeperInOrder`): a compressed point in range reads back to the very number it was made
from (`CompressedReads`), so both sides multiply the same two numbers (`EcdhAgrees`). For a
message, both sides have been given the other's point, or both one of small order, and come to one secret; `SealedIsChain` joins the two calls of `aes_cbc_encrypt`, which share one
iv, to one chain of `Len(payload) \div NemBlock + 1` blocks; `ChainOpens` says that each
block of a chain opens to what it was sealed from; and `SealedOpens` places every byte:
the payload, and behind it as many bytes as were missing, each holding that number,
which is what `NEM_DECRYPTED_SIZE` takes off again – for an empty payload and one of
whole blocks too. AES itself is a function nobody knows, and a block opened with
another key or another block before it gives zeros.

A path is walked by a recursive function over its positions, and so is a chain of blocks. As in `MultisignProofs` the
induction is by a least position, here in the form of `AllUpTo` – a set that holds
0 and with each number the next – whose only use of the library is that numbers are
well-founded.

## 7. Runs

| run | what it shows | instance |
|---|---|---|
| `keystore_hosts` | directory, caches and abstract store agree; one file per address; nothing is written while something is unread; no key before the backup exclusion; every call is atomic | 2 threads, 1 address, 2 passwords, 3 calls, 1 crash, 1 outage; current handles |
| `keystore_free` | listed accounts open; decisions still hold at commit; retries neither resurrect an account nor replace a key | the same for every host, with `addKey`/`addAccount` |
| `keystore_live` | every call returns; a store that could not be read becomes readable for a host that keeps asking | weak fairness, 2 calls, 1 password |
| `keystore_stale_update` | a disagreement, section 8 | 3 calls, no crash, no outage |
| `addressmap` | UUIDs unique, `usedIds` exact, racing callers agree, rows survive | 2 addresses, 2 callers, 2 jobs, 1 exit, 1 failed load, 1 failed write, any snapshot |
| `metrics_tx` | only received values are confirmed, only received rows are deleted, every row has an owner, the older database is merged completely before it counts as merged | 1 wallet, 1 recorder and the worker, 1 recording, 2 days, 2 requests in flight, 1 crash, 1 failed write, an older database with up to 2 rows that count 2 |
| `metrics_wallets` | a request is one wallet's on one network, selected since the last look; a merge is credited to the network it merged; a removal deletes its own statistics only | 2 wallets, 2 networks, 1 switch, 1 removal, an older database with up to 2 rows of either |
| `metrics_live` | balances, recorded or merged, do not stay unreported while their wallet stays selected | fairness above, 1 recording, up to 2 older rows, 1 crash, 1 failed write, 2 days, 1 request |
| `metrics_orphan` | a disagreement, section 8 | 1 recording, 1 removal |
| `multisign` | a success leaves every signer once, no call loses another's signature, a failing call changes nothing | 3 owners, 1 device, 2 chains and an id that is none, a limit of 3 standing for 5, 2 edits (the second leaves no contract), 2 damages |
| `trezor_crypto` | results do not depend on pieces; texts carry their contents, damage is seen and nothing overflows; watchers, paths and peers agree; ed25519 is the standard's | see below |
| `signing` | keys, signatures, verification and recovery follow the group's law, at the edges | 2 curves of prime order just below 2^22 (one with a = 0, one with a = −3), limbs 3 × 9 bits, windows of 2 bits |

Why the bounds are enough. KeyStore: two threads are enough for every interleaving
of a pair of sections; three calls let one thread finish two calls while the other
is between its sections. One address suffices because files, dictionaries and guards are per address, apart
from `hasUnreadableAccounts`, which one address with several files exercises (the
proofs cover any number). Metrics: two of each actor is what a race needs. Two
requests in flight and a crash cover answers that are late, lost or out of order;
two days cover one roll-over. Two older rows are what a merge needs to stop between two. `MaxIds` is what
the instance can hand out: the older ids, and one for each time a wallet without one can be asked
for, after a restart or a removal too. Multisign: three owners on two chains reach arrays at, below and above
the limit, with duplicates and damaged signatures before and after the caller's.

`trezor_crypto`: words of 2 bytes and blocks of 4 words with messages of up to 20 units
reach every fill of a buffer, every padding that spills, and – with counts that wrap at
16 or 128 – every carry. The codecs take contents, texts and sizes chosen at the edges
of their code: leading zeros, full digits, buffers one byte short, numbers of up to 13 digits with
every way of scaling and cutting them. AES, under two keys, and
the exact compressions are run on their own output, where a wrong bit of any round
spreads to every later one. The tree has order
3593 below a word range of 4096, so that halves at 0, 1, n−1, n and beyond and keys that cancel
occur at each of two generations; 24 HMACs are more than any child of the instance needs. The field
2^14 − 3 with a subgroup of order 2039 and cofactor 8 has the shape of 2^255 − 19; limbs that are empty, full and
several times full are enumerated. `signing` puts the base point's abscissa above the
order and includes scalars whose multiples have r = 0, digests that make s = 0, and nonces out of range.

Deadlock is checked in the runs of KeyStore, AddressMap, Multisign, Signing and
the library. The metrics runs switch it off because the system may really stop:
when reporting is turned off for good nothing is left to do.

## 8. Disagreements found

Two are shown by runs:

| run | the code | what the repository says |
|---|---|---|
| `keystore_stale_update` | `update` saves to the handle's url (`KeyStore.swift:379`), which a concurrent delete and import may have made stale | "Updates the password of an existing account." (:341) |
| `metrics_orphan` | a UUID resolved before a removal is written after it (`TRXStatisticalUploadManager.swift:108`) | "dropping the metrics of `removedIds` in the same transaction" (`TRXMetricsDBManager.swift:638`), "explicit deletion" (`PRIVACY-POLICY.md:94`) |

Others were met while modelling:

* A temporary file survives a crash before the rename and is never removed
  (`KeyStore.swift:494`); "Deletes an account including its key" (:384). The model has
  these files in `strays`.
* The merge of the older database overwrites rows recorded since
  (`TRXMetricsDBManager.swift:136`); "merges records on-device"
  (`PRIVACY-POLICY.md:118`). `MergedIsKept` therefore claims that the older rows
  arrive, and not that what was recorded before the merge is added to them.
* Clean-up of earlier days needs a successful upload of something unconfirmed
  (`TRXStatisticalUploadManager.swift:221`); "once the day rolls over, it is
  deleted … no rolling local archive" (`PRIVACY-POLICY.md:176`).
* In the library: `sha3_Final` marks its context as finalized, so that a later
  update is "too late for additional input", and then wipes the context and the mark with
  it; `modm-donna-32bit.c:174` calls `twoP` what is the order once, which suffices;
  `cash_encode` takes an upper-case prefix and writes it before lower-case letters,
  which its reader refuses.

## 9. Seeded faults

Definitions named `Faulty…` are plausible bugs of the definition below them (a
dropped guard, a missing reset, a missing filter). Replacing the definition by its
faulty form makes TLC refute the property `PROJECT.json` pairs it with, in the
property's own run: each property can tell the code from a broken one.

## 10. What is only model-checked

* Liveness (`CallsReturn`, `UnreadableClears`, `EveryEventReported`): it rests on
  fairness and ENABLED, which TLAPS does not support.
* The properties of `trezor_crypto` and `signing`, but for those of `Derivation`
  (section 6). Where a definition recurses over one sequence – a path, a chain of
  blocks, the signers of a multisignature – the proofs carry out the induction by
  hand, with the set of the places that are right. The codecs, hashes, limbs and windows
  are folds inside folds, on both sides of their properties, with a step as
  parameter: what `Fold` computes for every step is a lemma that the provers cannot
  instantiate. `EdSessions` and `Signing` rest on the group law of the curves besides,
  which is algebra and nothing about this code.

## 11. Not modelled

* What the ciphers of keystore files compute (`Keystore encryption` decrypts with the
  encryption password and no other); file formats; logging; scrypt's limits.
* The relocation of the statistics database (planned), opening it encrypted, and
  its schema upgrades (I/O that either succeeds before use or leaves every operation
  failing, which is a failed write).
* The order in which the *server* applies requests: `received` is a set.
* Numeric overflow of counters and decimal totals (refused by guards that unit
  tests cover).
* ABI/RLP/Web3 encoders: stateless, compared with vectors by the repository's tests.
* Random numbers; side channels; wiping of memory, except of the wallet's seed.
* The gRPC client and protocol files (generated), the example application.
