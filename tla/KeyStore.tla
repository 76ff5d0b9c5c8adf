------------------------------ MODULE KeyStore ------------------------------
(***************************************************************************)
(* KeyStore.swift: the directory of encrypted key files, the two           *)
(* dictionaries that cache it, the two locks that guard them, and the      *)
(* retries that keep a store usable while protected files cannot be read.  *)
(*                                                                         *)
(* Every withStateLock { } of the class is two steps here: Enter (take     *)
(* stateLock, retry whatever storage work is pending) and the body, which  *)
(* releases the lock.  A save inside a body is itself split at the rename, *)
(* because a process can die between the temporary file and the rename.    *)
(*                                                                         *)
(* A key is abstracted to its encryption password: decrypting succeeds     *)
(* exactly with that password.  A key file is named by its address and a   *)
(* generation, the n-th timestamp makeAccountURL was called at for it.     *)
(*                                                                         *)
(* Definitions named Faulty... are seeded faults: the mutation runs put    *)
(* each in the place of the definition that follows it.                    *)
(***************************************************************************)
EXTENDS Integers, FiniteSets

CONSTANTS
  Thread,        \* threads of the host application that share one KeyStore
  Addr,          \* addresses
  Password,      \* encryption passwords, standing for the keys they open
  NoThread,      \* nobody holds the lock
  NoKey,         \* no cached key, or no file under that name
  Corrupt,       \* the content of a file that is not a keystore JSON
  MaxGen,        \* bound: file names one address may have used
  MaxCalls,      \* bound: mutating calls
  MaxCrashes,    \* bound: process deaths
  MaxOutages,    \* bound: times storage becomes unavailable
  HandlesStayCurrent, \* hosts do not overlap update(a)/addAccount(a) with delete(a)
  StagedApi      \* hosts use addKey / addAccount

ASSUME SpecialAssumption ==
  /\ NoThread \notin Thread
  /\ NoKey \notin Password
  /\ Corrupt \notin Password \cup {NoKey}

ASSUME BoundAssumption ==
  /\ MaxGen \in Nat /\ MaxCalls \in Nat /\ MaxCrashes \in Nat /\ MaxOutages \in Nat
  /\ MaxGen > MaxCalls    \* a call uses at most one new name: names never run out
  /\ HandlesStayCurrent \in BOOLEAN /\ StagedApi \in BOOLEAN

Gen == 1 .. MaxGen
Url == Addr \X Gen
FileBody == Password \cup {NoKey, Corrupt}

Kind == {"create", "import", "update", "delete", "addKey", "addAccount"}
Call == [kind : Kind, addr : Addr, gen : 0 .. MaxGen,
         pw : Password, new : Password]
NoCall == [kind |-> "none"]

VARIABLES
  \* the key directory: what survives the process
  disk,              \* the committed files
  names,             \* how many names each address has used
  strays,            \* addresses with a leftover .keystore-UUID temporary file
  dirExcluded,       \* the directory carries the backup-exclusion attribute
  \* the fields of the KeyStore object
  accountsByAddress, \* generation of the listed account's url, 0 if none
  keysByAddress,
  pendingAccountURLs,
  loadedAccountURLs,
  directoryListingPending,
  backupExclusionPending,
  mutationLock,
  stateLock,
  \* the host's calls
  pc, op,
  \* the environment
  up,                \* the process runs and the KeyStore object exists
  storageOK,         \* protected data is available: no file operation fails
  calls, crashes, outages

diskVars  == <<disk, names, strays, dirExcluded>>
cacheVars == <<accountsByAddress, keysByAddress, pendingAccountURLs,
               loadedAccountURLs, directoryListingPending>>
lockVars  == <<mutationLock, stateLock>>
envVars   == <<up, storageOK, calls, crashes, outages>>
vars == <<diskVars, cacheVars, backupExclusionPending, lockVars, pc, op, envVars>>

-----------------------------------------------------------------------------
hasUnreadableAccounts ==
  directoryListingPending \/ ~(pendingAccountURLs \subseteq loadedAccountURLs)

\* One file per address among the files `fresh`: the one the listing yields first.
Firsts(fresh) ==
  {s \in SUBSET fresh :
     \A u \in fresh : \E v \in s : /\ v[1] = u[1]
                                   /\ \A w \in s : w[1] = u[1] => w = v}

FirstGen(s, a) == CHOOSE g \in Gen : <<a, g>> \in s
HasFirst(s, a) == \E g \in Gen : <<a, g>> \in s

\* A file that is not a keystore JSON is skipped, not retried.
FaultyDecodes(u) == disk[u] # NoKey
Decodes(u) == disk[u] \in Password
Keystores(read) == {u \in read : Decodes(u)}
Present(urls) == {u \in urls : disk[u] # NoKey}

FaultyPendingDropped(present, read, metaFailed) == metaFailed
FaultyPendingUndecodable(present, read, metaFailed) ==
  {u \in present : u \notin read \/ ~Decodes(u)} \cup metaFailed
StillPending(present, read, metaFailed) == (present \ read) \cup metaFailed

\* Only files no earlier pass has loaded are registered.
FaultyNotYetLoaded(good) == good
NotYetLoaded(good) == good \ loadedAccountURLs

FaultyKeyAfterLoad(s, a) ==
  IF HasFirst(s, a) THEN disk[<<a, FirstGen(s, a)>>] ELSE keysByAddress[a]
KeyAfterLoad(s, a) ==
  IF keysByAddress[a] = NoKey /\ HasFirst(s, a)
  THEN disk[<<a, FirstGen(s, a)>>] ELSE keysByAddress[a]

\* The effect of one pass over the files `present` of which `read` could be read:
\* a keystore is registered, and stays pending too if its protection or backup
\* attribute could not be set (metaFailed).
Register(present, read, metaFailed, s) ==
  /\ pendingAccountURLs' = StillPending(present, read, metaFailed)
  /\ loadedAccountURLs' = loadedAccountURLs \cup Keystores(read)
  /\ keysByAddress' = [a \in Addr |-> KeyAfterLoad(s, a)]
  /\ accountsByAddress' =
       [a \in Addr |-> IF accountsByAddress[a] = 0 /\ HasFirst(s, a)
                       THEN FirstGen(s, a) ELSE accountsByAddress[a]]

\* Reading the files `urls`: a missing file is dropped, any other may be unreadable.
loadAccounts(urls) ==
  \E read \in SUBSET Present(urls) :
    \E metaFailed \in SUBSET Keystores(read), s \in Firsts(NotYetLoaded(Keystores(read))) :
      /\ storageOK => read = Present(urls) /\ metaFailed = {}
      /\ Register(Present(urls), read, metaFailed, s)

FaultyRetryExclusion ==
  \E ok \in BOOLEAN :
    /\ storageOK => ok
    /\ backupExclusionPending' = FALSE
    /\ dirExcluded' = (dirExcluded \/ ok)

\* A section that has to list the directory again has already tried once, when the
\* attribute was missing, and only the second try decides the flag.
retryDirectoryBackupExclusion ==
  \E ok, earlier \in BOOLEAN :
    /\ storageOK => ok
    /\ earlier => backupExclusionPending /\ directoryListingPending
    /\ backupExclusionPending' = ~ok
    /\ dirExcluded' = (dirExcluded \/ ok \/ earlier)

\* createDirectory, the exclusion of the directory, then the listing; the first
\* and the last of them may fail, and then the set of key files is unknown.
load ==
  /\ \/ retryDirectoryBackupExclusion
     \/ ~storageOK /\ UNCHANGED <<backupExclusionPending, dirExcluded>>
  /\ \/ /\ directoryListingPending' = FALSE
        /\ loadAccounts(Url)
     \/ /\ ~storageOK
        /\ directoryListingPending' = TRUE
        /\ UNCHANGED <<accountsByAddress, keysByAddress,
                       pendingAccountURLs, loadedAccountURLs>>

\* What withStateLock does before its body.
RetryPending ==
  IF directoryListingPending THEN load
  ELSE /\ IF backupExclusionPending THEN retryDirectoryBackupExclusion
          ELSE UNCHANGED <<backupExclusionPending, dirExcluded>>
       /\ IF pendingAccountURLs # {} THEN loadAccounts(pendingAccountURLs)
          ELSE UNCHANGED <<accountsByAddress, keysByAddress,
                           pendingAccountURLs, loadedAccountURLs>>
       /\ UNCHANGED directoryListingPending

-----------------------------------------------------------------------------
Init ==
  \* What earlier sessions left: at most one file per address, maybe not a keystore.
  /\ \E body \in [Addr -> FileBody] :
       disk = [u \in Url |-> IF u[2] = 1 THEN body[u[1]] ELSE NoKey]
  /\ names = [a \in Addr |-> IF disk[<<a, 1>>] = NoKey THEN 0 ELSE 1]
  /\ strays = {}
  /\ dirExcluded \in BOOLEAN
  /\ accountsByAddress = [a \in Addr |-> 0]
  /\ keysByAddress = [a \in Addr |-> NoKey]
  /\ pendingAccountURLs = {}
  /\ loadedAccountURLs = {}
  /\ directoryListingPending = FALSE
  /\ backupExclusionPending = TRUE
  /\ mutationLock = NoThread
  /\ stateLock = NoThread
  /\ pc = [t \in Thread |-> "idle"]
  /\ op = [t \in Thread |-> NoCall]
  /\ up = FALSE
  /\ storageOK \in BOOLEAN
  /\ calls = 0
  /\ crashes = 0
  /\ outages = 0

\* KeyStore.init(keyDirectory:)
Open ==
  /\ ~up
  /\ up' = TRUE
  /\ load
  /\ UNCHANGED <<disk, names, strays, lockVars, pc, op, storageOK, calls,
                 crashes, outages>>

-----------------------------------------------------------------------------
InFlight(a, kinds) ==
  \E t \in Thread : op[t] # NoCall /\ op[t].addr = a /\ op[t].kind \in kinds

\* The handle passed to update and delete is the account listed at that moment.
\* A createAccount key is random, so its address is one nobody has seen.
Callable(c) ==
  LET a == c.addr IN
  /\ ~InFlight(a, {"create"})
  /\ CASE c.kind = "create" ->
            /\ names[a] = 0 /\ keysByAddress[a] = NoKey
            /\ ~InFlight(a, Kind)
            /\ c.gen = 0 /\ c.pw = c.new
       [] c.kind = "import" -> c.gen = 0 /\ c.pw = c.new
       [] c.kind = "update" ->
            /\ c.gen = accountsByAddress[a] /\ c.gen # 0
            /\ HandlesStayCurrent => ~InFlight(a, {"delete"})
       [] c.kind = "delete" ->
            /\ c.gen = accountsByAddress[a] /\ c.gen # 0 /\ c.pw = c.new
            /\ HandlesStayCurrent => ~InFlight(a, {"update", "addAccount"})
       [] c.kind = "addKey" -> StagedApi /\ c.gen = 0 /\ c.pw = c.new
       [] c.kind = "addAccount" ->
            /\ StagedApi /\ c.pw = c.new
            /\ c.gen \in 1 .. names[a] + 1
            /\ HandlesStayCurrent => ~InFlight(a, {"delete"})

Begin(t) ==
  /\ up
  /\ pc[t] = "idle"
  /\ calls < MaxCalls
  /\ \E c \in Call : Callable(c) /\ op' = [op EXCEPT ![t] = c]
  /\ pc' = [pc EXCEPT ![t] = "mutex"]
  /\ calls' = calls + 1
  /\ UNCHANGED <<diskVars, cacheVars, backupExclusionPending, lockVars, up,
                 storageOK, crashes, outages>>

FaultyMutexFree == TRUE
MutexFree == mutationLock = NoThread

\* import, update and delete read the dictionaries in a first locked section,
\* decrypt and derive outside the lock, and commit in a second one.
Lock(t) ==
  /\ pc[t] = "mutex"
  /\ MutexFree
  /\ mutationLock' = t
  /\ pc' = [pc EXCEPT ![t] =
       IF op[t].kind \in {"import", "update", "delete"} THEN "check" ELSE "commit"]
  /\ UNCHANGED <<diskVars, cacheVars, backupExclusionPending, stateLock, op, envVars>>

\* accounts, account(for:), key(for:), export..., signHash(es),
\* checkingAccountAlreadyExists, generateWalletPath: one section, no mutationLock.
BeginRead(t) ==
  /\ up
  /\ pc[t] = "idle"
  /\ pc' = [pc EXCEPT ![t] = "read"]
  /\ UNCHANGED <<diskVars, cacheVars, backupExclusionPending, lockVars, op, envVars>>

Enter(t) ==
  /\ pc[t] \in {"read", "check", "commit"}
  /\ stateLock = NoThread
  /\ stateLock' = t
  /\ RetryPending
  /\ UNCHANGED <<disk, names, strays, mutationLock, pc, op, envVars>>

FaultyMutexAfter(t) == mutationLock
MutexAfter(t) == IF mutationLock = t THEN NoThread ELSE mutationLock

\* The call ends: both defers run.
Finish(t) ==
  /\ stateLock' = NoThread
  /\ mutationLock' = MutexAfter(t)
  /\ pc' = [pc EXCEPT ![t] = "idle"]
  /\ op' = [op EXCEPT ![t] = NoCall]
  /\ UNCHANGED envVars

Throw(t) ==
  /\ Finish(t)
  /\ UNCHANGED <<disk, names, strays, cacheVars>>

EndRead(t) ==
  /\ pc[t] = "read"
  /\ stateLock = t
  /\ Throw(t)
  /\ UNCHANGED <<dirExcluded, backupExclusionPending>>

\* The first section and the work between the sections.  It ends in a throw when
\* the account exists (import) or is missing, the password is wrong, or the
\* input is invalid.
FaultyCheckPasses(c) ==
  CASE c.kind = "import" -> accountsByAddress[c.addr] = 0
    [] c.kind = "update" -> keysByAddress[c.addr] # NoKey
    [] c.kind = "delete" -> accountsByAddress[c.addr] # 0

CheckPasses(c) ==
  CASE c.kind = "import" -> accountsByAddress[c.addr] = 0
    [] c.kind = "update" -> keysByAddress[c.addr] = c.pw
    [] c.kind = "delete" -> /\ keysByAddress[c.addr] = c.pw
                            /\ accountsByAddress[c.addr] # 0

Check(t) ==
  /\ pc[t] = "check"
  /\ stateLock = t
  /\ \/ /\ CheckPasses(op[t])
        /\ op' = IF op[t].kind = "delete"   \* storedAccount, not the handle
                 THEN [op EXCEPT ![t].gen = accountsByAddress[op[t].addr]]
                 ELSE op
        /\ pc' = [pc EXCEPT ![t] = "commit"]
        /\ stateLock' = NoThread
        /\ UNCHANGED <<disk, names, strays, cacheVars, mutationLock, envVars>>
     \/ /\ ~CheckPasses(op[t]) \/ op[t].kind # "delete"
        /\ Throw(t)
  /\ UNCHANGED <<dirExcluded, backupExclusionPending>>

CommitAddKey(t) ==
  /\ pc[t] = "commit"
  /\ stateLock = t
  /\ op[t].kind = "addKey"
  /\ keysByAddress' = [keysByAddress EXCEPT ![op[t].addr] = op[t].new]
  /\ Finish(t)
  /\ UNCHANGED <<diskVars, accountsByAddress, pendingAccountURLs, loadedAccountURLs,
                 directoryListingPending, backupExclusionPending>>

CommitDelete(t) ==
  LET a == op[t].addr
      file == <<a, op[t].gen>>
  IN
  /\ pc[t] = "commit"
  /\ stateLock = t
  /\ op[t].kind = "delete"
  /\ \/ /\ ~hasUnreadableAccounts
        /\ disk[file] # NoKey
        /\ disk' = [disk EXCEPT ![file] = NoKey]
        /\ keysByAddress' = [keysByAddress EXCEPT ![a] = NoKey]
        /\ accountsByAddress' = [accountsByAddress EXCEPT ![a] = 0]
        /\ Finish(t)
        /\ UNCHANGED <<names, strays, pendingAccountURLs, loadedAccountURLs,
                       directoryListingPending>>
     \/ /\ hasUnreadableAccounts \/ disk[file] = NoKey \/ ~storageOK
        /\ Throw(t)
  /\ UNCHANGED <<dirExcluded, backupExclusionPending>>

FaultySaveUnread(c) ==
  /\ c.kind = "import" => accountsByAddress[c.addr] = 0
  /\ c.kind = "addAccount" => keysByAddress[c.addr] # NoKey

\* The guards of the commit sections, then of save().
MaySave(c) ==
  /\ c.kind = "import" => accountsByAddress[c.addr] = 0
  /\ c.kind = "addAccount" => keysByAddress[c.addr] # NoKey
  /\ ~hasUnreadableAccounts

\* save() up to the rename: exclude the directory, write the temporary file.  A
\* failure after the temporary file exists may leave it behind: its removal is tried
\* once and the result ignored.
\* createAccount and import name a new file; addAccount saves the cached key.
Stage(t) ==
  LET c == op[t]
      gen == IF c.kind \in {"create", "import"} THEN names[c.addr] + 1 ELSE c.gen
      body == IF c.kind = "addAccount" THEN keysByAddress[c.addr] ELSE c.new
  IN
  /\ pc[t] = "commit"
  /\ stateLock = t
  /\ c.kind \in {"create", "import", "update", "addAccount"}
  /\ \/ /\ MaySave(c)
        /\ gen \in Gen
        /\ backupExclusionPending' = FALSE
        /\ dirExcluded' = TRUE
        /\ names' = [names EXCEPT ![c.addr] = IF gen > @ THEN gen ELSE @]
        /\ op' = [op EXCEPT ![t].gen = gen, ![t].new = body]
        /\ pc' = [pc EXCEPT ![t] = "rename"]
        /\ UNCHANGED <<disk, strays, cacheVars, lockVars, envVars>>
     \/ /\ ~MaySave(c)
        /\ Throw(t)
        /\ UNCHANGED <<dirExcluded, backupExclusionPending>>
     \/ /\ MaySave(c)
        /\ ~storageOK
        /\ backupExclusionPending' \in BOOLEAN
        /\ dirExcluded' = (dirExcluded \/ ~backupExclusionPending')
        /\ strays' \in {strays, IF backupExclusionPending' THEN strays
                                ELSE strays \cup {c.addr}}
        /\ Finish(t)
        /\ UNCHANGED <<disk, names, cacheVars>>

\* The rename of save() and the assignments after it.  When it fails, removing
\* the temporary file is tried once and its failure ignored.
Rename(t) ==
  LET c == op[t]
      file == <<c.addr, c.gen>>
  IN
  /\ pc[t] = "rename"
  /\ \/ /\ disk' = [disk EXCEPT ![file] = c.new]
        /\ keysByAddress' = [keysByAddress EXCEPT ![c.addr] = c.new]
        /\ accountsByAddress' =
             [accountsByAddress EXCEPT ![c.addr] = IF c.kind = "update" THEN @ ELSE c.gen]
        /\ Finish(t)
        /\ UNCHANGED <<names, strays, pendingAccountURLs, loadedAccountURLs,
                       directoryListingPending>>
     \/ /\ ~storageOK
        /\ Finish(t)
        /\ strays' \in {strays, strays \cup {c.addr}}
        /\ UNCHANGED <<disk, names, cacheVars>>
  /\ UNCHANGED <<dirExcluded, backupExclusionPending>>

-----------------------------------------------------------------------------
\* The process dies: memory is gone, files stay, and nobody removes the
\* temporary file of a save that had not renamed it.
Crash ==
  /\ up
  /\ crashes < MaxCrashes
  /\ crashes' = crashes + 1
  /\ up' = FALSE
  /\ strays' = strays \cup {op[t].addr : t \in {s \in Thread : pc[s] = "rename"}}
  /\ accountsByAddress' = [a \in Addr |-> 0]
  /\ keysByAddress' = [a \in Addr |-> NoKey]
  /\ pendingAccountURLs' = {}
  /\ loadedAccountURLs' = {}
  /\ directoryListingPending' = FALSE
  /\ backupExclusionPending' = TRUE
  /\ mutationLock' = NoThread
  /\ stateLock' = NoThread
  /\ pc' = [t \in Thread |-> "idle"]
  /\ op' = [t \in Thread |-> NoCall]
  /\ UNCHANGED <<disk, names, dirExcluded, storageOK, calls, outages>>

\* The device locks (protected files become unavailable) and unlocks.
Outage ==
  /\ storageOK
  /\ outages < MaxOutages
  /\ outages' = outages + 1
  /\ storageOK' = FALSE
  /\ UNCHANGED <<diskVars, cacheVars, backupExclusionPending, lockVars, pc, op,
                 up, calls, crashes>>

Recover ==
  /\ ~storageOK
  /\ storageOK' = TRUE
  /\ UNCHANGED <<diskVars, cacheVars, backupExclusionPending, lockVars, pc, op,
                 up, calls, crashes, outages>>

\* A call that has begun: the steps its own thread takes.
Progress(t) ==
  \/ Lock(t) \/ Enter(t) \/ EndRead(t) \/ Check(t)
  \/ CommitAddKey(t) \/ CommitDelete(t) \/ Stage(t) \/ Rename(t)

Next ==
  \/ Open \/ Crash \/ Outage \/ Recover
  \/ \E t \in Thread : Begin(t) \/ BeginRead(t) \/ Progress(t)

Spec == Init /\ [][Next]_vars

\* Threads are scheduled, the application is restarted, the device is unlocked
\* again.  NSLock promises no order among waiting threads: no strong fairness.
Fairness ==
  /\ WF_vars(Open) /\ WF_vars(Recover)
  /\ \A t \in Thread : WF_vars(Progress(t))

FairSpec == Spec /\ Fairness

-----------------------------------------------------------------------------
\* Every variable stays in its range.
TypeOK ==
  /\ disk \in [Url -> FileBody]
  /\ names \in [Addr -> 0 .. MaxGen]
  /\ strays \subseteq Addr
  /\ dirExcluded \in BOOLEAN /\ up \in BOOLEAN /\ storageOK \in BOOLEAN
  /\ directoryListingPending \in BOOLEAN /\ backupExclusionPending \in BOOLEAN
  /\ accountsByAddress \in [Addr -> 0 .. MaxGen]
  /\ keysByAddress \in [Addr -> Password \cup {NoKey}]
  /\ pendingAccountURLs \subseteq Url
  /\ loadedAccountURLs \subseteq Url
  /\ mutationLock \in Thread \cup {NoThread}
  /\ stateLock \in Thread \cup {NoThread}
  /\ pc \in [Thread -> {"idle", "mutex", "read", "check", "commit", "rename"}]
  /\ op \in [Thread -> Call \cup {NoCall}]
  /\ calls \in Nat /\ crashes \in Nat /\ outages \in Nat

\* A listed account can be opened: its file is on disk and decodes, and its key
\* is cached.  It needs load, save and delete to keep three structures in step
\* through failed reads and failed writes (lines 56-93, 125-129, 399-406).
AccountBacked ==
  \A a \in Addr : accountsByAddress[a] # 0 =>
    /\ disk[<<a, accountsByAddress[a]>>] \in Password
    /\ keysByAddress[a] # NoKey

\* What a call decided in its first section is still true when it commits, though
\* it decrypted without stateLock: the password update and delete were given still
\* opens the cached key, delete removes the file that is listed, and a save that
\* creates an account finds none (lines 206, 247, 352-381, 389-406).
DecisionStillValid ==
  \A t \in Thread :
    LET a == op[t].addr IN
    /\ pc[t] \in {"commit", "rename"} /\ op[t].kind \in {"update", "delete"} =>
         keysByAddress[a] = op[t].pw
    /\ pc[t] = "commit" /\ op[t].kind = "delete" => accountsByAddress[a] = op[t].gen
    /\ pc[t] = "rename" /\ op[t].kind \in {"create", "import"} =>
         accountsByAddress[a] = 0 /\ ~hasUnreadableAccounts

\* An address never has two key files, so no later session can pick the wrong one.
OneFilePerAddress ==
  \A a \in Addr, g, h \in Gen :
    disk[<<a, g>>] \in Password /\ disk[<<a, h>>] \in Password => g = h

\* Once every file has been read the listing is exactly the directory; until then
\* whatever is listed is right.  Reads between two sections see nothing else.
ListingIsDirectory ==
  \A a \in Addr :
    /\ keysByAddress[a] # NoKey => accountsByAddress[a] # 0
    /\ accountsByAddress[a] # 0 => keysByAddress[a] = disk[<<a, accountsByAddress[a]>>]
    /\ up /\ ~hasUnreadableAccounts =>
         \A g \in Gen : disk[<<a, g>>] \in Password => accountsByAddress[a] = g

\* Key files are neither written nor removed while some file of the directory has
\* not been read (lines 21-25, 400, 486): it might hold the same address.
NoWriteWhileUnreadable == [][hasUnreadableAccounts => disk' = disk]_vars

\* The retries of withStateLock list an account only while mutations are refused.
\* A file left over from a deleted account, or one whose metadata keeps failing,
\* never brings the account back in the session that deleted it (line 81).
RetryNeverResurrects ==
  [][\A a \in Addr :
       (up /\ accountsByAddress[a] = 0 /\ accountsByAddress'[a] # 0) =>
         hasUnreadableAccounts \/ \E t \in Thread : pc[t] = "rename"]_vars

\* A cached key changes only at the commit of the call that holds mutationLock:
\* a retry must not replace a key addKey installed before addAccount saves it
\* (line 84), nor the key a password update installed.
OnlyCommitChangesKey ==
  [][\A a \in Addr :
       (up' /\ keysByAddress[a] # NoKey /\ keysByAddress'[a] # keysByAddress[a]) =>
         \E t \in Thread : /\ mutationLock = t /\ stateLock = t
                          /\ op[t].addr = a /\ op'[t] = NoCall]_vars

\* Key material reaches the directory only after it was excluded from backups,
\* and the retry flag never says so wrongly (lines 26, 41-46, 491-493, 510-518).
NoKeyInBackup ==
  /\ ~backupExclusionPending => dirExcluded
  /\ (\E t \in Thread : pc[t] = "rename") => dirExcluded

\* After a password change has returned, the file a restart would list for the
\* account holds the new password: "Updates the password of an existing account"
\* (line 341).
UpdateIsDurable ==
  \A a \in Addr :
    accountsByAddress[a] # 0 => keysByAddress[a] = disk[<<a, accountsByAddress[a]>>]

\* Every call returns: the two locks are always taken in one order and released
\* on every path, also by a throw.  Under unfair locks a stream of reads could keep
\* a writer out for ever, so the claim is for hosts whose reads come to an end.
CallsReturn ==
  <>[](\A s \in Thread : pc[s] # "read") =>
    \A t \in Thread : (pc[t] # "idle") ~> (pc[t] = "idle")

\* Once storage is available again a host that keeps asking sees every account.
UnreadableClears ==
  []<>(\E t \in Thread : pc[t] = "read") =>
    ((up /\ hasUnreadableAccounts) ~> (up => ~hasUnreadableAccounts))
-----------------------------------------------------------------------------
(* KeyStore implements AbstractKeyStore: the abstract store is what the    *)
(* committed key files say, read without the caches, so the map the host   *)
(* is promised survives a process death at any step.                       *)

\* The key a restart would find for an address.
StoredKey(a) ==
  IF \E g \in Gen : disk[<<a, g>>] \in Password
  THEN disk[<<a, CHOOSE g \in Gen : disk[<<a, g>>] \in Password>>]
  ELSE NoKey

\* A call without the file name it carries.
RequestOf(c) ==
  IF c = NoCall THEN [kind |-> "none"]
  ELSE [kind |-> c.kind, addr |-> c.addr, pw |-> c.pw, new |-> c.new]

Abstract == INSTANCE AbstractKeyStore WITH
  store <- [a \in Addr |-> StoredKey(a)],
  request <- [t \in Thread |-> RequestOf(op[t])]

\* Every mutating call of the class is atomic and durable: it takes effect once,
\* at its rename or its removal, on the state it was checked against, or it throws
\* and changes nothing (lines 117-256, 348-407), whatever the interleaving of the
\* hosts, the failed reads and writes, and the process deaths.
CallsAreAtomic == Abstract!Spec
=============================================================================
