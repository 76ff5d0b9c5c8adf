---------------------------- MODULE KeyStoreProofs ----------------------------
(***************************************************************************)
(* Safety of KeyStore for every number of threads, addresses, passwords,   *)
(* calls, process deaths and device locks.  The invariant IInv and what    *)
(* follows from it hold for every use of the class.  From FilesOK on the   *)
(* host keeps its handles current and does not use addKey and addAccount   *)
(* in two steps (HandlesStayCurrent, ~StagedApi): for such hosts files,    *)
(* caches and the abstract store agree.                                    *)
(***************************************************************************)
EXTENDS KeyStore, TLAPS

USE SpecialAssumption, BoundAssumption DEF Gen, Url, FileBody

-----------------------------------------------------------------------------
\* FirstGen chooses a file of the address among those just read.
LEMMA FirstGenChosen ==
  ASSUME NEW fresh \in SUBSET Url, NEW s \in Firsts(fresh), NEW a \in Addr, HasFirst(s, a)
  PROVE  FirstGen(s, a) \in Gen /\ <<a, FirstGen(s, a)>> \in fresh
<1>1. PICK g \in Gen : <<a, g>> \in s
  BY DEF HasFirst
<1>2. FirstGen(s, a) \in Gen /\ <<a, FirstGen(s, a)>> \in s
  BY <1>1, Zenon DEF FirstGen
<1>3. s \subseteq fresh
  BY DEF Firsts
<1> QED BY <1>2, <1>3

\* Reading files only adds to the dictionaries: what is cached or listed stays,
\* and what is newly listed has a file that decodes and a cached key.
LEMMA LoadAdds ==
  ASSUME TypeOK, NEW urls \in SUBSET Url, loadAccounts(urls)
  PROVE  /\ pendingAccountURLs' \in SUBSET Url
         /\ loadedAccountURLs' \in SUBSET Url
         /\ keysByAddress' \in [Addr -> Password \cup {NoKey}]
         /\ accountsByAddress' \in [Addr -> 0 .. MaxGen]
         /\ \A a \in Addr :
              /\ keysByAddress[a] # NoKey => keysByAddress'[a] = keysByAddress[a]
              /\ accountsByAddress[a] # 0 => accountsByAddress'[a] = accountsByAddress[a]
              /\ accountsByAddress'[a] # accountsByAddress[a] =>
                   /\ disk[<<a, accountsByAddress'[a]>>] \in Password
                   /\ keysByAddress'[a] # NoKey
<1>1. PICK read \in SUBSET Present(urls) :
        \E metaFailed \in SUBSET Keystores(read), s \in Firsts(NotYetLoaded(Keystores(read))) :
          Register(Present(urls), read, metaFailed, s)
  BY DEF loadAccounts
<1>2. PICK metaFailed \in SUBSET Keystores(read), s \in Firsts(NotYetLoaded(Keystores(read))) :
        Register(Present(urls), read, metaFailed, s)
  BY <1>1
<1>3. /\ Present(urls) \in SUBSET Url /\ Keystores(read) \in SUBSET Url
      /\ NotYetLoaded(Keystores(read)) \in SUBSET Keystores(read)
  BY DEF NotYetLoaded, Present, Keystores
<1>4. ASSUME NEW a \in Addr, HasFirst(s, a)
      PROVE  FirstGen(s, a) \in Gen /\ disk[<<a, FirstGen(s, a)>>] \in Password
  <2>1. FirstGen(s, a) \in Gen /\ <<a, FirstGen(s, a)>> \in NotYetLoaded(Keystores(read))
    BY <1>2, <1>3, <1>4, FirstGenChosen
  <2> QED BY <2>1, <1>3 DEF Decodes, Keystores
<1>5. pendingAccountURLs' \in SUBSET Url /\ loadedAccountURLs' \in SUBSET Url
  BY <1>2, <1>3 DEF Register, StillPending, TypeOK
<1>6. ASSUME NEW a \in Addr
      PROVE  /\ keysByAddress'[a] = KeyAfterLoad(s, a)
             /\ accountsByAddress'[a] = IF accountsByAddress[a] = 0 /\ HasFirst(s, a)
                                        THEN FirstGen(s, a) ELSE accountsByAddress[a]
  BY <1>2 DEF Register
<1>7. ASSUME NEW a \in Addr
      PROVE  /\ (IF accountsByAddress[a] = 0 /\ HasFirst(s, a)
                 THEN FirstGen(s, a) ELSE accountsByAddress[a]) \in 0 .. MaxGen
             /\ KeyAfterLoad(s, a) \in Password \cup {NoKey}
  <2>1. accountsByAddress[a] \in 0 .. MaxGen /\ keysByAddress[a] \in Password \cup {NoKey}
    BY DEF TypeOK
  <2>2. CASE HasFirst(s, a)
    BY <1>4, <2>1, <2>2 DEF KeyAfterLoad
  <2>3. CASE ~HasFirst(s, a)
    BY <2>1, <2>3 DEF KeyAfterLoad
  <2> QED BY <2>2, <2>3
<1>8. /\ keysByAddress' \in [Addr -> Password \cup {NoKey}]
      /\ accountsByAddress' \in [Addr -> 0 .. MaxGen]
  BY <1>2, <1>7 DEF Register
<1>9. ASSUME NEW a \in Addr
      PROVE  /\ keysByAddress[a] # NoKey => keysByAddress'[a] = keysByAddress[a]
             /\ accountsByAddress[a] # 0 => accountsByAddress'[a] = accountsByAddress[a]
             /\ accountsByAddress'[a] # accountsByAddress[a] =>
                   /\ disk[<<a, accountsByAddress'[a]>>] \in Password
                   /\ keysByAddress'[a] # NoKey
  BY <1>4, <1>6 DEF KeyAfterLoad, TypeOK
<1> QED BY <1>5, <1>8, <1>9


\* What every retry and every load does to the object.
OnlyAdds ==
  /\ pendingAccountURLs' \in SUBSET Url
  /\ loadedAccountURLs' \in SUBSET Url
  /\ keysByAddress' \in [Addr -> Password \cup {NoKey}]
  /\ accountsByAddress' \in [Addr -> 0 .. MaxGen]
  /\ \A a \in Addr :
       /\ keysByAddress[a] # NoKey => keysByAddress'[a] = keysByAddress[a]
       /\ accountsByAddress[a] # 0 => accountsByAddress'[a] = accountsByAddress[a]
       /\ accountsByAddress'[a] # accountsByAddress[a] =>
            /\ disk[<<a, accountsByAddress'[a]>>] \in Password
            /\ keysByAddress'[a] # NoKey
  /\ dirExcluded' \in BOOLEAN
  /\ backupExclusionPending' \in BOOLEAN
  /\ directoryListingPending' \in BOOLEAN

\* A step that leaves the fields of a reading alone adds nothing.
LEMMA UnchangedAdds ==
  ASSUME TypeOK, UNCHANGED <<accountsByAddress, keysByAddress,
                             pendingAccountURLs, loadedAccountURLs>>
  PROVE  /\ pendingAccountURLs' \in SUBSET Url
         /\ loadedAccountURLs' \in SUBSET Url
         /\ keysByAddress' \in [Addr -> Password \cup {NoKey}]
         /\ accountsByAddress' \in [Addr -> 0 .. MaxGen]
         /\ \A a \in Addr : /\ keysByAddress'[a] = keysByAddress[a]
                           /\ accountsByAddress'[a] = accountsByAddress[a]
BY DEF TypeOK

\* load only adds to the dictionaries.
LEMMA LoadOnlyAdds == ASSUME TypeOK, load PROVE OnlyAdds
<1>1. dirExcluded' \in BOOLEAN /\ backupExclusionPending' \in BOOLEAN
  BY DEF TypeOK, load, retryDirectoryBackupExclusion
<1>2. CASE directoryListingPending' = FALSE /\ loadAccounts(Url)
  BY <1>1, <1>2, LoadAdds DEF OnlyAdds
<1>3. CASE /\ directoryListingPending' = TRUE
           /\ UNCHANGED <<accountsByAddress, keysByAddress,
                          pendingAccountURLs, loadedAccountURLs>>
  BY <1>1, <1>3, UnchangedAdds DEF OnlyAdds
<1> QED BY <1>2, <1>3 DEF load

\* The retries of withStateLock only add to the dictionaries.
LEMMA RetryOnlyAdds == ASSUME TypeOK, RetryPending PROVE OnlyAdds
<1>1. CASE directoryListingPending
  BY <1>1, LoadOnlyAdds DEF RetryPending
<1>2. CASE ~directoryListingPending
  <2>1. /\ dirExcluded' \in BOOLEAN /\ backupExclusionPending' \in BOOLEAN
        /\ directoryListingPending' \in BOOLEAN
    BY <1>2 DEF TypeOK, RetryPending, retryDirectoryBackupExclusion
  <2>2. CASE loadAccounts(pendingAccountURLs)
    BY <2>1, <2>2, LoadAdds DEF OnlyAdds, TypeOK
  <2>3. CASE UNCHANGED <<accountsByAddress, keysByAddress,
                         pendingAccountURLs, loadedAccountURLs>>
    BY <2>1, <2>3, UnchangedAdds DEF OnlyAdds
  <2> QED BY <1>2, <2>2, <2>3 DEF RetryPending
<1> QED BY <1>1, <1>2

-----------------------------------------------------------------------------
\* The locks and the program counters: who is inside a call holds mutationLock, a
\* save keeps stateLock until its rename and started with every file read.
PcOK ==
  \A t \in Thread :
    /\ pc[t] \in {"mutex", "check", "commit", "rename"} => op[t] \in Call
    /\ pc[t] \in {"idle", "read"} => op[t] = NoCall
    /\ pc[t] # "idle" => up
    /\ pc[t] \in {"check", "commit", "rename"} => mutationLock = t
    /\ pc[t] = "check" => op[t].kind \in {"import", "update", "delete"}
    /\ pc[t] = "commit" /\ op[t].kind = "delete" => op[t].gen # 0
    /\ pc[t] = "rename" =>
         /\ stateLock = t
         /\ op[t].kind \notin {"delete", "addKey"}
         /\ op[t].gen \in 1 .. names[op[t].addr]
         /\ ~hasUnreadableAccounts

\* A file has one of the names its address has used.
NamesOK == \A a \in Addr, g \in Gen : disk[<<a, g>>] # NoKey => g <= names[a]

\* While createAccount runs, nothing else knows its address.
CreateOK ==
  \A t \in Thread : op[t] # NoCall /\ op[t].kind = "create" =>
    /\ \A s \in Thread \ {t} : op[s] # NoCall => op[s].addr # op[t].addr
    /\ accountsByAddress[op[t].addr] = 0
    /\ \A g \in Gen : disk[<<op[t].addr, g>>] = NoKey

IInv == TypeOK /\ PcOK /\ NamesOK /\ CreateOK /\ AccountBacked /\ DecisionStillValid

\* NoCall is no call, and the fields of a call are in their ranges.
LEMMA NoCallIsNoCall ==
  /\ NoCall \notin Call
  /\ \A c \in Call : /\ c.kind \in Kind /\ c.addr \in Addr /\ c.gen \in 0 .. MaxGen
                     /\ c.pw \in Password /\ c.new \in Password
BY DEF NoCall, Call, Kind

\* The invariant holds initially.
LEMMA InitIInv == Init => IInv
<1> SUFFICES ASSUME Init PROVE IInv
  OBVIOUS
<1>1. PICK body \in [Addr -> FileBody] :
        disk = [u \in Url |-> IF u[2] = 1 THEN body[u[1]] ELSE NoKey]
  BY DEF Init
<1>2. disk \in [Url -> FileBody]
  BY <1>1
<1>3. names \in [Addr -> 0 .. MaxGen]
  BY DEF Init
<1>4. TypeOK
  <2>1. /\ strays \subseteq Addr
        /\ accountsByAddress \in [Addr -> 0 .. MaxGen]
        /\ keysByAddress \in [Addr -> Password \cup {NoKey}]
        /\ pc \in [Thread -> {"idle", "mutex", "read", "check", "commit", "rename"}]
        /\ op \in [Thread -> Call \cup {NoCall}]
    BY DEF Init
  <2> QED BY <1>2, <1>3, <2>1 DEF Init, TypeOK
<1>5. NamesOK
  <2> SUFFICES ASSUME NEW a \in Addr, NEW g \in Gen, disk[<<a, g>>] # NoKey PROVE g <= names[a]
    BY DEF NamesOK
  <2>1. g = 1
    BY <1>1
  <2> QED BY <2>1 DEF Init
<1>6. PcOK /\ CreateOK /\ AccountBacked /\ DecisionStillValid
  BY DEF Init, PcOK, CreateOK, AccountBacked, DecisionStillValid
<1> QED BY <1>4, <1>5, <1>6 DEF IInv

-----------------------------------------------------------------------------
\* Opening the store and entering a locked section: no save is under way.
LEMMA AddingKeeps ==
  ASSUME IInv, OnlyAdds, \A t \in Thread : pc[t] # "rename",
         UNCHANGED <<disk, names, strays, mutationLock, pc, op, storageOK, calls,
                     crashes, outages>>,
         stateLock' \in Thread \cup {NoThread},
         up' \in BOOLEAN, up => up'
  PROVE  IInv'
<1>1. TypeOK'
  BY DEF IInv, TypeOK, OnlyAdds
<1>2. PcOK'
  BY DEF IInv, PcOK, TypeOK
<1>3. NamesOK'
  BY DEF IInv, NamesOK
<1>4. CreateOK'
  <2> SUFFICES ASSUME NEW t \in Thread, op[t] # NoCall, op[t].kind = "create"
               PROVE  accountsByAddress'[op[t].addr] = 0
    BY DEF IInv, CreateOK
  <2> DEFINE a == op[t].addr
  <2>1. a \in Addr
    BY NoCallIsNoCall DEF IInv, TypeOK
  <2>2. accountsByAddress[a] = 0 /\ \A g \in Gen : disk[<<a, g>>] = NoKey
    BY DEF IInv, CreateOK
  <2>3. accountsByAddress'[a] \in 0 .. MaxGen
    BY <2>1 DEF OnlyAdds
  <2>4. accountsByAddress'[a] # 0 => disk[<<a, accountsByAddress'[a]>>] \in Password
    BY <2>1, <2>2 DEF OnlyAdds
  <2> QED BY <2>2, <2>3, <2>4
<1>5. AccountBacked'
  BY DEF IInv, AccountBacked, OnlyAdds
<1>6. DecisionStillValid'
  <2> SUFFICES ASSUME NEW t \in Thread, pc[t] = "commit",
                      op[t].kind \in {"update", "delete"}
               PROVE  /\ keysByAddress'[op[t].addr] = op[t].pw
                      /\ op[t].kind = "delete" => accountsByAddress'[op[t].addr] = op[t].gen
    BY DEF DecisionStillValid
  <2>1. op[t].addr \in Addr /\ op[t].pw \in Password
    BY NoCallIsNoCall DEF IInv, PcOK
  <2>2. /\ keysByAddress[op[t].addr] = op[t].pw
        /\ op[t].kind = "delete" => accountsByAddress[op[t].addr] = op[t].gen
    BY DEF IInv, DecisionStillValid
  <2>3. op[t].kind = "delete" => accountsByAddress[op[t].addr] # 0
    BY <2>2 DEF IInv, PcOK
  <2> QED BY <2>1, <2>2, <2>3 DEF OnlyAdds
<1> QED BY <1>1, <1>2, <1>3, <1>4, <1>5, <1>6 DEF IInv

\* Opening the store keeps the invariant.
LEMMA OpenKeeps == ASSUME IInv, Open PROVE IInv'
<1>1. OnlyAdds
  BY LoadOnlyAdds DEF IInv, Open
<1>2. \A t \in Thread : pc[t] # "rename"
  BY DEF IInv, PcOK, Open
<1>3. stateLock' \in Thread \cup {NoThread}
  BY DEF IInv, TypeOK, Open, lockVars
<1> QED BY <1>1, <1>2, <1>3, AddingKeeps DEF Open, lockVars

\* Taking stateLock, with its retries, keeps it.
LEMMA EnterKeeps == ASSUME IInv, NEW t \in Thread, Enter(t) PROVE IInv'
<1>1. OnlyAdds
  BY RetryOnlyAdds DEF IInv, Enter
<1>2. \A s \in Thread : pc[s] # "rename"
  BY DEF IInv, PcOK, Enter
<1>3. stateLock' \in Thread \cup {NoThread} /\ up' \in BOOLEAN
  BY DEF IInv, TypeOK, Enter, envVars
<1> QED BY <1>1, <1>2, <1>3, AddingKeeps DEF Enter, envVars

\* So do a process death, a device lock and its end.
LEMMA EnvironmentKeeps ==
  ASSUME IInv, Crash \/ Outage \/ Recover PROVE IInv'
<1>1. CASE Crash
  <2>1. TypeOK'
    <3>1. strays' \subseteq Addr
      BY <1>1, NoCallIsNoCall DEF IInv, TypeOK, PcOK, Crash
    <3>2. /\ accountsByAddress' \in [Addr -> 0 .. MaxGen]
          /\ keysByAddress' \in [Addr -> Password \cup {NoKey}]
          /\ pc' \in [Thread -> {"idle", "mutex", "read", "check", "commit", "rename"}]
          /\ op' \in [Thread -> Call \cup {NoCall}]
      BY <1>1 DEF Crash
    <3>3. /\ pendingAccountURLs' \subseteq Url /\ loadedAccountURLs' \subseteq Url
          /\ directoryListingPending' \in BOOLEAN /\ backupExclusionPending' \in BOOLEAN
          /\ up' \in BOOLEAN /\ mutationLock' = NoThread /\ stateLock' = NoThread
      BY <1>1 DEF Crash
    <3>4. /\ UNCHANGED <<disk, names, dirExcluded, storageOK, calls, outages>>
          /\ crashes' = crashes + 1
      BY <1>1 DEF Crash
    <3> QED BY <3>1, <3>2, <3>3, <3>4 DEF IInv, TypeOK
  <2>2. NamesOK'
    BY <1>1 DEF IInv, NamesOK, Crash
  <2>3. PcOK' /\ CreateOK' /\ AccountBacked' /\ DecisionStillValid'
    BY <1>1 DEF Crash, PcOK, CreateOK, AccountBacked, DecisionStillValid
  <2> QED BY <2>1, <2>2, <2>3 DEF IInv
<1>2. CASE Outage \/ Recover
  <2>1. /\ UNCHANGED <<diskVars, cacheVars, backupExclusionPending, lockVars, pc, op, up,
                        calls, crashes>>
        /\ storageOK' \in BOOLEAN /\ outages' \in Nat
    <3>1. CASE Outage
      <4>1. /\ UNCHANGED <<diskVars, cacheVars, backupExclusionPending, lockVars, pc, op, up,
                            calls, crashes>>
            /\ storageOK' \in BOOLEAN /\ outages' = outages + 1
        BY <3>1 DEF Outage
      <4>2. outages \in Nat
        BY DEF IInv, TypeOK
      <4> QED BY <4>1, <4>2
    <3>2. CASE Recover
      BY <3>2 DEF IInv, TypeOK, Recover
    <3> QED BY <1>2, <3>1, <3>2
  <2>2. TypeOK'
    BY <2>1 DEF IInv, TypeOK, diskVars, cacheVars, lockVars
  <2>3. PcOK' /\ NamesOK' /\ CreateOK' /\ AccountBacked' /\ DecisionStillValid'
    BY <2>1 DEF IInv, PcOK, NamesOK, CreateOK, AccountBacked, DecisionStillValid,
                hasUnreadableAccounts, diskVars, cacheVars, lockVars
  <2> QED BY <2>2, <2>3 DEF IInv
<1> QED BY <1>1, <1>2

-----------------------------------------------------------------------------
\* The steps that touch neither the directory nor the dictionaries.
LEMMA BeginKeeps == ASSUME IInv, NEW t \in Thread, Begin(t) PROVE IInv'
<1>1. PICK c \in Call : Callable(c) /\ op' = [op EXCEPT ![t] = c]
  BY DEF Begin
<1>2. /\ op[t] = NoCall /\ op'[t] = c /\ pc'[t] = "mutex"
      /\ \A s \in Thread \ {t} : op'[s] = op[s] /\ pc'[s] = pc[s]
  BY <1>1 DEF IInv, PcOK, TypeOK, Begin
<1>3. TypeOK'
  BY <1>1 DEF IInv, TypeOK, Begin, diskVars, cacheVars, lockVars
<1>4. PcOK'
  BY <1>2 DEF IInv, PcOK, Begin, hasUnreadableAccounts, diskVars, cacheVars, lockVars
<1>5. CreateOK'
  <2>1. ASSUME NEW s \in Thread \ {t}, op[s] # NoCall, op[s].kind = "create"
        PROVE  c.addr # op[s].addr
    BY <1>1, <2>1 DEF Callable, InFlight
  <2>2. ASSUME c.kind = "create"
        PROVE  /\ \A s \in Thread \ {t} : op[s] # NoCall => op[s].addr # c.addr
               /\ names[c.addr] = 0
    <3>1. names[c.addr] = 0 /\ ~InFlight(c.addr, Kind)
      BY <1>1, <2>2 DEF Callable
    <3>2. \A s \in Thread : op[s] # NoCall => op[s].kind \in Kind
      BY NoCallIsNoCall DEF IInv, TypeOK
    <3> QED BY <3>1, <3>2 DEF InFlight
  <2>3. ASSUME c.kind = "create"
        PROVE  accountsByAddress[c.addr] = 0 /\ \A g \in Gen : disk[<<c.addr, g>>] = NoKey
    <3>1. c.addr \in Addr
      BY NoCallIsNoCall
    <3>2. \A g \in Gen : disk[<<c.addr, g>>] = NoKey
      BY <2>2, <2>3, <3>1 DEF IInv, NamesOK
    <3>3. accountsByAddress[c.addr] \in 0 .. MaxGen
      BY <3>1 DEF IInv, TypeOK
    <3>4. accountsByAddress[c.addr] # 0 => disk[<<c.addr, accountsByAddress[c.addr]>>] \in Password
      BY <3>1 DEF IInv, AccountBacked
    <3> QED BY <3>2, <3>3, <3>4
  <2> QED BY <1>2, <2>1, <2>2, <2>3 DEF IInv, CreateOK, Begin, diskVars, cacheVars
<1>6. NamesOK' /\ AccountBacked'
  BY DEF IInv, NamesOK, AccountBacked, Begin, diskVars, cacheVars
<1>7. DecisionStillValid'
  BY <1>2 DEF IInv, DecisionStillValid, Begin, hasUnreadableAccounts, diskVars, cacheVars
<1> QED BY <1>3, <1>4, <1>5, <1>6, <1>7 DEF IInv

\* So does the start of a read.
LEMMA BeginReadKeeps == ASSUME IInv, NEW t \in Thread, BeginRead(t) PROVE IInv'
<1>1. TypeOK'
  BY DEF IInv, TypeOK, BeginRead, diskVars, cacheVars, lockVars, envVars
<1>2. PcOK'
  BY DEF IInv, PcOK, TypeOK, BeginRead, hasUnreadableAccounts, diskVars, cacheVars, lockVars, envVars
<1>3. NamesOK' /\ CreateOK' /\ AccountBacked'
  BY DEF IInv, NamesOK, CreateOK, AccountBacked, BeginRead, diskVars, cacheVars
<1>4. DecisionStillValid'
  BY DEF IInv, TypeOK, DecisionStillValid, BeginRead, hasUnreadableAccounts, diskVars, cacheVars
<1> QED BY <1>1, <1>2, <1>3, <1>4 DEF IInv

\* So does taking mutationLock: nobody else was in a mutation.
LEMMA LockKeeps == ASSUME IInv, NEW t \in Thread, Lock(t) PROVE IInv'
<1>1. TypeOK'
  BY DEF IInv, TypeOK, Lock, diskVars, cacheVars, lockVars, envVars
<1>2. /\ mutationLock = NoThread /\ mutationLock' = t
      /\ pc'[t] = IF op[t].kind \in {"import", "update", "delete"} THEN "check" ELSE "commit"
      /\ \A s \in Thread \ {t} : pc'[s] = pc[s] /\ pc[s] \notin {"check", "commit", "rename"}
  BY DEF IInv, PcOK, TypeOK, Lock, MutexFree
<1>3. PcOK'
  BY <1>2 DEF IInv, PcOK, Lock, hasUnreadableAccounts, diskVars, cacheVars, envVars
<1>4. NamesOK' /\ CreateOK' /\ AccountBacked'
  BY DEF IInv, NamesOK, CreateOK, AccountBacked, Lock, diskVars, cacheVars
<1>5. DecisionStillValid'
  BY <1>2 DEF DecisionStillValid, Lock
<1> QED BY <1>1, <1>3, <1>4, <1>5 DEF IInv

-----------------------------------------------------------------------------
\* A call that ends leaves nobody else between its sections.
LEMMA FinishFacts ==
  ASSUME TypeOK, PcOK, NEW t \in Thread, Finish(t), stateLock = t
  PROVE  /\ op' \in [Thread -> Call \cup {NoCall}]
         /\ pc' \in [Thread -> {"idle", "mutex", "read", "check", "commit", "rename"}]
         /\ mutationLock' \in Thread \cup {NoThread} /\ stateLock' = NoThread
         /\ op'[t] = NoCall /\ pc'[t] = "idle"
         /\ \A s \in Thread \ {t} :
              /\ op'[s] = op[s] /\ pc'[s] = pc[s] /\ pc[s] # "rename"
              /\ mutationLock = s => mutationLock' = s
         /\ UNCHANGED envVars
<1>1. op' = [op EXCEPT ![t] = NoCall] /\ pc' = [pc EXCEPT ![t] = "idle"]
  BY DEF Finish
<1>2. /\ mutationLock' = IF mutationLock = t THEN NoThread ELSE mutationLock
      /\ stateLock' = NoThread /\ UNCHANGED envVars
  BY DEF Finish, MutexAfter
<1>3. \A s \in Thread \ {t} : pc[s] # "rename"
  BY DEF PcOK
<1> QED BY <1>1, <1>2, <1>3 DEF TypeOK

\* Leaving a section and forgetting the call keeps what the others rely on.
LEMMA FinishKeeps ==
  ASSUME IInv, NEW t \in Thread, Finish(t), stateLock = t
  PROVE  /\ op' \in [Thread -> Call \cup {NoCall}]
         /\ (UNCHANGED names => PcOK')
<1>1. op' \in [Thread -> Call \cup {NoCall}]
  BY FinishFacts DEF IInv
<1>2. ASSUME UNCHANGED names PROVE PcOK'
  BY <1>2, FinishFacts DEF IInv, PcOK, envVars
<1> QED BY <1>1, <1>2

\* A call that ends in a section without touching files or caches keeps the invariant.
LEMMA FailureKeeps ==
  ASSUME IInv, NEW t \in Thread, Finish(t), stateLock = t,
         UNCHANGED <<disk, names, cacheVars>>, strays' \subseteq Addr,
         dirExcluded' \in BOOLEAN, backupExclusionPending' \in BOOLEAN
  PROVE  IInv'
<1>1. Finish(t) /\ UNCHANGED <<disk, names, cacheVars>>
  OBVIOUS
<1>2. TypeOK'
  BY <1>1, FinishFacts DEF IInv, TypeOK, cacheVars, envVars
<1>3. PcOK'
  BY <1>1, FinishKeeps
<1>4. NamesOK' /\ AccountBacked'
  BY <1>1 DEF IInv, NamesOK, AccountBacked, cacheVars
<1>5. CreateOK'
  BY <1>1, FinishFacts DEF IInv, CreateOK, cacheVars
<1>6. DecisionStillValid'
  BY <1>1, FinishFacts DEF IInv, DecisionStillValid, cacheVars
<1> QED BY <1>2, <1>3, <1>4, <1>5, <1>6 DEF IInv

\* So does a throw, whichever section it leaves.
LEMMA ThrowKeeps ==
  ASSUME IInv, NEW t \in Thread, Throw(t), stateLock = t,
         dirExcluded' \in BOOLEAN, backupExclusionPending' \in BOOLEAN
  PROVE  IInv'
BY FailureKeeps DEF Throw, IInv, TypeOK

\* So does the end of a read.
LEMMA EndReadKeeps == ASSUME IInv, NEW t \in Thread, EndRead(t) PROVE IInv'
BY ThrowKeeps DEF EndRead, IInv, TypeOK

\* The first section: the decision it makes is true when it makes it.
LEMMA CheckKeeps == ASSUME IInv, NEW t \in Thread, Check(t) PROVE IInv'
<1>1. CASE Throw(t)
  BY <1>1, ThrowKeeps DEF Check, IInv, TypeOK
<1>2. CASE /\ CheckPasses(op[t])
           /\ op' = IF op[t].kind = "delete"
                    THEN [op EXCEPT ![t].gen = accountsByAddress[op[t].addr]]
                    ELSE op
           /\ pc' = [pc EXCEPT ![t] = "commit"]
           /\ stateLock' = NoThread
           /\ UNCHANGED <<disk, names, strays, cacheVars, mutationLock, envVars>>
  <2> DEFINE c == op[t]
  <2>1. /\ c \in Call /\ c.addr \in Addr /\ c.kind \in {"import", "update", "delete"}
        /\ mutationLock = t /\ stateLock = t /\ pc[t] = "check" /\ up
    <3>1. pc[t] = "check" /\ stateLock = t
      BY DEF Check
    <3>2. c \in Call /\ mutationLock = t /\ c.kind \in {"import", "update", "delete"} /\ up
      BY <3>1 DEF IInv, PcOK
    <3> QED BY <3>1, <3>2, NoCallIsNoCall
  <2>2. /\ op'[t] \in Call /\ op'[t].kind = c.kind /\ op'[t].addr = c.addr
        /\ op'[t].pw = c.pw
        /\ c.kind = "delete" => op'[t].gen = accountsByAddress[c.addr]
        /\ \A s \in Thread \ {t} : op'[s] = op[s]
        /\ op' \in [Thread -> Call \cup {NoCall}]
    <3>1. CASE c.kind = "delete"
      <4>1. accountsByAddress[c.addr] \in 0 .. MaxGen
        BY <2>1 DEF IInv, TypeOK
      <4>2. op' = [op EXCEPT ![t] = [c EXCEPT !.gen = accountsByAddress[c.addr]]]
        BY <1>2, <3>1
      <4>3. [c EXCEPT !.gen = accountsByAddress[c.addr]] \in Call
        BY <2>1, <4>1 DEF Call
      <4>4. op'[t] = [c EXCEPT !.gen = accountsByAddress[c.addr]]
        BY <4>2 DEF IInv, TypeOK
      <4> QED BY <2>1, <4>2, <4>3, <4>4 DEF IInv, TypeOK, Call
    <3>2. CASE c.kind # "delete"
      BY <1>2, <2>1, <3>2 DEF IInv, TypeOK
    <3> QED BY <3>1, <3>2
  <2>3. /\ pc'[t] = "commit"
        /\ \A s \in Thread \ {t} :
             pc'[s] = pc[s] /\ pc[s] \notin {"check", "commit", "rename"}
    BY <1>2, <2>1 DEF IInv, TypeOK, PcOK
  <2>4. /\ c.kind \in {"update", "delete"} => keysByAddress[c.addr] = c.pw
        /\ c.kind = "delete" => accountsByAddress[c.addr] # 0
    <3>1. CASE c.kind = "update"
      BY <1>2, <3>1, Zenon DEF CheckPasses
    <3>2. CASE c.kind = "delete"
      BY <1>2, <3>2 DEF CheckPasses
    <3>3. CASE c.kind = "import"
      BY <3>3
    <3> QED BY <2>1, <3>1, <3>2, <3>3
  <2>5. TypeOK'
    <3>1. pc' \in [Thread -> {"idle", "mutex", "read", "check", "commit", "rename"}]
      BY <1>2 DEF IInv, TypeOK
    <3>2. UNCHANGED <<dirExcluded, backupExclusionPending>>
      BY DEF Check
    <3> QED BY <1>2, <2>2, <3>1, <3>2 DEF IInv, TypeOK, cacheVars, envVars
  <2>6. PcOK'
    BY <1>2, <2>1, <2>2, <2>3, <2>4 DEF IInv, PcOK, envVars
  <2>7. NamesOK' /\ AccountBacked'
    BY <1>2 DEF IInv, NamesOK, AccountBacked, cacheVars
  <2>8. CreateOK'
    <3>1. op[t] # NoCall /\ op'[t] # NoCall
      BY <2>1, <2>2, NoCallIsNoCall
    <3> QED BY <1>2, <2>1, <2>2, <3>1 DEF IInv, CreateOK, cacheVars
  <2>9. DecisionStillValid'
    BY <1>2, <2>2, <2>3, <2>4 DEF DecisionStillValid, cacheVars
  <2> QED BY <2>5, <2>6, <2>7, <2>8, <2>9 DEF IInv
<1> QED BY <1>1, <1>2 DEF Check

-----------------------------------------------------------------------------
\* The commits.
LEMMA CommitAddKeyKeeps == ASSUME IInv, NEW t \in Thread, CommitAddKey(t) PROVE IInv'
<1> DEFINE c == op[t]
<1>1. /\ c.addr \in Addr /\ c.new \in Password /\ mutationLock = t /\ stateLock = t
      /\ Finish(t)
  BY NoCallIsNoCall DEF IInv, PcOK, CommitAddKey
<1>2. /\ keysByAddress' \in [Addr -> Password \cup {NoKey}]
      /\ \A a \in Addr : keysByAddress[a] # NoKey => keysByAddress'[a] # NoKey
  BY <1>1 DEF IInv, TypeOK, CommitAddKey
<1>3. UNCHANGED <<disk, names, strays, dirExcluded, accountsByAddress, pendingAccountURLs,
                  loadedAccountURLs, directoryListingPending, backupExclusionPending>>
  BY DEF CommitAddKey, diskVars
<1>4. TypeOK'
  BY <1>1, <1>2, <1>3, FinishFacts DEF IInv, TypeOK, envVars
<1>5. PcOK'
  BY <1>1, <1>3, FinishKeeps
<1>6. NamesOK' /\ AccountBacked'
  BY <1>2, <1>3 DEF IInv, NamesOK, AccountBacked
<1>7. CreateOK'
  BY <1>1, <1>3, FinishFacts DEF IInv, CreateOK
<1>8. DecisionStillValid'
  <2>1. \A s \in Thread : pc'[s] \notin {"commit", "rename"}
    BY <1>1, FinishFacts DEF IInv, PcOK
  <2> QED BY <2>1 DEF DecisionStillValid
<1> QED BY <1>4, <1>5, <1>6, <1>7, <1>8 DEF IInv

\* delete removes the file and both entries at once.
LEMMA CommitDeleteKeeps == ASSUME IInv, NEW t \in Thread, CommitDelete(t) PROVE IInv'
<1> DEFINE c == op[t]
           a == c.addr
           file == <<a, c.gen>>
<1>1. /\ c \in Call /\ a \in Addr /\ c.gen \in Gen /\ mutationLock = t /\ stateLock = t
      /\ pc[t] = "commit" /\ c.kind = "delete"
  BY NoCallIsNoCall DEF IInv, PcOK, CommitDelete
<1>2. CASE Throw(t)
  BY <1>1, <1>2, ThrowKeeps DEF CommitDelete, IInv, TypeOK
<1>3. CASE /\ disk' = [disk EXCEPT ![file] = NoKey]
           /\ keysByAddress' = [keysByAddress EXCEPT ![a] = NoKey]
           /\ accountsByAddress' = [accountsByAddress EXCEPT ![a] = 0]
           /\ Finish(t)
           /\ UNCHANGED <<names, strays, pendingAccountURLs, loadedAccountURLs,
                          directoryListingPending>>
  <2>1. UNCHANGED <<dirExcluded, backupExclusionPending>>
    BY DEF CommitDelete
  <2>2. /\ disk' \in [Url -> FileBody]
        /\ keysByAddress' \in [Addr -> Password \cup {NoKey}]
        /\ accountsByAddress' \in [Addr -> 0 .. MaxGen]
    <3>1. disk' \in [Url -> FileBody]
      BY <1>3 DEF IInv, TypeOK
    <3>2. keysByAddress' \in [Addr -> Password \cup {NoKey}]
      BY <1>3 DEF IInv, TypeOK
    <3>3. accountsByAddress' \in [Addr -> 0 .. MaxGen]
      <4>1. accountsByAddress \in [Addr -> 0 .. MaxGen] /\ 0 \in 0 .. MaxGen
        BY DEF IInv, TypeOK
      <4> QED BY <1>3, <4>1
    <3> QED BY <3>1, <3>2, <3>3
  <2>3. \A u \in Url : disk'[u] = IF u = file THEN NoKey ELSE disk[u]
    BY <1>3 DEF IInv, TypeOK
  <2>4. /\ accountsByAddress'[a] = 0
        /\ \A b \in Addr \ {a} : /\ accountsByAddress'[b] = accountsByAddress[b]
                               /\ keysByAddress'[b] = keysByAddress[b]
    BY <1>3, <1>1 DEF IInv, TypeOK
  <2>5. TypeOK'
    BY <1>1, <1>3, <2>1, <2>2, FinishFacts DEF IInv, TypeOK, envVars
  <2>6. PcOK'
    BY <1>1, <1>3, FinishKeeps
  <2>7. NamesOK'
    <3> SUFFICES ASSUME NEW b \in Addr, NEW g \in Gen, disk'[<<b, g>>] # NoKey
                 PROVE  g <= names[b]
      BY <1>3 DEF NamesOK
    <3>1. disk[<<b, g>>] # NoKey
      BY <2>3
    <3> QED BY <3>1 DEF IInv, NamesOK
  <2>8. AccountBacked'
    <3> SUFFICES ASSUME NEW b \in Addr, accountsByAddress'[b] # 0
                 PROVE  /\ disk'[<<b, accountsByAddress'[b]>>] \in Password
                        /\ keysByAddress'[b] # NoKey
      BY DEF AccountBacked
    <3>1. b # a /\ accountsByAddress'[b] = accountsByAddress[b]
          /\ keysByAddress'[b] = keysByAddress[b]
      BY <2>4
    <3>2. <<b, accountsByAddress[b]>> \in Url
      BY <3>1 DEF IInv, TypeOK
    <3> QED BY <2>3, <3>1, <3>2 DEF IInv, AccountBacked
  <2>9. CreateOK'
    <3> SUFFICES ASSUME NEW s \in Thread, op'[s] # NoCall, op'[s].kind = "create"
                 PROVE  /\ \A r \in Thread \ {s} : op'[r] # NoCall => op'[r].addr # op'[s].addr
                        /\ accountsByAddress'[op'[s].addr] = 0
                        /\ \A g \in Gen : disk'[<<op'[s].addr, g>>] = NoKey
      BY DEF CreateOK
    <3>1. s # t /\ op'[s] = op[s]
      BY <1>1, <1>3, FinishFacts DEF IInv
    <3>2. op[s].addr \in Addr
      BY <3>1, NoCallIsNoCall DEF IInv, TypeOK
    <3>3. /\ \A r \in Thread \ {s} : op'[r] # NoCall => op[r] = op'[r]
      BY <1>1, <1>3, FinishFacts DEF IInv
    <3> QED BY <2>3, <2>4, <3>1, <3>2, <3>3 DEF IInv, CreateOK
  <2>10. DecisionStillValid'
    <3>1. \A s \in Thread : pc'[s] \notin {"commit", "rename"}
      BY <1>1, <1>3, FinishFacts DEF IInv, PcOK
    <3> QED BY <3>1 DEF DecisionStillValid
  <2> QED BY <2>5, <2>6, <2>7, <2>8, <2>9, <2>10 DEF IInv
<1> QED BY <1>2, <1>3 DEF CommitDelete

\* The temporary file is written: the file name and the key are fixed from here on.
LEMMA StageKeeps == ASSUME IInv, NEW t \in Thread, Stage(t) PROVE IInv'
<1> DEFINE c == op[t]
           gen == IF c.kind \in {"create", "import"} THEN names[c.addr] + 1 ELSE c.gen
           body == IF c.kind = "addAccount" THEN keysByAddress[c.addr] ELSE c.new
<1>1. pc[t] = "commit" /\ stateLock = t /\ c.kind \in {"create", "import", "update", "addAccount"}
  BY DEF Stage
<1>2. c \in Call /\ mutationLock = t /\ up
  BY <1>1 DEF IInv, PcOK
<1>3. c.addr \in Addr /\ c.new \in Password /\ c.pw \in Password
  BY <1>2, NoCallIsNoCall
<1>4. CASE /\ Finish(t) /\ UNCHANGED <<disk, names, cacheVars>> /\ strays' \subseteq Addr
           /\ dirExcluded' \in BOOLEAN /\ backupExclusionPending' \in BOOLEAN
  BY <1>1, <1>4, FailureKeeps
<1>5. CASE /\ MaySave(c)
           /\ gen \in Gen
           /\ backupExclusionPending' = FALSE
           /\ dirExcluded' = TRUE
           /\ names' = [names EXCEPT ![c.addr] = IF gen > @ THEN gen ELSE @]
           /\ op' = [op EXCEPT ![t].gen = gen, ![t].new = body]
           /\ pc' = [pc EXCEPT ![t] = "rename"]
           /\ UNCHANGED <<disk, strays, cacheVars, lockVars, envVars>>
  <2>1. body \in Password
    BY <1>3, <1>5 DEF MaySave, IInv, TypeOK
  <2>2. /\ op'[t] = [c EXCEPT !.gen = gen, !.new = body]
        /\ \A s \in Thread \ {t} : op'[s] = op[s]
        /\ op' = [op EXCEPT ![t] = [c EXCEPT !.gen = gen, !.new = body]]
    BY <1>5 DEF IInv, TypeOK
  <2>3. gen \in 0 .. MaxGen
    BY <1>5
  <2>4. /\ op'[t] \in Call /\ op'[t].kind = c.kind /\ op'[t].addr = c.addr
        /\ op'[t].pw = c.pw /\ op'[t].gen = gen
    <3> HIDE DEF c, gen, body
    <3>1. PICK k \in Kind, a \in Addr, h \in 0 .. MaxGen, p \in Password, n \in Password :
            c = [kind |-> k, addr |-> a, gen |-> h, pw |-> p, new |-> n]
      BY <1>2 DEF Call
    <3>2. op'[t] = [kind |-> k, addr |-> a, gen |-> gen, pw |-> p, new |-> body]
      <4>1. op'[t] = [[kind |-> k, addr |-> a, gen |-> h, pw |-> p, new |-> n]
                        EXCEPT !.gen = gen, !.new = body]
        BY <2>2, <3>1, Zenon
      <4> QED BY <4>1
    <3>3. op'[t] \in Call
      BY <2>1, <2>3, <3>2 DEF Call
    <3> QED BY <3>1, <3>2, <3>3
  <2>5. op' \in [Thread -> Call \cup {NoCall}]
    BY <2>2, <2>4 DEF IInv, TypeOK
  <2>6. /\ names' \in [Addr -> 0 .. MaxGen]
        /\ \A a \in Addr : names[a] <= names'[a]
        /\ gen <= names'[c.addr]
    <3>1. names \in [Addr -> 0 .. MaxGen]
      BY DEF IInv, TypeOK
    <3> QED BY <1>3, <1>5, <2>3, <3>1
  <2>7. /\ pc' \in [Thread -> {"idle", "mutex", "read", "check", "commit", "rename"}]
        /\ pc'[t] = "rename"
        /\ \A s \in Thread \ {t} :
             pc'[s] = pc[s] /\ pc[s] \notin {"check", "commit", "rename"}
    BY <1>2, <1>5 DEF IInv, TypeOK, PcOK
  <2>8. UNCHANGED <<accountsByAddress, keysByAddress, pendingAccountURLs, loadedAccountURLs,
                    directoryListingPending, mutationLock, stateLock, up, storageOK,
                    calls, crashes, outages, disk, strays>>
    BY <1>5 DEF cacheVars, lockVars, envVars
  <2>9. TypeOK'
    BY <1>5, <2>5, <2>6, <2>7, <2>8 DEF IInv, TypeOK
  <2>10. PcOK'
    <3>1. ~hasUnreadableAccounts'
      BY <1>5, <2>8 DEF MaySave, hasUnreadableAccounts
    <3>2. gen \in 1 .. names'[c.addr]
      BY <1>3, <1>5, <2>6 DEF TypeOK
    <3>3. /\ op'[t].kind \notin {"delete", "addKey"}
          /\ op'[t].gen \in 1 .. names'[op'[t].addr]
      BY <1>1, <2>4, <3>2
    <3>4. UNCHANGED <<mutationLock, stateLock, up>>
      BY <2>8
    <3>5. ASSUME NEW s \in Thread \ {t}
          PROVE  op'[s] = op[s] /\ pc'[s] = pc[s] /\ pc[s] \notin {"check", "commit", "rename"}
      BY <2>2, <2>7
    <3>6. op'[t] \in Call /\ pc'[t] = "rename" /\ mutationLock' = t /\ stateLock' = t /\ up'
      BY <1>1, <1>2, <2>4, <2>7, <3>4
    <3> HIDE DEF c, gen, body
    <3> QED BY <3>1, <3>3, <3>4, <3>5, <3>6 DEF IInv, PcOK
  <2>11. NamesOK'
    <3> SUFFICES ASSUME NEW a \in Addr, NEW g \in Gen, disk[<<a, g>>] # NoKey
                 PROVE  g <= names'[a]
      BY <2>8 DEF NamesOK
    <3>1. g <= names[a] /\ names[a] \in Int /\ names'[a] \in Int
      BY <2>6 DEF IInv, NamesOK, TypeOK
    <3> QED BY <2>6, <3>1
  <2>12. AccountBacked'
    BY <2>8 DEF IInv, AccountBacked
  <2>13. CreateOK'
    <3>1. op[t] # NoCall /\ op'[t] # NoCall
      BY <1>2, <2>4, NoCallIsNoCall
    <3> QED BY <2>2, <2>4, <2>8, <3>1 DEF IInv, CreateOK
  <2>14. DecisionStillValid'
    <3>1. c.kind \in {"create", "import"} => accountsByAddress[c.addr] = 0
      <4>1. CASE c.kind = "import"
        BY <1>5, <4>1 DEF MaySave
      <4>2. CASE c.kind = "create"
        BY <1>2, <4>2, NoCallIsNoCall DEF IInv, CreateOK
      <4> QED BY <4>1, <4>2
    <3>2. c.kind = "update" => keysByAddress[c.addr] = c.pw
      BY <1>1 DEF IInv, DecisionStillValid
    <3>3. ~hasUnreadableAccounts'
      BY <1>5, <2>8 DEF MaySave, hasUnreadableAccounts
    <3> QED BY <1>1, <2>4, <2>7, <2>8, <3>1, <3>2, <3>3 DEF DecisionStillValid
  <2> QED BY <2>9, <2>10, <2>11, <2>12, <2>13, <2>14 DEF IInv
<1>6. \/ /\ Finish(t) /\ UNCHANGED <<disk, names, cacheVars>> /\ strays' \subseteq Addr
         /\ dirExcluded' \in BOOLEAN /\ backupExclusionPending' \in BOOLEAN
      \/ /\ MaySave(c)
         /\ gen \in Gen
         /\ backupExclusionPending' = FALSE
         /\ dirExcluded' = TRUE
         /\ names' = [names EXCEPT ![c.addr] = IF gen > @ THEN gen ELSE @]
         /\ op' = [op EXCEPT ![t].gen = gen, ![t].new = body]
         /\ pc' = [pc EXCEPT ![t] = "rename"]
         /\ UNCHANGED <<disk, strays, cacheVars, lockVars, envVars>>
  BY <1>3 DEF Stage, Throw, IInv, TypeOK
<1> QED BY <1>4, <1>5, <1>6

\* The rename and the entries that follow it keep the invariant.
LEMMA RenameKeeps == ASSUME IInv, NEW t \in Thread, Rename(t) PROVE IInv'
<1> DEFINE c == op[t]
           a == c.addr
           file == <<a, c.gen>>
<1>1. /\ pc[t] = "rename" /\ stateLock = t /\ mutationLock = t /\ c \in Call
      /\ c.gen \in 1 .. names[a] /\ Finish(t)
      /\ UNCHANGED <<dirExcluded, backupExclusionPending>>
  BY DEF IInv, PcOK, Rename
<1>2. a \in Addr /\ c.new \in Password /\ c.gen \in 0 .. MaxGen
  BY <1>1, NoCallIsNoCall
<1>3. names[a] \in 0 .. MaxGen
  BY <1>2 DEF IInv, TypeOK
<1>4. c.gen \in Gen /\ c.gen # 0 /\ c.gen <= names[a] /\ file \in Url
  BY <1>1, <1>2, <1>3
<1>5. op' \in [Thread -> Call \cup {NoCall}]
  BY <1>1, FinishKeeps
<1>6. \A s \in Thread : pc'[s] \notin {"commit", "rename"}
  BY <1>1, FinishFacts DEF IInv, PcOK
<1>7. DecisionStillValid'
  BY <1>6 DEF DecisionStillValid
<1>8. CASE /\ strays' \in {strays, strays \cup {a}}
           /\ UNCHANGED <<disk, names, cacheVars>>
  <2>1. TypeOK'
    BY <1>1, <1>2, <1>8, FinishFacts DEF IInv, TypeOK, cacheVars, envVars
  <2>2. PcOK'
    BY <1>1, <1>8, FinishKeeps
  <2>3. NamesOK' /\ AccountBacked'
    BY <1>8 DEF IInv, NamesOK, AccountBacked, cacheVars
  <2>4. CreateOK'
    BY <1>1, <1>8, FinishFacts DEF IInv, CreateOK, cacheVars
  <2> QED BY <1>7, <2>1, <2>2, <2>3, <2>4 DEF IInv
<1>9. CASE /\ disk' = [disk EXCEPT ![file] = c.new]
           /\ keysByAddress' = [keysByAddress EXCEPT ![a] = c.new]
           /\ accountsByAddress' =
                [accountsByAddress EXCEPT ![a] = IF c.kind = "update" THEN @ ELSE c.gen]
           /\ UNCHANGED <<names, strays, pendingAccountURLs, loadedAccountURLs,
                          directoryListingPending>>
  <2>1. /\ disk' \in [Url -> FileBody]
        /\ \A u \in Url : disk'[u] = IF u = file THEN c.new ELSE disk[u]
    BY <1>2, <1>4, <1>9 DEF IInv, TypeOK
  <2>2. /\ keysByAddress' \in [Addr -> Password \cup {NoKey}]
        /\ keysByAddress'[a] = c.new
        /\ \A b \in Addr \ {a} : keysByAddress'[b] = keysByAddress[b]
    BY <1>2, <1>9 DEF IInv, TypeOK
  <2>3. accountsByAddress \in [Addr -> 0 .. MaxGen]
    BY DEF IInv, TypeOK
  <2>4. /\ accountsByAddress' \in [Addr -> 0 .. MaxGen]
        /\ accountsByAddress'[a] \in {accountsByAddress[a], c.gen}
        /\ \A b \in Addr \ {a} : accountsByAddress'[b] = accountsByAddress[b]
    BY <1>2, <1>9, <2>3
  <2>5. TypeOK'
    BY <1>1, <1>9, <2>1, <2>2, <2>4, FinishFacts DEF IInv, TypeOK, envVars
  <2>6. PcOK'
    BY <1>1, <1>9, FinishKeeps
  <2>7. NamesOK'
    <3> SUFFICES ASSUME NEW b \in Addr, NEW g \in Gen, disk'[<<b, g>>] # NoKey
                 PROVE  g <= names[b]
      BY <1>9 DEF NamesOK
    <3>1. CASE <<b, g>> = file
      BY <1>4, <3>1
    <3>2. CASE <<b, g>> # file
      BY <2>1, <3>2 DEF IInv, NamesOK
    <3> QED BY <3>1, <3>2
  <2>8. AccountBacked'
    <3> SUFFICES ASSUME NEW b \in Addr, accountsByAddress'[b] # 0
                 PROVE  /\ disk'[<<b, accountsByAddress'[b]>>] \in Password
                        /\ keysByAddress'[b] # NoKey
      BY DEF AccountBacked
    <3>1. accountsByAddress'[b] \in 0 .. MaxGen
      BY <2>4
    <3>2. <<b, accountsByAddress'[b]>> \in Url
      BY <3>1
    <3>3. CASE b # a
      <4>1. <<b, accountsByAddress[b]>> # file
        BY <3>3
      <4> QED BY <2>1, <2>2, <2>4, <3>2, <3>3, <4>1 DEF IInv, AccountBacked
    <3>4. CASE b = a /\ accountsByAddress'[a] = c.gen
      BY <1>2, <2>1, <2>2, <3>2, <3>4
    <3>5. CASE b = a /\ accountsByAddress'[a] = accountsByAddress[a]
      BY <1>2, <2>1, <2>2, <3>2, <3>5 DEF IInv, AccountBacked
    <3> QED BY <2>4, <3>3, <3>4, <3>5
  <2>9. CreateOK'
    <3> SUFFICES ASSUME NEW s \in Thread, op'[s] # NoCall, op'[s].kind = "create"
                 PROVE  /\ \A r \in Thread \ {s} : op'[r] # NoCall => op'[r].addr # op'[s].addr
                        /\ accountsByAddress'[op'[s].addr] = 0
                        /\ \A g \in Gen : disk'[<<op'[s].addr, g>>] = NoKey
      BY DEF CreateOK
    <3>1. s # t /\ op'[s] = op[s]
      BY <1>1, FinishFacts DEF IInv
    <3>2. \A r \in Thread \ {s} : op'[r] # NoCall => op[r] = op'[r]
      BY <1>1, FinishFacts DEF IInv
    <3>3. op[s].addr \in Addr /\ op[s].addr # a
      BY <1>1, <3>1, NoCallIsNoCall DEF IInv, TypeOK, CreateOK
    <3>4. \A g \in Gen : disk'[<<op[s].addr, g>>] = disk[<<op[s].addr, g>>]
      BY <2>1, <3>3
    <3> QED BY <2>4, <3>1, <3>2, <3>3, <3>4 DEF IInv, CreateOK
  <2> QED BY <1>7, <2>5, <2>6, <2>7, <2>8, <2>9 DEF IInv
<1> QED BY <1>8, <1>9 DEF Rename

-----------------------------------------------------------------------------
\* Every step keeps the invariant.
LEMMA NextKeeps == IInv /\ [Next]_vars => IInv'
<1> SUFFICES ASSUME IInv, [Next]_vars PROVE IInv'
  OBVIOUS
<1>1. CASE UNCHANGED vars
  BY <1>1 DEF IInv, TypeOK, PcOK, NamesOK, CreateOK, AccountBacked, DecisionStillValid,
              hasUnreadableAccounts, vars, diskVars, cacheVars, lockVars, envVars
<1>2. CASE Open
  BY <1>2, OpenKeeps
<1>3. CASE Crash \/ Outage \/ Recover
  BY <1>3, EnvironmentKeeps
<1>4. ASSUME NEW t \in Thread, Begin(t) \/ BeginRead(t) \/ Progress(t) PROVE IInv'
  BY <1>4, BeginKeeps, BeginReadKeeps, LockKeeps, EnterKeeps, EndReadKeeps, CheckKeeps,
     CommitAddKeyKeeps, CommitDeleteKeeps, StageKeeps, RenameKeeps DEF Progress
<1> QED BY <1>1, <1>2, <1>3, <1>4 DEF Next

\* The invariant holds in every reachable state.
LEMMA SpecIInv == Spec => []IInv
<1>1. Init => IInv
  BY InitIInv
<1>2. IInv /\ [Next]_vars => IInv'
  BY NextKeeps
<1> QED BY <1>1, <1>2, PTL DEF Spec

\* Every variable of the store stays in its range.
THEOREM TypeCorrect == Spec => []TypeOK
<1>1. IInv => TypeOK
  BY DEF IInv
<1> QED BY <1>1, SpecIInv, PTL

\* A listed account always has its key cached and a decodable file on disk
\* (loadAccounts, save and delete keep the three in step).
THEOREM ListedAccountsOpen == Spec => []AccountBacked
<1>1. IInv => AccountBacked
  BY DEF IInv
<1> QED BY <1>1, SpecIInv, PTL

\* What update, delete and the importing calls checked before they released
\* stateLock to decrypt still holds when they commit.
THEOREM DecisionsHold == Spec => []DecisionStillValid
<1>1. IInv => DecisionStillValid
  BY DEF IInv
<1> QED BY <1>1, SpecIInv, PTL

\* No key file is written or removed while some file has not been read, also not
\* by a save that began before (the guards of save and delete).
THEOREM UnreadableBlocksWrites == Spec => NoWriteWhileUnreadable
<1>1. IInv /\ [Next]_vars => [hasUnreadableAccounts => disk' = disk]_vars
  <2> SUFFICES ASSUME IInv, Next, hasUnreadableAccounts PROVE disk' = disk
    BY DEF vars
  <2>1. CASE Open \/ Crash \/ Outage \/ Recover
    BY <2>1 DEF Open, Crash, Outage, Recover, diskVars
  <2>2. ASSUME NEW t \in Thread, Begin(t) \/ BeginRead(t) \/ Lock(t) \/ Enter(t) \/ EndRead(t)
        PROVE  disk' = disk
    BY <2>2 DEF Begin, BeginRead, Lock, Enter, EndRead, Throw, diskVars
  <2>3. ASSUME NEW t \in Thread, Check(t) \/ CommitAddKey(t) PROVE disk' = disk
    BY <2>3 DEF Check, Throw, CommitAddKey, diskVars
  <2>4. ASSUME NEW t \in Thread, CommitDelete(t) PROVE disk' = disk
    BY <2>4 DEF CommitDelete, Throw
  <2>5. ASSUME NEW t \in Thread, Stage(t) PROVE disk' = disk
    BY <2>5 DEF Stage, Throw
  <2>6. ASSUME NEW t \in Thread, Rename(t) PROVE disk' = disk
    BY <2>6 DEF Rename, IInv, PcOK
  <2> QED BY <2>1, <2>2, <2>3, <2>4, <2>5, <2>6 DEF Next, Progress
<1> QED BY <1>1, SpecIInv, PTL DEF Spec, NoWriteWhileUnreadable

-----------------------------------------------------------------------------
\* Excluding the directory, or trying to, never takes the exclusion back.
LEMMA RetryExcludes ==
  ASSUME TypeOK, ~backupExclusionPending => dirExcluded, load \/ RetryPending
  PROVE  (~backupExclusionPending' => dirExcluded') /\ (dirExcluded => dirExcluded')
BY DEF load, RetryPending, retryDirectoryBackupExclusion, TypeOK

\* Each step keeps the exclusion, and a temporary file is written only after it.
LEMMA StepKeepsExclusion == IInv /\ NoKeyInBackup /\ [Next]_vars => NoKeyInBackup'
<1> SUFFICES ASSUME IInv, NoKeyInBackup, [Next]_vars PROVE NoKeyInBackup'
  OBVIOUS
<1>0. pc \in [Thread -> {"idle", "mutex", "read", "check", "commit", "rename"}] /\ TypeOK
  BY DEF IInv, TypeOK
<1>1. CASE UNCHANGED <<pc, dirExcluded, backupExclusionPending>>
  BY <1>1 DEF NoKeyInBackup
<1>2. CASE Open
  <2>1. load /\ UNCHANGED pc
    BY <1>2 DEF Open
  <2> QED BY <1>0, <2>1, RetryExcludes DEF NoKeyInBackup
<1>3. CASE Crash
  BY <1>3 DEF Crash, NoKeyInBackup
<1>4. ASSUME NEW t \in Thread, Enter(t) PROVE NoKeyInBackup'
  <2>1. RetryPending /\ UNCHANGED pc
    BY <1>4 DEF Enter
  <2> QED BY <1>0, <2>1, RetryExcludes DEF NoKeyInBackup
<1>5. ASSUME NEW t \in Thread, NEW to \in {"idle", "mutex", "read", "check", "commit"},
             pc' = [pc EXCEPT ![t] = to], dirExcluded => dirExcluded',
             ~backupExclusionPending' => dirExcluded'
      PROVE  NoKeyInBackup'
  BY <1>0, <1>5 DEF NoKeyInBackup
<1>6. ASSUME NEW t \in Thread, Begin(t) \/ BeginRead(t) \/ Lock(t) PROVE NoKeyInBackup'
  <2>1. /\ UNCHANGED <<dirExcluded, backupExclusionPending>>
        /\ \E to \in {"mutex", "read", "check", "commit"} : pc' = [pc EXCEPT ![t] = to]
    BY <1>6 DEF Begin, BeginRead, Lock, diskVars
  <2> QED BY <1>5, <2>1 DEF NoKeyInBackup
<1>7. ASSUME NEW t \in Thread, Check(t) \/ EndRead(t) \/ CommitAddKey(t) \/ CommitDelete(t) \/ Rename(t)
      PROVE  NoKeyInBackup'
  <2>1. /\ UNCHANGED <<dirExcluded, backupExclusionPending>>
        /\ \E to \in {"idle", "commit"} : pc' = [pc EXCEPT ![t] = to]
    BY <1>7 DEF Check, EndRead, CommitAddKey, CommitDelete, Rename, Throw, Finish, diskVars
  <2> QED BY <1>5, <2>1 DEF NoKeyInBackup
<1>8. ASSUME NEW t \in Thread, Stage(t) PROVE NoKeyInBackup'
  <2>1. CASE dirExcluded' = TRUE
    BY <2>1 DEF NoKeyInBackup
  <2>2. CASE Finish(t) /\ UNCHANGED <<dirExcluded, backupExclusionPending>>
    BY <1>5, <2>2 DEF Finish, NoKeyInBackup
  <2>3. CASE /\ Finish(t) /\ backupExclusionPending' \in BOOLEAN
             /\ dirExcluded' = (dirExcluded \/ ~backupExclusionPending')
    BY <1>5, <2>3 DEF Finish
  <2> QED BY <1>8, <2>1, <2>2, <2>3 DEF Stage, Throw
<1>9. CASE Outage \/ Recover \/ UNCHANGED vars
  BY <1>1, <1>9 DEF Outage, Recover, vars, diskVars
<1> QED BY <1>2, <1>3, <1>4, <1>6, <1>7, <1>8, <1>9 DEF Next, Progress

\* Key material reaches the directory only after it was excluded from backups
\* (save, retryDirectoryBackupExclusion), through failures and process deaths.
THEOREM KeysStayOutOfBackups == Spec => []NoKeyInBackup
<1>1. Init => NoKeyInBackup
  BY DEF Init, NoKeyInBackup
<1> QED BY <1>1, StepKeepsExclusion, SpecIInv, PTL DEF Spec

\* The retries of withStateLock list an account only while mutations are refused:
\* nothing a call deleted comes back in its session (loadAccounts).
THEOREM NothingResurrects == Spec => RetryNeverResurrects
<1>1. ASSUME IInv, Next, NEW a \in Addr, up, accountsByAddress[a] = 0, accountsByAddress'[a] # 0,
             ~hasUnreadableAccounts
      PROVE  \E t \in Thread : pc[t] = "rename"
  <2>1. ~UNCHANGED accountsByAddress
    BY <1>1
  <2>2. ~Open /\ ~Crash /\ ~Outage /\ ~Recover
    BY <1>1, <2>1 DEF Open, Crash, Outage, Recover, cacheVars
  <2>3. ASSUME NEW t \in Thread, Enter(t) PROVE FALSE
    <3>1. ~directoryListingPending /\ pendingAccountURLs \subseteq loadedAccountURLs
      BY <1>1 DEF hasUnreadableAccounts
    <3>2. loadAccounts(pendingAccountURLs)
      BY <2>1, <2>3, <3>1 DEF Enter, RetryPending
    <3>3. PICK read \in SUBSET Present(pendingAccountURLs) :
            \E metaFailed \in SUBSET Keystores(read), s \in Firsts(NotYetLoaded(Keystores(read))) :
              Register(Present(pendingAccountURLs), read, metaFailed, s)
      BY <3>2 DEF loadAccounts
    <3>4. PICK metaFailed \in SUBSET Keystores(read), s \in Firsts(NotYetLoaded(Keystores(read))) :
            Register(Present(pendingAccountURLs), read, metaFailed, s)
      BY <3>3
    <3>5. NotYetLoaded(Keystores(read)) = {}
      BY <3>1 DEF NotYetLoaded, Keystores, Present
    <3>6. ~HasFirst(s, a)
      BY <3>4, <3>5 DEF Firsts, HasFirst
    <3> QED BY <1>1, <3>4, <3>6 DEF Register
  <2>4. ASSUME NEW t \in Thread, Begin(t) \/ BeginRead(t) \/ Lock(t) \/ EndRead(t) \/ Check(t)
                                 \/ CommitAddKey(t) \/ Stage(t)
        PROVE  FALSE
    BY <2>1, <2>4 DEF Begin, BeginRead, Lock, EndRead, Check, CommitAddKey, Stage, Throw, cacheVars
  <2>5. ASSUME NEW t \in Thread, CommitDelete(t) PROVE FALSE
    <3>1. accountsByAddress' = [accountsByAddress EXCEPT ![op[t].addr] = 0]
      BY <2>1, <2>5 DEF CommitDelete, Throw, cacheVars
    <3> QED BY <1>1, <3>1 DEF IInv, TypeOK
  <2>6. ASSUME NEW t \in Thread, Rename(t) PROVE pc[t] = "rename"
    BY <2>6 DEF Rename
  <2> QED BY <1>1, <2>2, <2>3, <2>4, <2>5, <2>6 DEF Next, Progress
<1>2. IInv /\ [Next]_vars =>
        [\A a \in Addr :
           (up /\ accountsByAddress[a] = 0 /\ accountsByAddress'[a] # 0) =>
             hasUnreadableAccounts \/ \E t \in Thread : pc[t] = "rename"]_vars
  BY <1>1
<1> QED BY <1>2, SpecIInv, PTL DEF Spec, RetryNeverResurrects

\* A cached key changes only when the call that holds both locks commits: neither a
\* retry nor another call replaces it in between (loadAccounts, addKey, save).
THEOREM KeysChangeAtCommits == Spec => OnlyCommitChangesKey
<1>1. ASSUME IInv, Next, NEW a \in Addr, up', keysByAddress[a] # NoKey,
             keysByAddress'[a] # keysByAddress[a]
      PROVE  \E t \in Thread : /\ mutationLock = t /\ stateLock = t
                               /\ op[t].addr = a /\ op'[t] = NoCall
  <2>0. /\ TypeOK /\ PcOK /\ op \in [Thread -> Call \cup {NoCall}]
        /\ keysByAddress \in [Addr -> Password \cup {NoKey}]
    BY <1>1 DEF IInv, TypeOK
  <2>1. ~UNCHANGED keysByAddress
    BY <1>1
  <2>2. ~Crash /\ ~Outage /\ ~Recover
    BY <1>1, <2>1 DEF Crash, Outage, Recover, cacheVars
  <2>3. ~OnlyAdds
    BY <1>1 DEF OnlyAdds
  <2>4. ~Open /\ \A t \in Thread : ~Enter(t)
    BY <2>0, <2>3, LoadOnlyAdds, RetryOnlyAdds DEF Open, Enter
  <2>5. ASSUME NEW t \in Thread, Begin(t) \/ BeginRead(t) \/ Lock(t) \/ EndRead(t) \/ Check(t)
                                 \/ Stage(t)
        PROVE  FALSE
    BY <2>1, <2>5 DEF Begin, BeginRead, Lock, EndRead, Check, Stage, Throw, cacheVars
  <2>6. ASSUME NEW t \in Thread, CommitAddKey(t) \/ CommitDelete(t) \/ Rename(t)
        PROVE  /\ mutationLock = t /\ stateLock = t
               /\ op[t].addr = a /\ op'[t] = NoCall
    <3>1. mutationLock = t /\ stateLock = t
      BY <2>0, <2>6 DEF CommitAddKey, CommitDelete, Rename, PcOK
    <3>2. op'[t] = NoCall
      BY <2>0, <2>6, <3>1 DEF CommitAddKey, CommitDelete, Rename, Throw, Finish
    <3>3. \E key : keysByAddress' = [keysByAddress EXCEPT ![op[t].addr] = key]
      BY <2>1, <2>6 DEF CommitAddKey, CommitDelete, Rename, Throw, cacheVars
    <3> QED BY <1>1, <2>0, <3>1, <3>2, <3>3
  <2> QED BY <1>1, <2>2, <2>4, <2>5, <2>6 DEF Next, Progress
<1>2. IInv /\ [Next]_vars =>
        [\A a \in Addr :
           (up' /\ keysByAddress[a] # NoKey /\ keysByAddress'[a] # keysByAddress[a]) =>
             \E t \in Thread : /\ mutationLock = t /\ stateLock = t
                              /\ op[t].addr = a /\ op'[t] = NoCall]_vars
  BY <1>1
<1> QED BY <1>2, SpecIInv, PTL DEF Spec, OnlyCommitChangesKey

-----------------------------------------------------------------------------
(***************************************************************************)
(* Hosts that do not overlap update(a) with delete(a) and do not use the   *)
(* staged calls: the caches and the directory agree, and every call is     *)
(* atomic and durable (KeyStore implements AbstractKeyStore).              *)
(*                                                                         *)
(* A file that decodes is listed, or pending, or the directory was not     *)
(* listed; a file that was loaded and still decodes is the listed one; and *)
(* the handle an update was given stays listed until it returns.           *)
(***************************************************************************)
HostCalls ==
  \A t \in Thread : op[t] # NoCall =>
    /\ op[t].kind \in {"create", "import", "update", "delete"}
    /\ op[t].kind = "update" =>
         /\ op[t].gen # 0 /\ accountsByAddress[op[t].addr] = op[t].gen
         /\ \A s \in Thread : op[s] # NoCall /\ op[s].kind = "delete" => op[s].addr # op[t].addr

CachesAgree ==
  \A a \in Addr :
    /\ keysByAddress[a] # NoKey => accountsByAddress[a] # 0
    /\ accountsByAddress[a] # 0 => keysByAddress[a] = disk[<<a, accountsByAddress[a]>>]

LoadedIsListed ==
  \A a \in Addr, g \in Gen :
    <<a, g>> \in loadedAccountURLs /\ disk[<<a, g>>] \in Password => accountsByAddress[a] = g

FilesKnown ==
  up /\ ~directoryListingPending =>
    \A a \in Addr, g \in Gen :
      disk[<<a, g>>] \in Password => accountsByAddress[a] = g \/ <<a, g>> \in pendingAccountURLs

FilesOK == OneFilePerAddress /\ CachesAgree /\ LoadedIsListed /\ FilesKnown

\* When nothing is unreadable, the listing is the directory.
LEMMA AllListed ==
  ASSUME FilesOK, up, ~hasUnreadableAccounts, NEW a \in Addr, NEW g \in Gen,
         disk[<<a, g>>] \in Password
  PROVE  accountsByAddress[a] = g
BY DEF FilesOK, LoadedIsListed, FilesKnown, hasUnreadableAccounts

\* A pass over `urls` lists every file of them it could read.
LEMMA LoadKeepsFiles ==
  ASSUME TypeOK, AccountBacked, OneFilePerAddress, CachesAgree, LoadedIsListed,
         NEW urls \in SUBSET Url, loadAccounts(urls), UNCHANGED disk
  PROVE  /\ CachesAgree' /\ LoadedIsListed'
         /\ \A a \in Addr, g \in Gen :
              disk[<<a, g>>] \in Password /\ (accountsByAddress[a] = g \/ <<a, g>> \in urls) =>
                accountsByAddress'[a] = g \/ <<a, g>> \in pendingAccountURLs'
<1>1. PICK read \in SUBSET Present(urls) :
        \E metaFailed \in SUBSET Keystores(read), s \in Firsts(NotYetLoaded(Keystores(read))) :
          Register(Present(urls), read, metaFailed, s)
  BY DEF loadAccounts
<1>2. PICK metaFailed \in SUBSET Keystores(read), s \in Firsts(NotYetLoaded(Keystores(read))) :
        Register(Present(urls), read, metaFailed, s)
  BY <1>1
<1> DEFINE fresh == NotYetLoaded(Keystores(read))
<1>3. /\ fresh \in SUBSET Url /\ s \in SUBSET fresh
      /\ \A u \in fresh : disk[u] \in Password
  BY <1>2 DEF NotYetLoaded, Present, Keystores, Decodes, Firsts
<1>4. ASSUME NEW a \in Addr, HasFirst(s, a)
      PROVE  FirstGen(s, a) \in Gen /\ disk[<<a, FirstGen(s, a)>>] \in Password
  <2>1. FirstGen(s, a) \in Gen /\ <<a, FirstGen(s, a)>> \in fresh
    BY <1>2, <1>3, <1>4, FirstGenChosen
  <2> QED BY <2>1, <1>3
<1>5. ASSUME NEW a \in Addr
      PROVE  /\ keysByAddress'[a] = KeyAfterLoad(s, a)
             /\ accountsByAddress'[a] = IF accountsByAddress[a] = 0 /\ HasFirst(s, a)
                                        THEN FirstGen(s, a) ELSE accountsByAddress[a]
  BY <1>2 DEF Register
<1>6. loadedAccountURLs' = loadedAccountURLs \cup Keystores(read)
      /\ Present(urls) \ read \subseteq pendingAccountURLs'
  BY <1>2 DEF Register, StillPending
<1>7. CachesAgree'
  <2> SUFFICES ASSUME NEW a \in Addr
               PROVE  /\ keysByAddress'[a] # NoKey => accountsByAddress'[a] # 0
                      /\ accountsByAddress'[a] # 0 =>
                           keysByAddress'[a] = disk[<<a, accountsByAddress'[a]>>]
    BY DEF CachesAgree
  <2>1. /\ keysByAddress[a] # NoKey <=> accountsByAddress[a] # 0
        /\ accountsByAddress[a] # 0 => keysByAddress[a] = disk[<<a, accountsByAddress[a]>>]
    BY DEF CachesAgree, AccountBacked
  <2>2. CASE accountsByAddress[a] = 0 /\ HasFirst(s, a)
    <3>1. keysByAddress'[a] = disk[<<a, FirstGen(s, a)>>] /\ accountsByAddress'[a] = FirstGen(s, a)
      BY <1>5, <2>1, <2>2 DEF KeyAfterLoad
    <3> QED BY <1>4, <2>2, <3>1
  <2>3. CASE accountsByAddress[a] # 0 \/ ~HasFirst(s, a)
    <3>1. keysByAddress'[a] = keysByAddress[a] /\ accountsByAddress'[a] = accountsByAddress[a]
      BY <1>5, <2>1, <2>3 DEF KeyAfterLoad
    <3> QED BY <2>1, <3>1
  <2> QED BY <2>2, <2>3
<1>8. ASSUME NEW a \in Addr, NEW g \in Gen, disk[<<a, g>>] \in Password,
             accountsByAddress[a] # 0 \/ HasFirst(s, a)
      PROVE  accountsByAddress'[a] = g
  <2>1. CASE accountsByAddress[a] # 0
    <3>1. accountsByAddress[a] \in Gen /\ disk[<<a, accountsByAddress[a]>>] \in Password
      BY <2>1 DEF AccountBacked, TypeOK
    <3> QED BY <1>5, <1>8, <2>1, <3>1 DEF OneFilePerAddress
  <2>2. CASE accountsByAddress[a] = 0 /\ HasFirst(s, a)
    BY <1>4, <1>5, <1>8, <2>2 DEF OneFilePerAddress
  <2> QED BY <1>8, <2>1, <2>2
<1>9. ASSUME NEW a \in Addr, NEW g \in Gen, disk[<<a, g>>] \in Password, <<a, g>> \in loadedAccountURLs'
      PROVE  accountsByAddress'[a] = g
  <2>1. CASE <<a, g>> \in loadedAccountURLs
    <3>1. accountsByAddress[a] = g /\ g # 0
      BY <1>9, <2>1 DEF LoadedIsListed
    <3> QED BY <1>8, <1>9, <3>1
  <2>2. CASE <<a, g>> \notin loadedAccountURLs
    <3>1. <<a, g>> \in fresh
      BY <1>6, <1>9, <2>2 DEF NotYetLoaded
    <3>2. PICK v \in s : v[1] = <<a, g>>[1]
      BY <1>2, <3>1 DEF Firsts
    <3>3. v \in Url /\ v[1] = a
      BY <1>3, <3>2
    <3>4. v = <<a, v[2]>> /\ v[2] \in Gen
      BY <3>3
    <3>5. HasFirst(s, a)
      BY <3>2, <3>4 DEF HasFirst
    <3> QED BY <1>8, <1>9, <3>5
  <2> QED BY <2>1, <2>2
<1>10. ASSUME NEW a \in Addr, NEW g \in Gen, disk[<<a, g>>] \in Password,
              accountsByAddress[a] = g \/ <<a, g>> \in urls
       PROVE  accountsByAddress'[a] = g \/ <<a, g>> \in pendingAccountURLs'
  <2>1. CASE accountsByAddress[a] = g
    BY <1>5, <2>1
  <2>2. CASE <<a, g>> \in urls
    <3>1. <<a, g>> \in Present(urls)
      BY <1>10, <2>2 DEF Present
    <3>2. CASE <<a, g>> \in read
      <4>1. <<a, g>> \in Keystores(read)
        BY <1>10, <3>2 DEF Keystores, Decodes
      <4> QED BY <1>6, <1>9, <1>10, <4>1
    <3>3. CASE <<a, g>> \notin read
      BY <1>6, <3>1, <3>3
    <3> QED BY <3>2, <3>3
  <2> QED BY <1>10, <2>1, <2>2
<1> QED BY <1>7, <1>9, <1>10 DEF LoadedIsListed

\* Listing the directory, or retrying what is pending, keeps the files known.
LEMMA RetryKeepsFiles ==
  ASSUME TypeOK, AccountBacked, FilesOK, UNCHANGED disk,
         load \/ (RetryPending /\ up)
  PROVE  FilesOK'
<1>1. OneFilePerAddress' /\ OneFilePerAddress /\ CachesAgree /\ LoadedIsListed
  BY DEF FilesOK, OneFilePerAddress
<1>2. CASE directoryListingPending' = FALSE /\ loadAccounts(Url)
  <2>1. CachesAgree' /\ LoadedIsListed' /\ FilesKnown'
    BY <1>1, <1>2, LoadKeepsFiles DEF FilesKnown
  <2> QED BY <1>1, <2>1 DEF FilesOK
<1>3. CASE /\ directoryListingPending' = TRUE
           /\ UNCHANGED <<accountsByAddress, keysByAddress,
                          pendingAccountURLs, loadedAccountURLs>>
  BY <1>1, <1>3 DEF FilesOK, CachesAgree, LoadedIsListed, FilesKnown
<1>4. CASE ~directoryListingPending /\ UNCHANGED directoryListingPending /\ up
           /\ loadAccounts(pendingAccountURLs)
  <2>1. pendingAccountURLs \in SUBSET Url
    BY DEF TypeOK
  <2>2. CachesAgree' /\ LoadedIsListed' /\ FilesKnown'
    BY <1>1, <1>4, <2>1, LoadKeepsFiles DEF FilesKnown, FilesOK
  <2> QED BY <1>1, <2>2 DEF FilesOK
<1>5. CASE ~directoryListingPending /\ UNCHANGED directoryListingPending /\ up
           /\ UNCHANGED <<accountsByAddress, keysByAddress,
                          pendingAccountURLs, loadedAccountURLs>>
  BY <1>1, <1>5 DEF FilesOK, CachesAgree, LoadedIsListed, FilesKnown
<1> QED BY <1>2, <1>3, <1>4, <1>5 DEF load, RetryPending

\* What the cached state says is left alone.
LEMMA QuietKeepsFiles ==
  ASSUME FilesOK, UNCHANGED <<disk, cacheVars>>, UNCHANGED up
  PROVE  FilesOK'
BY DEF FilesOK, OneFilePerAddress, CachesAgree, LoadedIsListed, FilesKnown, cacheVars

\* A removal takes the only file of the address, and the listing with it.
LEMMA RemovalKeepsFiles ==
  ASSUME IInv, FilesOK, NEW t \in Thread, CommitDelete(t), ~UNCHANGED disk
  PROVE  FilesOK'
<1> DEFINE a == op[t].addr
           gen == op[t].gen
<1>1. /\ op[t] \in Call /\ accountsByAddress[a] = gen /\ gen # 0 /\ up
      /\ a \in Addr /\ gen \in Gen
  BY NoCallIsNoCall DEF IInv, TypeOK, PcOK, CommitDelete, DecisionStillValid
<1>2. /\ ~hasUnreadableAccounts
      /\ disk' = [disk EXCEPT ![<<a, gen>>] = NoKey]
      /\ keysByAddress' = [keysByAddress EXCEPT ![a] = NoKey]
      /\ accountsByAddress' = [accountsByAddress EXCEPT ![a] = 0]
      /\ UNCHANGED <<pendingAccountURLs, loadedAccountURLs, directoryListingPending, up>>
  BY DEF CommitDelete, Throw, Finish, envVars
<1> HIDE DEF a, gen
<1>3. /\ disk \in [Url -> FileBody] /\ keysByAddress \in [Addr -> Password \cup {NoKey}]
      /\ accountsByAddress \in [Addr -> 0 .. MaxGen]
  BY DEF IInv, TypeOK
<1>4. \A b \in Addr, g \in Gen :
        disk'[<<b, g>>] = IF b = a /\ g = gen THEN NoKey ELSE disk[<<b, g>>]
  BY <1>1, <1>2, <1>3
<1>5. ASSUME NEW b \in Addr, NEW g \in Gen, disk'[<<b, g>>] \in Password
      PROVE  b # a /\ disk[<<b, g>>] = disk'[<<b, g>>] /\ accountsByAddress'[b] = accountsByAddress[b]
  <2>1. disk[<<b, g>>] = disk'[<<b, g>>] /\ (b = a => g # gen)
    BY <1>4, <1>5
  <2>2. accountsByAddress[b] = g
    BY <1>1, <1>2, <1>5, <2>1, AllListed
  <2>3. b # a
    BY <1>1, <2>1, <2>2
  <2> QED BY <1>1, <1>2, <1>3, <2>1, <2>3
<1>6. OneFilePerAddress'
  BY <1>5 DEF FilesOK, OneFilePerAddress
<1>7. LoadedIsListed'
  BY <1>2, <1>5 DEF FilesOK, LoadedIsListed
<1>8. FilesKnown'
  BY <1>2, <1>5 DEF FilesOK, FilesKnown
<1>9. CachesAgree'
  <2> SUFFICES ASSUME NEW b \in Addr
               PROVE  /\ keysByAddress'[b] # NoKey => accountsByAddress'[b] # 0
                      /\ accountsByAddress'[b] # 0 =>
                           keysByAddress'[b] = disk'[<<b, accountsByAddress'[b]>>]
    BY DEF CachesAgree
  <2>1. CASE b = a
    BY <1>1, <1>2, <1>3, <2>1
  <2>2. CASE b # a
    <3>1. /\ keysByAddress'[b] = keysByAddress[b] /\ accountsByAddress'[b] = accountsByAddress[b]
          /\ keysByAddress[b] # NoKey => accountsByAddress[b] # 0
          /\ accountsByAddress[b] # 0 => keysByAddress[b] = disk[<<b, accountsByAddress[b]>>]
      BY <1>1, <1>2, <1>3, <2>2 DEF FilesOK, CachesAgree
    <3>2. accountsByAddress[b] # 0 => accountsByAddress[b] \in Gen
      BY <1>3
    <3> QED BY <1>4, <2>2, <3>1, <3>2
  <2> QED BY <2>1, <2>2
<1> QED BY <1>6, <1>7, <1>8, <1>9 DEF FilesOK

\* A save that creates finds no file of its address; an update replaces the listed one.
LEMMA SaveKeepsFiles ==
  ASSUME IInv, FilesOK, HostCalls, NEW t \in Thread, Rename(t), ~UNCHANGED <<disk, cacheVars>>
  PROVE  FilesOK'
<1> DEFINE a == op[t].addr
           gen == op[t].gen
           new == op[t].new
<1>1. /\ op[t] \in Call /\ op[t] # NoCall /\ up /\ ~hasUnreadableAccounts
      /\ a \in Addr /\ gen \in Gen /\ new \in Password
      /\ op[t].kind \in {"create", "import", "update"}
  <2>1. /\ op[t] \in Call /\ up /\ ~hasUnreadableAccounts /\ gen \in 1 .. names[a]
        /\ op[t].kind \notin {"delete", "addKey"}
    BY DEF IInv, PcOK, Rename
  <2>2. a \in Addr /\ gen \in 0 .. MaxGen /\ new \in Password /\ op[t] # NoCall
    BY <2>1, NoCallIsNoCall
  <2> QED BY <2>1, <2>2 DEF HostCalls, IInv, TypeOK
<1>2. accountsByAddress[a] \in {0, gen} /\ (op[t].kind = "update" => accountsByAddress[a] = gen)
  BY <1>1 DEF HostCalls, IInv, DecisionStillValid, Rename
<1>3. /\ disk' = [disk EXCEPT ![<<a, gen>>] = new]
      /\ keysByAddress' = [keysByAddress EXCEPT ![a] = new]
      /\ accountsByAddress' = [accountsByAddress EXCEPT ![a] = gen]
      /\ UNCHANGED <<pendingAccountURLs, loadedAccountURLs, directoryListingPending, up>>
  <2>1. /\ disk' = [disk EXCEPT ![<<a, gen>>] = new]
        /\ keysByAddress' = [keysByAddress EXCEPT ![a] = new]
        /\ accountsByAddress' = [accountsByAddress EXCEPT ![a] =
             IF op[t].kind = "update" THEN accountsByAddress[a] ELSE gen]
        /\ UNCHANGED <<pendingAccountURLs, loadedAccountURLs, directoryListingPending, up>>
    BY DEF Rename, Finish, envVars
  <2> QED BY <1>2, <2>1
<1> HIDE DEF a, gen, new
<1>4. /\ disk \in [Url -> FileBody] /\ keysByAddress \in [Addr -> Password \cup {NoKey}]
      /\ accountsByAddress \in [Addr -> 0 .. MaxGen]
  BY DEF IInv, TypeOK
<1>5. \A b \in Addr, g \in Gen :
        disk'[<<b, g>>] = IF b = a /\ g = gen THEN new ELSE disk[<<b, g>>]
  BY <1>1, <1>3, <1>4
<1>6. ASSUME NEW b \in Addr, NEW g \in Gen, disk'[<<b, g>>] \in Password
      PROVE  accountsByAddress'[b] = g
  <2>1. CASE b = a /\ g = gen
    BY <1>1, <1>3, <1>4, <2>1
  <2>2. CASE ~(b = a /\ g = gen)
    <3>1. accountsByAddress[b] = g
      BY <1>1, <1>5, <1>6, <2>2, AllListed
    <3>2. b # a
      BY <1>2, <2>2, <3>1
    <3> QED BY <1>3, <1>4, <3>1, <3>2
  <2> QED BY <2>1, <2>2
<1>7. OneFilePerAddress'
  <2> SUFFICES ASSUME NEW b \in Addr, NEW g \in Gen, NEW h \in Gen,
                      disk'[<<b, g>>] \in Password, disk'[<<b, h>>] \in Password
               PROVE  g = h
    BY DEF OneFilePerAddress
  <2>1. accountsByAddress'[b] = g /\ accountsByAddress'[b] = h
    BY <1>6
  <2> QED BY <2>1
<1>8. LoadedIsListed' /\ FilesKnown'
  BY <1>6 DEF LoadedIsListed, FilesKnown
<1>9. CachesAgree'
  <2> SUFFICES ASSUME NEW b \in Addr
               PROVE  /\ keysByAddress'[b] # NoKey => accountsByAddress'[b] # 0
                      /\ accountsByAddress'[b] # 0 =>
                           keysByAddress'[b] = disk'[<<b, accountsByAddress'[b]>>]
    BY DEF CachesAgree
  <2>1. CASE b = a
    <3>1. keysByAddress'[b] = new /\ accountsByAddress'[b] = gen /\ disk'[<<b, gen>>] = new
      BY <1>1, <1>3, <1>4, <1>5, <2>1
    <3> QED BY <1>1, <3>1
  <2>2. CASE b # a
    <3>1. /\ keysByAddress'[b] = keysByAddress[b] /\ accountsByAddress'[b] = accountsByAddress[b]
          /\ keysByAddress[b] # NoKey => accountsByAddress[b] # 0
          /\ accountsByAddress[b] # 0 => keysByAddress[b] = disk[<<b, accountsByAddress[b]>>]
      BY <1>1, <1>3, <1>4, <2>2 DEF FilesOK, CachesAgree
    <3>2. accountsByAddress[b] # 0 => accountsByAddress[b] \in Gen
      BY <1>4
    <3> QED BY <1>5, <2>2, <3>1, <3>2
  <2> QED BY <2>1, <2>2
<1> QED BY <1>7, <1>8, <1>9 DEF FilesOK

\* Every step of such hosts keeps the caches and the directory in step.
LEMMA StepKeepsFiles ==
  ASSUME IInv, FilesOK, HostCalls, [Next]_vars
  PROVE  FilesOK'
<1> USE DEF IInv
<1>1. CASE UNCHANGED <<disk, cacheVars>> /\ UNCHANGED up
  BY <1>1, QuietKeepsFiles
<1>2. CASE Open
  BY <1>2, RetryKeepsFiles DEF Open
<1>3. ASSUME NEW t \in Thread, Enter(t) PROVE FilesOK'
  <2>1. up
    BY <1>3 DEF PcOK, Enter
  <2> QED BY <1>3, <2>1, RetryKeepsFiles DEF Enter
<1>4. CASE Crash
  <2>1. /\ UNCHANGED disk /\ ~up' /\ loadedAccountURLs' = {}
        /\ accountsByAddress' = [a \in Addr |-> 0] /\ keysByAddress' = [a \in Addr |-> NoKey]
    BY <1>4 DEF Crash
  <2> QED BY <2>1 DEF FilesOK, OneFilePerAddress, CachesAgree, LoadedIsListed, FilesKnown
<1>5. ASSUME NEW t \in Thread, CommitAddKey(t) PROVE FALSE
  <2>1. op[t] # NoCall
    BY <1>5 DEF CommitAddKey, NoCall
  <2> QED BY <1>5, <2>1 DEF CommitAddKey, HostCalls
<1>6. ASSUME NEW t \in Thread, CommitDelete(t) PROVE FilesOK'
  <2>1. UNCHANGED disk => UNCHANGED <<disk, cacheVars>> /\ UNCHANGED up
    <3> SUFFICES ASSUME UNCHANGED disk PROVE UNCHANGED cacheVars /\ UNCHANGED up
      OBVIOUS
    <3>1. op[t] \in Call
      BY <1>6 DEF PcOK, CommitDelete
    <3>2. <<op[t].addr, op[t].gen>> \in Url \/ op[t].gen = 0
      BY <3>1, NoCallIsNoCall
    <3>3. op[t].gen # 0
      BY <1>6 DEF PcOK, CommitDelete
    <3>4. Throw(t)
      BY <1>6, <3>2, <3>3 DEF CommitDelete, TypeOK
    <3> QED BY <3>4 DEF Throw, Finish, envVars
  <2> QED BY <1>1, <1>6, <2>1, RemovalKeepsFiles
<1>7. ASSUME NEW t \in Thread, Rename(t) PROVE FilesOK'
  <2>1. CASE UNCHANGED <<disk, cacheVars>>
    <3>1. UNCHANGED up
      BY <1>7 DEF Rename, Finish, envVars
    <3> QED BY <1>1, <2>1, <3>1
  <2>2. CASE ~UNCHANGED <<disk, cacheVars>>
    BY <1>7, <2>2, SaveKeepsFiles
  <2> QED BY <2>1, <2>2
<1>8. ASSUME NEW t \in Thread, Begin(t) \/ BeginRead(t) \/ Lock(t) \/ EndRead(t) \/ Check(t)
                               \/ Stage(t)
      PROVE  FilesOK'
  <2>1. UNCHANGED <<disk, cacheVars>> /\ UNCHANGED up
    BY <1>8 DEF Begin, BeginRead, Lock, EndRead, Check, Stage, Throw, Finish, diskVars, envVars
  <2> QED BY <1>1, <2>1
<1>9. CASE Outage \/ Recover \/ UNCHANGED vars
  <2>1. UNCHANGED <<disk, cacheVars>> /\ UNCHANGED up
    BY <1>9 DEF Outage, Recover, vars, diskVars, envVars
  <2> QED BY <1>1, <2>1
<1> QED BY <1>2, <1>3, <1>4, <1>5, <1>6, <1>7, <1>8, <1>9 DEF Next, Progress

\* Sessions begin with at most one key file per address and nothing cached.
LEMMA InitFilesOK == Init => FilesOK /\ HostCalls
<1> SUFFICES ASSUME Init PROVE FilesOK /\ HostCalls
  OBVIOUS
<1>1. PICK body \in [Addr -> FileBody] :
        disk = [u \in Url |-> IF u[2] = 1 THEN body[u[1]] ELSE NoKey]
  BY DEF Init
<1>2. \A a \in Addr, g \in Gen : disk[<<a, g>>] \in Password => g = 1
  BY <1>1
<1>3. OneFilePerAddress
  BY <1>2 DEF OneFilePerAddress
<1>4. CachesAgree /\ LoadedIsListed /\ FilesKnown /\ HostCalls
  BY DEF Init, CachesAgree, LoadedIsListed, FilesKnown, HostCalls
<1> QED BY <1>3, <1>4 DEF FilesOK

\* Calls that stay as they are, or end, while the accounts they update stay listed.
LEMMA CallsGoOn ==
  ASSUME HostCalls,
         \A s \in Thread : op'[s] # NoCall =>
           /\ op[s] # NoCall
           /\ op'[s].kind = op[s].kind /\ op'[s].addr = op[s].addr
           /\ op[s].kind = "update" =>
                op'[s].gen = op[s].gen /\ accountsByAddress'[op[s].addr] = op[s].gen
  PROVE  HostCalls'
BY DEF HostCalls

\* The call of `t` ends, and every listed account but that of `t` stays.
LEMMA EndOfCall ==
  ASSUME IInv, HostCalls, NEW t \in Thread, Finish(t), pc[t] # "mutex",
         stateLock = t,
         \A s \in Thread \ {t} : op[s] # NoCall /\ op[s].kind = "update" =>
           accountsByAddress'[op[s].addr] = accountsByAddress[op[s].addr]
  PROVE  HostCalls'
<1>1. /\ op'[t] = NoCall
      /\ \A s \in Thread \ {t} : op'[s] = op[s]
  BY FinishFacts DEF IInv
<1> QED BY <1>1, CallsGoOn DEF HostCalls

\* A new call finds the accounts of the updates under way in nobody else's hands.
LEMMA BeginKeepsHosts ==
  ASSUME HandlesStayCurrent, ~StagedApi, IInv, HostCalls, NEW t \in Thread, Begin(t)
  PROVE  HostCalls'
<1>1. PICK c \in Call : Callable(c) /\ op' = [op EXCEPT ![t] = c]
  BY DEF Begin
<1>2. /\ op'[t] = c /\ UNCHANGED accountsByAddress
      /\ \A s \in Thread \ {t} : op'[s] = op[s]
  BY <1>1 DEF IInv, TypeOK, Begin, cacheVars
<1>3. c.kind \in {"create", "import", "update", "delete"}
  <2>1. c.kind \in Kind
    BY NoCallIsNoCall
  <2> QED BY <1>1, <2>1 DEF Callable, Kind
<1>4. c.kind = "update" =>
        /\ c.gen # 0 /\ accountsByAddress[c.addr] = c.gen
        /\ \A s \in Thread : op[s] # NoCall /\ op[s].kind = "delete" => op[s].addr # c.addr
  BY <1>1 DEF Callable, InFlight
<1>5. c.kind = "delete" =>
        \A s \in Thread : op[s] # NoCall /\ op[s].kind = "update" => op[s].addr # c.addr
  BY <1>1 DEF Callable, InFlight
<1> QED BY <1>2, <1>3, <1>4, <1>5 DEF HostCalls

\* What save() writes into the call that runs it.
LEMMA StagedFields ==
  ASSUME op \in [Thread -> Call \cup {NoCall}], NEW t \in Thread, op[t] \in Call,
         NEW gen, NEW body, op' = [op EXCEPT ![t].gen = gen, ![t].new = body]
  PROVE  /\ op'[t].kind = op[t].kind /\ op'[t].addr = op[t].addr /\ op'[t].pw = op[t].pw
         /\ op'[t].gen = gen /\ op'[t].new = body
         /\ \A s \in Thread \ {t} : op'[s] = op[s]
<1>1. PICK k \in Kind, a \in Addr, h \in 0 .. MaxGen, p \in Password, n \in Password :
        op[t] = [kind |-> k, addr |-> a, gen |-> h, pw |-> p, new |-> n]
  BY DEF Call
<1>2. /\ op'[t] = [op[t] EXCEPT !.gen = gen, !.new = body]
      /\ \A s \in Thread \ {t} : op'[s] = op[s]
  OBVIOUS
<1>3. op'[t] = [[kind |-> k, addr |-> a, gen |-> h, pw |-> p, new |-> n]
                  EXCEPT !.gen = gen, !.new = body]
  BY <1>1, <1>2, Zenon
<1>4. op'[t] = [kind |-> k, addr |-> a, gen |-> gen, pw |-> p, new |-> body]
  BY <1>3
<1> QED BY <1>1, <1>2, <1>4

\* Every step keeps the handles of such hosts current.
LEMMA StepKeepsHosts ==
  ASSUME HandlesStayCurrent, ~StagedApi, IInv, HostCalls, [Next]_vars
  PROVE  HostCalls'
<1>0. TypeOK /\ PcOK /\ op \in [Thread -> Call \cup {NoCall}]
  BY DEF IInv, TypeOK
<1>1. CASE UNCHANGED <<op, accountsByAddress>>
  BY <1>1 DEF HostCalls
<1>2. CASE OnlyAdds /\ UNCHANGED op
  <2>1. ASSUME NEW s \in Thread, op[s] # NoCall, op[s].kind = "update"
        PROVE  accountsByAddress'[op[s].addr] = op[s].gen
    <3>1. op[s].addr \in Addr
      BY <1>0, <2>1, NoCallIsNoCall
    <3> QED BY <1>2, <2>1, <3>1 DEF OnlyAdds, HostCalls
  <2> QED BY <1>2, <2>1, CallsGoOn
<1>3. CASE Crash
  BY <1>3 DEF Crash, HostCalls
<1>4. ASSUME NEW t \in Thread, Throw(t), pc[t] # "mutex", stateLock = t PROVE HostCalls'
  <2>1. Finish(t) /\ UNCHANGED accountsByAddress
    BY <1>4 DEF Throw, cacheVars
  <2> QED BY <1>4, <2>1, EndOfCall
<1>5. ASSUME NEW t \in Thread, Check(t) PROVE HostCalls'
  <2>1. CASE Throw(t)
    BY <1>4, <1>5, <2>1 DEF Check
  <2>2. CASE /\ op' = IF op[t].kind = "delete"
                      THEN [op EXCEPT ![t].gen = accountsByAddress[op[t].addr]] ELSE op
             /\ UNCHANGED accountsByAddress
    <3>1. op[t] \in Call /\ op[t] # NoCall
      BY <1>0, <1>5, NoCallIsNoCall DEF Check, PcOK
    <3>2. CASE op[t].kind = "delete"
      <4>1. /\ op'[t].kind = op[t].kind /\ op'[t].addr = op[t].addr
            /\ \A s \in Thread \ {t} : op'[s] = op[s]
        BY <1>0, <2>2, <3>1, <3>2 DEF Call
      <4> QED BY <2>2, <3>1, <3>2, <4>1, CallsGoOn DEF HostCalls
    <3>3. CASE op[t].kind # "delete"
      BY <1>1, <2>2, <3>3
    <3> QED BY <3>2, <3>3
  <2> QED BY <1>5, <2>1, <2>2 DEF Check, cacheVars
<1>6. ASSUME NEW t \in Thread, CommitDelete(t) PROVE HostCalls'
  <2>0. pc[t] = "commit" /\ stateLock = t /\ op[t].kind = "delete" /\ op[t] \in Call
    BY <1>0, <1>6 DEF CommitDelete, PcOK
  <2>1. CASE Throw(t)
    BY <1>4, <2>0, <2>1
  <2>2. CASE Finish(t) /\ accountsByAddress' = [accountsByAddress EXCEPT ![op[t].addr] = 0]
    <3>1. ASSUME NEW s \in Thread \ {t}, op[s] # NoCall, op[s].kind = "update"
          PROVE  accountsByAddress'[op[s].addr] = accountsByAddress[op[s].addr]
      <4>1. op[t].addr # op[s].addr
        BY <2>0, <3>1, NoCallIsNoCall DEF HostCalls
      <4>2. op[s].addr \in Addr
        BY <1>0, <3>1, NoCallIsNoCall
      <4> QED BY <1>0, <2>2, <4>1, <4>2 DEF TypeOK
    <3> QED BY <2>0, <2>2, <3>1, EndOfCall
  <2> QED BY <1>6, <2>1, <2>2 DEF CommitDelete
<1>7. ASSUME NEW t \in Thread, Rename(t) PROVE HostCalls'
  <2>0. pc[t] = "rename" /\ stateLock = t /\ op[t] \in Call /\ Finish(t) /\ op[t] # NoCall
    BY <1>0, <1>7, NoCallIsNoCall DEF Rename, PcOK
  <2>1. CASE UNCHANGED accountsByAddress
    BY <2>0, <2>1, EndOfCall
  <2>2. CASE accountsByAddress' = [accountsByAddress EXCEPT ![op[t].addr] =
                  IF op[t].kind = "update" THEN @ ELSE op[t].gen]
    <3>1. ASSUME NEW s \in Thread \ {t}, op[s] # NoCall, op[s].kind = "update"
          PROVE  accountsByAddress'[op[s].addr] = accountsByAddress[op[s].addr]
      <4>1. op[s].addr \in Addr /\ op[t].addr \in Addr
        BY <1>0, <2>0, <3>1, NoCallIsNoCall
      <4>2. CASE op[t].kind = "update" \/ op[t].addr # op[s].addr
        BY <1>0, <2>2, <4>1, <4>2 DEF TypeOK
      <4>3. CASE op[t].kind # "update" /\ op[t].addr = op[s].addr
        <5>1. op[t].kind \in {"create", "import"}
          BY <1>0, <2>0, <4>3 DEF HostCalls, PcOK
        <5>2. accountsByAddress[op[t].addr] = 0
          BY <2>0, <5>1 DEF IInv, DecisionStillValid
        <5>3. accountsByAddress[op[s].addr] # 0
          BY <3>1 DEF HostCalls
        <5> QED BY <4>3, <5>2, <5>3
      <4> QED BY <4>2, <4>3
    <3> QED BY <2>0, <3>1, EndOfCall
  <2> QED BY <1>7, <2>1, <2>2 DEF Rename, cacheVars
<1>8. ASSUME NEW t \in Thread, Stage(t) PROVE HostCalls'
  <2>0. /\ pc[t] = "commit" /\ stateLock = t /\ op[t] \in Call /\ op[t] # NoCall
        /\ op[t].kind \in {"create", "import", "update"}
    <3>1. pc[t] = "commit" /\ stateLock = t /\ op[t] \in Call /\ op[t] # NoCall
      BY <1>0, <1>8, NoCallIsNoCall DEF Stage, PcOK
    <3> QED BY <1>8, <3>1 DEF Stage, HostCalls
  <2>1. UNCHANGED accountsByAddress
    BY <1>8 DEF Stage, Throw, cacheVars
  <2>2. CASE Finish(t)
    BY <2>0, <2>1, <2>2, EndOfCall
  <2>3. ASSUME NEW gen, NEW body, op' = [op EXCEPT ![t].gen = gen, ![t].new = body],
               op[t].kind = "update" => gen = op[t].gen
        PROVE  HostCalls'
    <3>1. /\ op'[t].kind = op[t].kind /\ op'[t].addr = op[t].addr /\ op'[t].gen = gen
          /\ \A s \in Thread \ {t} : op'[s] = op[s]
      BY <1>0, <2>0, <2>3, StagedFields
    <3>2. ASSUME NEW s \in Thread, op'[s] # NoCall
          PROVE  /\ op[s] # NoCall
                 /\ op'[s].kind = op[s].kind /\ op'[s].addr = op[s].addr
                 /\ op[s].kind = "update" =>
                      op'[s].gen = op[s].gen /\ accountsByAddress'[op[s].addr] = op[s].gen
      <4>1. op[s].kind = "update" /\ op[s] # NoCall => accountsByAddress'[op[s].addr] = op[s].gen
        BY <2>1 DEF HostCalls
      <4>2. CASE s = t
        BY <2>0, <2>3, <3>1, <4>1, <4>2
      <4>3. CASE s # t
        BY <3>1, <3>2, <4>1, <4>3
      <4> QED BY <4>2, <4>3
    <3> QED BY <3>2, CallsGoOn
  <2>4. op' = [op EXCEPT ![t].gen = IF op[t].kind \in {"create", "import"}
                                    THEN names[op[t].addr] + 1 ELSE op[t].gen,
                         ![t].new = IF op[t].kind = "addAccount" THEN keysByAddress[op[t].addr]
                                    ELSE op[t].new]
          \/ Finish(t)
    BY <1>8, Zenon DEF Stage, Throw
  <2>5. op[t].kind = "update" =>
          (IF op[t].kind \in {"create", "import"} THEN names[op[t].addr] + 1 ELSE op[t].gen) = op[t].gen
    OBVIOUS
  <2> QED BY <2>2, <2>3, <2>4, <2>5, Zenon
<1>9. ASSUME NEW t \in Thread, CommitAddKey(t) PROVE HostCalls'
  <2>1. op[t] # NoCall
    BY <1>9 DEF CommitAddKey, NoCall
  <2> QED BY <1>9, <2>1 DEF CommitAddKey, HostCalls
<1>10. ASSUME NEW t \in Thread, EndRead(t) PROVE HostCalls'
  BY <1>4, <1>10 DEF EndRead
<1>11. CASE Open
  BY <1>0, <1>2, <1>11, LoadOnlyAdds DEF Open
<1>12. ASSUME NEW t \in Thread, Enter(t) PROVE HostCalls'
  BY <1>0, <1>2, <1>12, RetryOnlyAdds DEF Enter
<1>13. CASE Outage \/ Recover \/ UNCHANGED vars
  BY <1>1, <1>13 DEF Outage, Recover, vars, cacheVars
<1>14. ASSUME NEW t \in Thread, BeginRead(t) \/ Lock(t) PROVE HostCalls'
  BY <1>1, <1>14 DEF BeginRead, Lock, cacheVars
<1> QED
  BY <1>3, <1>5, <1>6, <1>7, <1>8, <1>9, <1>10, <1>11, <1>12, <1>13, <1>14, BeginKeepsHosts
  DEF Next, Progress

\* For hosts that use the class as documented.
THEOREM FilesInvariant ==
  ASSUME HandlesStayCurrent, ~StagedApi
  PROVE  Spec => [](IInv /\ FilesOK /\ HostCalls)
<1>1. Init => IInv /\ FilesOK /\ HostCalls
  BY InitIInv, InitFilesOK
<1>2. IInv /\ FilesOK /\ HostCalls /\ [Next]_vars => (IInv /\ FilesOK /\ HostCalls)'
  BY NextKeeps, StepKeepsFiles, StepKeepsHosts
<1> QED BY <1>1, <1>2, PTL DEF Spec

\* An address never has two key files (lines 81, 114, 206, 400).
THEOREM NeverTwoFiles ==
  ASSUME HandlesStayCurrent, ~StagedApi
  PROVE  Spec => []OneFilePerAddress
<1>1. FilesOK => OneFilePerAddress
  BY DEF FilesOK
<1> QED BY <1>1, FilesInvariant, PTL

\* What is listed is what the directory holds, and once every file was read it is
\* all the directory holds.
THEOREM CachesFollowTheDirectory ==
  ASSUME HandlesStayCurrent, ~StagedApi
  PROVE  Spec => []ListingIsDirectory
<1>1. FilesOK => ListingIsDirectory
  <2> SUFFICES ASSUME FilesOK PROVE ListingIsDirectory
    OBVIOUS
  <2>1. up /\ ~hasUnreadableAccounts =>
          \A a \in Addr, g \in Gen : disk[<<a, g>>] \in Password => accountsByAddress[a] = g
    BY AllListed
  <2> QED BY <2>1 DEF FilesOK, CachesAgree, ListingIsDirectory
<1> QED BY <1>1, FilesInvariant, PTL

-----------------------------------------------------------------------------
(***************************************************************************)
(* The refinement.  KeyIn(d, a) is the key of `a` in the directory `d`, so *)
(* that the abstract store before and after a step is KeyIn of the two     *)
(* directories; the abstract requests are the calls without their files.   *)
(***************************************************************************)
KeyIn(d, a) ==
  IF \E g \in Gen : d[<<a, g>>] \in Password
  THEN d[<<a, CHOOSE g \in Gen : d[<<a, g>>] \in Password>>]
  ELSE NoKey

Store == [a \in Addr |-> StoredKey(a)]
Requests == [t \in Thread |-> RequestOf(op[t])]

\* With one file for an address its stored key is that file's.
LEMMA KeyOfOnlyFile ==
  ASSUME NEW d, NEW a \in Addr, NEW g \in Gen, d[<<a, g>>] \in Password,
         \A h \in Gen : d[<<a, h>>] \in Password => h = g
  PROVE  KeyIn(d, a) = d[<<a, g>>]
<1> DEFINE found == CHOOSE h \in Gen : d[<<a, h>>] \in Password
<1>1. found \in Gen /\ d[<<a, found>>] \in Password
  BY Zenon
<1>2. found = g
  BY <1>1
<1>3. KeyIn(d, a) = d[<<a, found>>]
  BY Zenon DEF KeyIn
<1> QED BY <1>2, <1>3, Zenon

\* Without a file an address has no stored key.
LEMMA NoKeyWithoutFile ==
  ASSUME NEW d, NEW a \in Addr, \A g \in Gen : d[<<a, g>>] \notin Password
  PROVE  KeyIn(d, a) = NoKey
BY Zenon DEF KeyIn

\* The abstract store, before and after a step, is what the files say.
LEMMA StoreIsKeys ==
  /\ Store = [a \in Addr |-> KeyIn(disk, a)]
  /\ Store' = [a \in Addr |-> KeyIn(disk', a)]
BY Zenon DEF Store, StoredKey, KeyIn

\* The abstract requests, before and after a step.
LEMMA RequestsAre ==
  /\ Requests = [t \in Thread |-> RequestOf(op[t])]
  /\ Requests' = [t \in Thread |-> RequestOf(op'[t])]
BY Zenon DEF Requests, RequestOf

\* A step changes the key of an address only where it changes its files.
LEMMA OtherKeysStay ==
  ASSUME OneFilePerAddress, NEW a \in Addr, \A g \in Gen : disk'[<<a, g>>] = disk[<<a, g>>]
  PROVE  KeyIn(disk', a) = KeyIn(disk, a)
<1>1. CASE \E g \in Gen : disk[<<a, g>>] \in Password
  <2>1. PICK g \in Gen : disk[<<a, g>>] \in Password
    BY <1>1
  <2>2. \A h \in Gen : disk[<<a, h>>] \in Password => h = g
    BY <2>1 DEF OneFilePerAddress
  <2>3. KeyIn(disk, a) = disk[<<a, g>>]
    BY <2>1, <2>2, KeyOfOnlyFile
  <2>4. KeyIn(disk', a) = disk'[<<a, g>>]
    BY <2>1, <2>2, KeyOfOnlyFile
  <2> QED BY <2>1, <2>3, <2>4
<1>2. CASE ~ \E g \in Gen : disk[<<a, g>>] \in Password
  <2>1. KeyIn(disk, a) = NoKey
    BY <1>2, NoKeyWithoutFile
  <2>2. KeyIn(disk', a) = NoKey
    BY <1>2, NoKeyWithoutFile
  <2> QED BY <2>1, <2>2
<1> QED BY <1>1, <1>2

\* While no file changes the abstract store does not.
LEMMA StoreStays ==
  ASSUME UNCHANGED disk PROVE Store' = Store
BY StoreIsKeys

\* What a call asks for does not name its file.
LEMMA SameRequest ==
  ASSUME NEW c, NEW d, c # NoCall, d # NoCall,
         d.kind = c.kind, d.addr = c.addr, d.pw = c.pw, d.new = c.new
  PROVE  RequestOf(d) = RequestOf(c)
BY DEF RequestOf

\* The request of a mutating call keeps its fields.
LEMMA RequestsOfHosts ==
  ASSUME NEW c \in Call, c.kind \in {"create", "import", "update", "delete"}
  PROVE  /\ RequestOf(c) \in Abstract!Request /\ RequestOf(c) # Abstract!NoRequest
         /\ RequestOf(c).kind = c.kind /\ RequestOf(c).addr = c.addr
         /\ RequestOf(c).pw = c.pw /\ RequestOf(c).new = c.new
BY NoCallIsNoCall DEF RequestOf, Abstract!Request, Abstract!NoRequest

\* No call is no request.
LEMMA NoCallNoRequest == RequestOf(NoCall) = Abstract!NoRequest
BY DEF RequestOf, Abstract!NoRequest

\* One thread's request changes.
LEMMA OneRequest ==
  ASSUME NEW t \in Thread, \A s \in Thread \ {t} : RequestOf(op'[s]) = RequestOf(op[s])
  PROVE  Requests' = [Requests EXCEPT ![t] = RequestOf(op'[t])]
BY RequestsAre

\* The request of the call that ends is gone.
LEMMA RequestAnswered ==
  ASSUME TypeOK, PcOK, NEW t \in Thread, Finish(t), stateLock = t
  PROVE  Requests' = [Requests EXCEPT ![t] = Abstract!NoRequest]
<1>1. /\ op'[t] = NoCall
      /\ \A s \in Thread \ {t} : op'[s] = op[s]
  BY FinishFacts
<1> QED BY <1>1, OneRequest, NoCallNoRequest

\* A call that throws, or a read that ends, leaves no trace in the directory.
LEMMA ThrowFails ==
  ASSUME IInv, HostCalls, NEW t \in Thread, Finish(t), stateLock = t, UNCHANGED disk
  PROVE  Abstract!Fail(t) \/ UNCHANGED <<Store, Requests>>
<1>1. /\ Store' = Store
      /\ Requests' = [Requests EXCEPT ![t] = Abstract!NoRequest]
      /\ Requests[t] = RequestOf(op[t])
  BY StoreStays, RequestAnswered, RequestsAre DEF IInv
<1>2. CASE op[t] = NoCall
  BY <1>1, <1>2, NoCallNoRequest, RequestsAre
<1>3. CASE op[t] # NoCall
  <2>1. op[t] \in Call /\ op[t].kind \in {"create", "import", "update", "delete"}
    BY <1>3 DEF IInv, TypeOK, HostCalls
  <2>2. Requests[t] # Abstract!NoRequest
    BY <1>1, <2>1, RequestsOfHosts
  <2> QED BY <1>1, <2>2 DEF Abstract!Fail, Store, Requests
<1> QED BY <1>2, <1>3

\* A call takes effect on the store it finds, where the abstract one allows it.
LEMMA CallCommits ==
  ASSUME IInv, HostCalls, NEW t \in Thread, Finish(t), stateLock = t, op[t] # NoCall,
         IF op[t].kind \in {"create", "import"} THEN KeyIn(disk, op[t].addr) = NoKey
         ELSE KeyIn(disk, op[t].addr) = op[t].pw,
         KeyIn(disk', op[t].addr) = IF op[t].kind = "delete" THEN NoKey ELSE op[t].new,
         \A b \in Addr \ {op[t].addr} : KeyIn(disk', b) = KeyIn(disk, b)
  PROVE  Abstract!Commit(t)
<1> DEFINE r == RequestOf(op[t])
<1>1. op[t] \in Call /\ op[t].kind \in {"create", "import", "update", "delete"}
  BY DEF IInv, TypeOK, HostCalls
<1>2. /\ r # Abstract!NoRequest /\ op[t].addr \in Addr
      /\ r.kind = op[t].kind /\ r.addr = op[t].addr /\ r.pw = op[t].pw /\ r.new = op[t].new
  BY <1>1, RequestsOfHosts, NoCallIsNoCall
<1> HIDE DEF r
<1>3. Requests[t] = r /\ Requests' = [Requests EXCEPT ![t] = Abstract!NoRequest]
  BY RequestAnswered, RequestsAre DEF IInv, r
<1>4. Store[r.addr] = KeyIn(disk, r.addr)
  BY <1>2, StoreIsKeys
<1>5. Store' = [Store EXCEPT ![r.addr] = IF r.kind = "delete" THEN NoKey ELSE r.new]
  BY <1>2, StoreIsKeys
<1>6. CASE r.kind \in {"create", "import"}
  <2>1. Store[r.addr] = NoKey
    BY <1>2, <1>4, <1>6
  <2> QED BY <1>2, <1>3, <1>5, <1>6, <2>1
          DEF Abstract!Commit, Abstract!Allowed, Store, Requests
<1>7. CASE r.kind \in {"update", "delete"}
  <2>1. Store[r.addr] = r.pw
    BY <1>2, <1>4, <1>7
  <2> QED BY <1>2, <1>3, <1>5, <1>7, <2>1
          DEF Abstract!Commit, Abstract!Allowed, Store, Requests
<1> QED BY <1>1, <1>2, <1>6, <1>7

\* The listed file of an account holds its key, and no other file does.
LEMMA KeyOfListed ==
  ASSUME IInv, FilesOK, NEW a \in Addr, accountsByAddress[a] # 0
  PROVE  KeyIn(disk, a) = keysByAddress[a]
<1> DEFINE g == accountsByAddress[a]
<1>1. g \in Gen /\ disk[<<a, g>>] \in Password
  BY DEF IInv, TypeOK, AccountBacked
<1>2. \A h \in Gen : disk[<<a, h>>] \in Password => h = g
  BY <1>1 DEF FilesOK, OneFilePerAddress
<1>3. KeyIn(disk, a) = disk[<<a, g>>]
  BY <1>1, <1>2, KeyOfOnlyFile
<1> QED BY <1>3 DEF FilesOK, CachesAgree

\* A removal is a delete of the key it was checked against.
LEMMA RemovalCommits ==
  ASSUME IInv, FilesOK, FilesOK', HostCalls, NEW t \in Thread, CommitDelete(t), ~UNCHANGED disk
  PROVE  Abstract!Commit(t)
<1> DEFINE a == op[t].addr
           gen == op[t].gen
<1>1. /\ op[t] \in Call /\ op[t] # NoCall /\ op[t].kind = "delete"
      /\ accountsByAddress[a] = gen /\ gen # 0 /\ keysByAddress[a] = op[t].pw
      /\ a \in Addr /\ gen \in Gen /\ stateLock = t
  BY NoCallIsNoCall DEF IInv, TypeOK, PcOK, CommitDelete, DecisionStillValid
<1>2. disk' = [disk EXCEPT ![<<a, gen>>] = NoKey] /\ Finish(t)
  BY DEF CommitDelete, Throw
<1> HIDE DEF a, gen
<1>3. KeyIn(disk, a) = op[t].pw
  BY <1>1, KeyOfListed
<1>4. /\ disk \in [Url -> FileBody]
      /\ \A b \in Addr, g \in Gen :
           disk'[<<b, g>>] = IF b = a /\ g = gen THEN NoKey ELSE disk[<<b, g>>]
  BY <1>1, <1>2 DEF IInv, TypeOK
<1>5. KeyIn(disk', a) = NoKey
  <2>1. disk[<<a, gen>>] \in Password
    BY <1>1 DEF IInv, AccountBacked
  <2>2. \A g \in Gen : disk[<<a, g>>] \in Password => g = gen
    BY <1>1, <2>1 DEF FilesOK, OneFilePerAddress
  <2>3. \A g \in Gen : disk'[<<a, g>>] \notin Password
    BY <1>1, <1>4, <2>2
  <2> QED BY <1>1, <2>3, NoKeyWithoutFile
<1>6. ASSUME NEW b \in Addr \ {a} PROVE KeyIn(disk', b) = KeyIn(disk, b)
  <2>1. \A g \in Gen : disk'[<<b, g>>] = disk[<<b, g>>]
    BY <1>4
  <2> QED BY <2>1, OtherKeysStay DEF FilesOK
<1> QED BY <1>1, <1>2, <1>3, <1>5, <1>6, CallCommits DEF a

\* A rename creates the only file of an address, or replaces the listed one by the
\* key the update was checked against.
LEMMA RenameCommits ==
  ASSUME IInv, FilesOK, FilesOK', HostCalls, NEW t \in Thread, Rename(t),
         disk' = [disk EXCEPT ![<<op[t].addr, op[t].gen>>] = op[t].new]
  PROVE  Abstract!Commit(t)
<1> DEFINE a == op[t].addr
           gen == op[t].gen
           new == op[t].new
<1>1. /\ op[t] \in Call /\ op[t] # NoCall /\ ~hasUnreadableAccounts /\ up
      /\ a \in Addr /\ gen \in Gen /\ new \in Password
      /\ op[t].kind \in {"create", "import", "update"} /\ stateLock = t /\ Finish(t)
  <2>1. /\ op[t] \in Call /\ up /\ ~hasUnreadableAccounts /\ gen \in 1 .. names[a]
        /\ op[t].kind \notin {"delete", "addKey"} /\ stateLock = t /\ Finish(t)
    BY DEF IInv, PcOK, Rename
  <2>2. a \in Addr /\ gen \in 0 .. MaxGen /\ new \in Password /\ op[t] # NoCall
    BY <2>1, NoCallIsNoCall
  <2> QED BY <2>1, <2>2 DEF HostCalls, IInv, TypeOK
<1>2. /\ op[t].kind = "update" => accountsByAddress[a] = gen /\ keysByAddress[a] = op[t].pw
      /\ op[t].kind # "update" => accountsByAddress[a] = 0
  BY <1>1 DEF HostCalls, IInv, DecisionStillValid, Rename
<1>3. disk' = [disk EXCEPT ![<<a, gen>>] = new]
  OBVIOUS
<1> HIDE DEF a, gen, new
<1>4. /\ disk \in [Url -> FileBody]
      /\ \A b \in Addr, g \in Gen :
           disk'[<<b, g>>] = IF b = a /\ g = gen THEN new ELSE disk[<<b, g>>]
  BY <1>1, <1>3 DEF IInv, TypeOK
<1>5. KeyIn(disk', a) = new
  <2>1. disk'[<<a, gen>>] = new
    BY <1>1, <1>4
  <2>2. \A h \in Gen : disk'[<<a, h>>] \in Password => h = gen
    BY <1>1, <2>1 DEF FilesOK, OneFilePerAddress
  <2> QED BY <1>1, <2>1, <2>2, KeyOfOnlyFile
<1>6. ASSUME NEW b \in Addr \ {a} PROVE KeyIn(disk', b) = KeyIn(disk, b)
  <2>1. \A g \in Gen : disk'[<<b, g>>] = disk[<<b, g>>]
    BY <1>4
  <2> QED BY <2>1, OtherKeysStay DEF FilesOK
<1>7. CASE op[t].kind = "update"
  <2>1. KeyIn(disk, a) = op[t].pw
    BY <1>1, <1>2, <1>7, KeyOfListed
  <2> QED BY <1>1, <1>5, <1>6, <1>7, <2>1, CallCommits DEF a, new
<1>8. CASE op[t].kind # "update"
  <2>1. \A g \in Gen : disk[<<a, g>>] \notin Password
    BY <1>1, <1>2, <1>8, AllListed
  <2>2. KeyIn(disk, a) = NoKey
    BY <1>1, <2>1, NoKeyWithoutFile
  <2> QED BY <1>1, <1>5, <1>6, <1>8, <2>2, CallCommits DEF a, new
<1> QED BY <1>7, <1>8

\* Every step of the class is a step of the abstract store, or none.
LEMMA StepRefines ==
  ASSUME IInv, FilesOK, FilesOK', HostCalls, HostCalls', [Next]_vars
  PROVE  [Abstract!Next]_<<Store, Requests>>
<1>0. TypeOK /\ PcOK /\ op \in [Thread -> Call \cup {NoCall}]
  BY DEF IInv, TypeOK
<1>1. CASE UNCHANGED <<disk, op>>
  BY <1>1, StoreStays, RequestsAre
<1>2. ASSUME NEW t \in Thread, Finish(t), stateLock = t, UNCHANGED disk
      PROVE  [Abstract!Next]_<<Store, Requests>>
  BY <1>2, ThrowFails DEF Abstract!Next
<1>3. ASSUME NEW t \in Thread, Begin(t) PROVE [Abstract!Next]_<<Store, Requests>>
  <2>1. PICK c \in Call : op' = [op EXCEPT ![t] = c]
    BY <1>3 DEF Begin
  <2>2. /\ op[t] = NoCall /\ op'[t] = c /\ UNCHANGED disk
        /\ \A s \in Thread \ {t} : op'[s] = op[s]
    BY <1>0, <1>3, <2>1 DEF PcOK, Begin, diskVars
  <2>3. c.kind \in {"create", "import", "update", "delete"}
    BY <2>2, NoCallIsNoCall DEF HostCalls
  <2>4. Requests' = [Requests EXCEPT ![t] = RequestOf(c)] /\ Requests[t] = Abstract!NoRequest
    BY <2>2, OneRequest, RequestsAre, NoCallNoRequest
  <2>5. RequestOf(c) \in Abstract!Request
    BY <2>3, RequestsOfHosts
  <2>6. Abstract!Invoke(t)
    BY <2>2, <2>4, <2>5, StoreStays DEF Abstract!Invoke, Store, Requests
  <2> QED BY <2>6 DEF Abstract!Next
<1>4. CASE Crash
  <2>1. Store' = Store
    BY <1>4, StoreStays DEF Crash
  <2>2. Requests' = [t \in Thread |-> Abstract!NoRequest]
    BY <1>4, RequestsAre, NoCallNoRequest DEF Crash
  <2>3. Abstract!Crash
    BY <2>1, <2>2 DEF Abstract!Crash, Store, Requests
  <2> QED BY <2>3 DEF Abstract!Next
<1>5. ASSUME NEW t \in Thread, Check(t) PROVE [Abstract!Next]_<<Store, Requests>>
  <2>0. stateLock = t /\ op[t] \in Call /\ UNCHANGED disk
    BY <1>0, <1>5 DEF Check, PcOK, Throw
  <2>1. CASE Finish(t)
    BY <1>2, <2>0, <2>1
  <2>2. CASE op' = op
    BY <1>1, <2>0, <2>2
  <2>3. CASE op' = [op EXCEPT ![t].gen = accountsByAddress[op[t].addr]]
    <3>1. /\ op'[t].kind = op[t].kind /\ op'[t].addr = op[t].addr
          /\ op'[t].pw = op[t].pw /\ op'[t].new = op[t].new
          /\ \A s \in Thread \ {t} : op'[s] = op[s]
      BY <1>0, <2>0, <2>3 DEF Call
    <3>2. op[t] # NoCall /\ op'[t] # NoCall
      BY <2>0, <3>1, NoCallIsNoCall DEF NoCall, Kind
    <3>3. \A s \in Thread : RequestOf(op'[s]) = RequestOf(op[s])
      BY <3>1, <3>2, SameRequest
    <3> QED BY <2>0, <3>3, StoreStays, RequestsAre
  <2> QED BY <1>5, <2>1, <2>2, <2>3 DEF Check, Throw
<1>6. ASSUME NEW t \in Thread, Stage(t) PROVE [Abstract!Next]_<<Store, Requests>>
  <2>0. /\ stateLock = t /\ op[t] \in Call /\ op[t] # NoCall /\ UNCHANGED disk
        /\ op[t].kind \in {"create", "import", "update"}
    <3>1. stateLock = t /\ op[t] \in Call /\ op[t] # NoCall /\ UNCHANGED disk
      BY <1>0, <1>6, NoCallIsNoCall DEF Stage, PcOK, Throw
    <3> QED BY <1>6, <3>1 DEF Stage, HostCalls
  <2>1. CASE Finish(t)
    BY <1>2, <2>0, <2>1
  <2>2. ASSUME NEW gen, NEW body, op' = [op EXCEPT ![t].gen = gen, ![t].new = body]
        PROVE  /\ op'[t].kind = op[t].kind /\ op'[t].addr = op[t].addr
               /\ op'[t].pw = op[t].pw /\ op'[t].new = body
               /\ \A s \in Thread \ {t} : op'[s] = op[s]
    <3>1. op[t] \in Call /\ op \in [Thread -> Call \cup {NoCall}]
      BY <1>0, <2>0
    <3>2. /\ op'[t].kind = op[t].kind /\ op'[t].addr = op[t].addr /\ op'[t].pw = op[t].pw
          /\ \A s \in Thread \ {t} : op'[s] = op[s]
      BY <2>2, <3>1, StagedFields
    <3>3. op'[t] = [op[t] EXCEPT !.gen = gen, !.new = body]
      BY <2>2, <3>1
    <3>4. op'[t].new = body
      BY <3>1, <3>3 DEF Call
    <3> QED BY <3>2, <3>4
  <2>3. ASSUME NEW gen, NEW body, op' = [op EXCEPT ![t].gen = gen, ![t].new = body],
               body = op[t].new
        PROVE  [Abstract!Next]_<<Store, Requests>>
    <3>1. /\ op'[t].kind = op[t].kind /\ op'[t].addr = op[t].addr
          /\ op'[t].pw = op[t].pw /\ op'[t].new = op[t].new
          /\ \A s \in Thread \ {t} : op'[s] = op[s]
      BY <2>3, <2>2
    <3>2. op'[t] # NoCall
      BY <2>0, <3>1, NoCallIsNoCall DEF NoCall, Kind
    <3>3. \A s \in Thread : RequestOf(op'[s]) = RequestOf(op[s])
      BY <2>0, <3>1, <3>2, SameRequest
    <3> QED BY <2>0, <3>3, StoreStays, RequestsAre
  <2>4. op' = [op EXCEPT ![t].gen = IF op[t].kind \in {"create", "import"}
                                    THEN names[op[t].addr] + 1 ELSE op[t].gen,
                         ![t].new = IF op[t].kind = "addAccount" THEN keysByAddress[op[t].addr]
                                    ELSE op[t].new]
          \/ Finish(t)
    BY <1>6, Zenon DEF Stage, Throw
  <2>5. (IF op[t].kind = "addAccount" THEN keysByAddress[op[t].addr] ELSE op[t].new) = op[t].new
    BY <2>0
  <2> QED BY <2>1, <2>3, <2>4, <2>5, Zenon
<1>7. ASSUME NEW t \in Thread, CommitDelete(t) PROVE [Abstract!Next]_<<Store, Requests>>
  <2>1. stateLock = t /\ Finish(t)
    BY <1>7 DEF CommitDelete, Throw
  <2>2. CASE UNCHANGED disk
    BY <1>2, <2>1, <2>2
  <2>3. CASE ~UNCHANGED disk
    BY <1>7, <2>3, RemovalCommits DEF Abstract!Next
  <2> QED BY <2>2, <2>3
<1>8. ASSUME NEW t \in Thread, Rename(t) PROVE [Abstract!Next]_<<Store, Requests>>
  <2>1. stateLock = t /\ Finish(t)
    BY <1>0, <1>8 DEF Rename, PcOK
  <2>2. CASE UNCHANGED disk
    BY <1>2, <2>1, <2>2
  <2>3. CASE disk' = [disk EXCEPT ![<<op[t].addr, op[t].gen>>] = op[t].new]
    BY <1>8, <2>3, RenameCommits DEF Abstract!Next
  <2> QED BY <1>8, <2>2, <2>3 DEF Rename
<1>9. ASSUME NEW t \in Thread, CommitAddKey(t) PROVE FALSE
  <2>1. op[t] # NoCall
    BY <1>9 DEF CommitAddKey, NoCall
  <2> QED BY <1>9, <2>1 DEF CommitAddKey, HostCalls
<1>10. ASSUME NEW t \in Thread, EndRead(t) PROVE [Abstract!Next]_<<Store, Requests>>
  BY <1>2, <1>10 DEF EndRead, Throw
<1>11. CASE Open \/ Outage \/ Recover \/ UNCHANGED vars
  BY <1>1, <1>11 DEF Open, Outage, Recover, vars, diskVars
<1>12. ASSUME NEW t \in Thread, BeginRead(t) \/ Lock(t) \/ Enter(t)
       PROVE  [Abstract!Next]_<<Store, Requests>>
  BY <1>1, <1>12 DEF BeginRead, Lock, Enter, diskVars
<1> QED
  BY <1>3, <1>4, <1>5, <1>6, <1>7, <1>8, <1>9, <1>10, <1>11, <1>12 DEF Next, Progress

\* Every session begins with a map from addresses to keys.
LEMMA InitRefines == Init => Abstract!Init
<1> SUFFICES ASSUME Init PROVE Abstract!Init
  OBVIOUS
<1>1. ASSUME NEW a \in Addr PROVE KeyIn(disk, a) \in Password \cup {NoKey}
  <2>1. CASE \E g \in Gen : disk[<<a, g>>] \in Password
    <3>1. PICK g \in Gen : disk[<<a, g>>] \in Password
      BY <2>1
    <3>2. \A h \in Gen : disk[<<a, h>>] \in Password => h = g
      BY <3>1, InitFilesOK DEF FilesOK, OneFilePerAddress
    <3> QED BY <3>1, <3>2, KeyOfOnlyFile
  <2>2. CASE ~ \E g \in Gen : disk[<<a, g>>] \in Password
    BY <2>2, NoKeyWithoutFile
  <2> QED BY <2>1, <2>2
<1>2. Store \in [Addr -> Password \cup {NoKey}]
  BY <1>1, StoreIsKeys
<1>3. Requests = [t \in Thread |-> Abstract!NoRequest]
  BY RequestsAre, NoCallNoRequest DEF Init
<1> QED BY <1>2, <1>3 DEF Abstract!Init, Store, Requests

\* Every call is atomic and durable: KeyStore implements AbstractKeyStore, for hosts
\* that do not overlap update(a) with delete(a) and do not use the staged calls
\* (lines 117-256, 348-407).
THEOREM CallsAreAtomicAndDurable ==
  ASSUME HandlesStayCurrent, ~StagedApi
  PROVE  Spec => CallsAreAtomic
<1>1. IInv /\ FilesOK /\ HostCalls /\ (IInv /\ FilesOK /\ HostCalls)' /\ [Next]_vars
        => [Abstract!Next]_<<[a \in Addr |-> StoredKey(a)], [t \in Thread |-> RequestOf(op[t])]>>
  BY StepRefines DEF Store, Requests
<1> QED BY <1>1, InitRefines, FilesInvariant, PTL DEF Spec, CallsAreAtomic, Abstract!Spec
=============================================================================
