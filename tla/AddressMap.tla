----------------------------- MODULE AddressMap -----------------------------
(***************************************************************************)
(* TRXAddressMapManager.swift: the map from wallet addresses to the random *)
(* UUIDs their statistics are filed under, its copy in AddressMapTable     *)
(* (TRXMetricsDBManager), and the snapshot older versions of the app left  *)
(* in UserDefaults.                                                        *)
(*                                                                         *)
(* The manager's concurrent dispatch queue runs barrier blocks one at a    *)
(* time and in the order they were submitted.  The asynchronous ones are   *)
(* the sequence `jobs`; a synchronous read or barrier submitted behind     *)
(* them waits until the sequence is empty.                                 *)
(*                                                                         *)
(* The steps that rewrite the table take the parameter `gone`: the UUIDs   *)
(* whose statistics the same database transaction deletes.                 *)
(*                                                                         *)
(* Definitions named Faulty... are seeded faults: the mutation runs put    *)
(* each in the place of the definition that follows it.                    *)
(***************************************************************************)
EXTENDS Naturals, Sequences, FiniteSets

CONSTANTS
  Addr,             \* normalised wallet addresses
  Caller,           \* the threads that call id(for:)
  NoId,             \* an address without a UUID
  NoSnapshot,       \* UserDefaults holds no usable snapshot of an older version
  LegacyPossible,   \* the installation may have been upgraded from such a version
  OldIds,           \* the number of UUIDs earlier sessions may have used
  MaxIds,           \* bound: UUIDs; UUID() never returns one twice
  MaxJobs,          \* bound: asynchronous requests of the host
  MaxExits,         \* bound: process deaths
  MaxLoadFailures,  \* bound: failed reads of AddressMapTable
  MaxWriteFailures  \* bound: failed database writes

Id == 1 .. MaxIds

ASSUME MapAssumption ==
  /\ IsFiniteSet(Addr)
  /\ OldIds \in Nat /\ MaxIds \in Nat /\ OldIds <= MaxIds
  /\ NoId \notin Id
  /\ LegacyPossible \in BOOLEAN
  /\ MaxJobs \in Nat /\ MaxExits \in Nat
  /\ MaxLoadFailures \in Nat /\ MaxWriteFailures \in Nat

VARIABLES
  table,                \* AddressMapTable
  legacy,               \* the snapshot in UserDefaults
  mapping, usedIds, persistenceDisabled,   \* the fields of the manager
  jobs,                 \* submitted asynchronous barrier blocks
  resolving,            \* each caller's progress through id(for:)
  running,              \* the process runs and the manager exists
  issued,               \* how many UUIDs were generated so far on this device
  forgotten,            \* the addresses whose UUID was given up: removed or reset since
                        \* the launch, not in the snapshot, or its migration failed
  requests, exits, loadFailures, writeFailures

memoryVars == <<mapping, usedIds, persistenceDisabled>>
boundVars  == <<requests, exits, loadFailures, writeFailures>>
mapVars == <<table, legacy, memoryVars, jobs, resolving, running, issued,
             forgotten, boundVars>>

AddressTable == [Addr -> Id \cup {NoId}]
Empty == [a \in Addr |-> NoId]
Ids(m) == {m[a] : a \in Addr} \ {NoId}
Injective(m) == \A a, b \in Addr : m[a] = m[b] /\ m[a] # NoId => a = b

\* How far a caller of id(for:) has come.
Idle == [at |-> "idle"]
Progress == {Idle} \cup [at : {"lookup", "insert"}, addr : Addr]
                  \cup [at : {"done"}, addr : Addr, id : Id]

Snapshot == [map : AddressTable, removed : SUBSET Id]
Job == [kind : {"generate", "remove", "reset"}, addrs : SUBSET Addr]

\* The table and snapshots an earlier session may have left: no UUID was ever
\* given to two addresses.
OldTables == {m \in [Addr -> 1 .. OldIds \cup {NoId}] : Injective(m)}
OldSnapshots(map) ==
  {s \in [map : OldTables, removed : SUBSET (1 .. OldIds)] :
     \A a, b \in Addr : s.map[a] # NoId /\ s.map[a] = map[b] => a = b}

Init ==
  /\ table \in OldTables
  /\ legacy \in {NoSnapshot} \cup IF LegacyPossible THEN OldSnapshots(table) ELSE {}
  /\ issued = OldIds
  /\ mapping = Empty
  /\ usedIds = {}
  /\ persistenceDisabled = FALSE
  /\ jobs = <<>>
  /\ resolving = [c \in Caller |-> Idle]
  /\ running = FALSE
  /\ forgotten = {}
  /\ requests = 0 /\ exits = 0 /\ loadFailures = 0 /\ writeFailures = 0

-----------------------------------------------------------------------------
\* saveAddressMappings: one transaction replaces the table and deletes the
\* statistics of the removed UUIDs no address of the new table uses.
Released(map, removed) == removed \ Ids(map)

Saved(map, removed, gone) ==
  /\ table' = map
  /\ gone = Released(map, removed)
  /\ UNCHANGED writeFailures

WriteFails ==
  /\ writeFailures < MaxWriteFailures
  /\ writeFailures' = writeFailures + 1

SaveFailed(gone) ==
  /\ WriteFails
  /\ gone = {}
  /\ UNCHANGED table

\* persistMapping: the removal paths rewrite the whole table, once, or not at all.
persistMapping(map, removed, gone) ==
  IF persistenceDisabled
  THEN gone = {} /\ UNCHANGED <<table, writeFailures>>
  ELSE Saved(map, removed, gone) \/ SaveFailed(gone)

\* persistNewMappings: one row at a time; a failed row is not retried.
FaultyPersistNewMappings(added) == UNCHANGED <<table, writeFailures>>
persistNewMappings(added) ==
  IF persistenceDisabled
  THEN UNCHANGED <<table, writeFailures>>
  ELSE \E failed \in SUBSET DOMAIN added :
         /\ writeFailures + Cardinality(failed) <= MaxWriteFailures
         /\ writeFailures' = writeFailures + Cardinality(failed)
         /\ table' = [a \in Addr |-> IF a \in DOMAIN added \ failed
                                     THEN added[a] ELSE table[a]]

-----------------------------------------------------------------------------
FaultyDisabledAfter(loaded) == FALSE
DisabledAfter(loaded) == ~loaded

\* TRXAddressMapManager.init: a snapshot of an older version is saved to the table
\* and dropped, whether that succeeds or not, and with it every UUID if it fails;
\* without a snapshot the table is loaded.
Launch(gone) ==
  /\ ~running
  /\ running' = TRUE
  /\ legacy' = NoSnapshot
  /\ \/ /\ legacy # NoSnapshot
        /\ persistenceDisabled' = FALSE
        /\ \/ /\ Saved(legacy.map, legacy.removed, gone)
              /\ mapping' = legacy.map
              /\ usedIds' = Ids(legacy.map)
              /\ forgotten' = {a \in Addr : legacy.map[a] = NoId}
           \/ /\ SaveFailed(gone)
              /\ forgotten' = Addr
              /\ UNCHANGED <<mapping, usedIds>>
        /\ UNCHANGED loadFailures
     \/ /\ legacy = NoSnapshot
        /\ gone = {}
        /\ \E loaded \in BOOLEAN :
             /\ ~loaded => loadFailures < MaxLoadFailures
             /\ loadFailures' = IF loaded THEN loadFailures ELSE loadFailures + 1
             /\ mapping' = IF loaded THEN table ELSE Empty
             /\ usedIds' = IF loaded THEN Ids(table) ELSE {}
             /\ persistenceDisabled' = DisabledAfter(loaded)
        /\ UNCHANGED <<table, writeFailures, forgotten>>
  /\ UNCHANGED <<jobs, resolving, issued, requests, exits>>

\* The process dies.  The table and UserDefaults stay.
Exit ==
  /\ running
  /\ exits < MaxExits
  /\ exits' = exits + 1
  /\ running' = FALSE
  /\ mapping' = Empty
  /\ usedIds' = {}
  /\ persistenceDisabled' = FALSE
  /\ jobs' = <<>>
  /\ resolving' = [c \in Caller |-> Idle]
  /\ forgotten' = {}
  /\ UNCHANGED <<table, legacy, issued, requests, loadFailures, writeFailures>>

-----------------------------------------------------------------------------
\* generateMappings, removeMapping and resetAllMappings return at once.
Request(job) ==
  /\ running
  /\ requests < MaxJobs
  /\ requests' = requests + 1
  /\ jobs' = Append(jobs, job)
  /\ UNCHANGED <<table, legacy, memoryVars, resolving, running, issued, forgotten,
                 exits, loadFailures, writeFailures>>

GenerateMappings == \E as \in SUBSET Addr : Request([kind |-> "generate", addrs |-> as])
RemoveMapping    == \E a \in Addr : Request([kind |-> "remove", addrs |-> {a}])
ResetAllMappings == Request([kind |-> "reset", addrs |-> {}])

\* New UUIDs for the addresses `as`.
FaultyNewIds(as) ==
  {f \in [as -> issued + 1 .. issued + Cardinality(as)] : issued + Cardinality(as) <= MaxIds}
NewIds(as) ==
  {f \in [as -> issued + 1 .. issued + Cardinality(as)] :
     /\ \A a, b \in as : f[a] = f[b] => a = b
     /\ issued + Cardinality(as) <= MaxIds}

Adopt(added) ==
  /\ mapping' = [a \in Addr |-> IF a \in DOMAIN added THEN added[a] ELSE mapping[a]]
  /\ usedIds' = usedIds \cup {added[a] : a \in DOMAIN added}
  /\ issued' = issued + Cardinality(DOMAIN added)
  /\ persistNewMappings(added)
  /\ UNCHANGED persistenceDisabled

RunGenerate ==
  /\ jobs # <<>> /\ Head(jobs).kind = "generate"
  /\ \E added \in NewIds({a \in Head(jobs).addrs : mapping[a] = NoId}) : Adopt(added)
  /\ jobs' = Tail(jobs)
  /\ UNCHANGED <<legacy, resolving, running, forgotten, requests, exits, loadFailures>>

FaultyRemainingIds(removed) == usedIds
RemainingIds(removed) == usedIds \ removed

RunRemove(gone) ==
  /\ jobs # <<>> /\ Head(jobs).kind = "remove"
  /\ \E a \in Head(jobs).addrs :
     /\ forgotten' = forgotten \cup {a}
     /\ IF mapping[a] = NoId
        THEN gone = {} /\ UNCHANGED <<mapping, usedIds, table, writeFailures>>
        ELSE /\ mapping' = [mapping EXCEPT ![a] = NoId]
             /\ usedIds' = RemainingIds({mapping[a]})
             /\ persistMapping(mapping', {mapping[a]}, gone)
  /\ jobs' = Tail(jobs)
  /\ UNCHANGED <<legacy, persistenceDisabled, resolving, running, issued,
                 requests, exits, loadFailures>>

RunReset(gone) ==
  /\ jobs # <<>> /\ Head(jobs).kind = "reset"
  /\ forgotten' = Addr
  /\ mapping' = Empty
  /\ usedIds' = {}
  /\ persistMapping(Empty, usedIds, gone)
  /\ jobs' = Tail(jobs)
  /\ UNCHANGED <<legacy, persistenceDisabled, resolving, running, issued,
                 requests, exits, loadFailures>>

-----------------------------------------------------------------------------
\* id(for:) looks the address up, and when it is missing comes back in a barrier.
Ask(c, a) ==
  /\ running
  /\ resolving[c] = Idle
  /\ resolving' = [resolving EXCEPT ![c] = [at |-> "lookup", addr |-> a]]
  /\ UNCHANGED <<table, legacy, memoryVars, jobs, running, issued, forgotten, boundVars>>

Answered(a, id) == [at |-> "done", addr |-> a, id |-> id]

LookUp(c) ==
  /\ resolving[c].at = "lookup"
  /\ jobs = <<>>
  /\ LET a == resolving[c].addr IN
     resolving' = [resolving EXCEPT ![c] =
       IF mapping[a] # NoId THEN Answered(a, mapping[a])
       ELSE [at |-> "insert", addr |-> a]]
  /\ UNCHANGED <<table, legacy, memoryVars, jobs, running, issued, forgotten, boundVars>>

\* Another caller may have inserted the address between the two blocks.
FaultyAlreadyMapped(a) == FALSE
FaultyNeverMissing(a) == TRUE
AlreadyMapped(a) == mapping[a] # NoId

Insert(c) ==
  /\ resolving[c].at = "insert"
  /\ jobs = <<>>
  /\ LET a == resolving[c].addr IN
     \/ /\ AlreadyMapped(a)
        /\ resolving' = [resolving EXCEPT ![c] = Answered(a, mapping[a])]
        /\ UNCHANGED <<memoryVars, issued, table, writeFailures>>
     \/ /\ ~AlreadyMapped(a)
        /\ \E added \in NewIds({a}) :
             /\ Adopt(added)
             /\ resolving' = [resolving EXCEPT ![c] = Answered(a, added[a])]
  /\ UNCHANGED <<legacy, jobs, running, forgotten, requests, exits, loadFailures>>

\* The caller has used the answer.
Done(c) ==
  /\ resolving[c].at = "done"
  /\ resolving' = [resolving EXCEPT ![c] = Idle]
  /\ UNCHANGED <<table, legacy, memoryVars, jobs, running, issued, forgotten, boundVars>>

\* The UUIDs a removal or a launch may name.
Removable == usedIds \cup IF legacy = NoSnapshot THEN {} ELSE legacy.removed

Next ==
  \/ \E gone \in SUBSET Removable : Launch(gone) \/ RunRemove(gone) \/ RunReset(gone)
  \/ Exit \/ RunGenerate
  \/ GenerateMappings \/ RemoveMapping \/ ResetAllMappings
  \/ \E c \in Caller : \/ \E a \in Addr : Ask(c, a)
                       \/ LookUp(c) \/ Insert(c) \/ Done(c)

MapSpec == Init /\ [][Next]_mapVars

-----------------------------------------------------------------------------
\* Every variable stays in its range.
MapTypeOK ==
  /\ table \in AddressTable
  /\ legacy \in Snapshot \cup {NoSnapshot}
  /\ mapping \in AddressTable
  /\ usedIds \subseteq Id /\ issued \in 0 .. MaxIds
  /\ persistenceDisabled \in BOOLEAN /\ running \in BOOLEAN
  /\ jobs \in Seq(Job)
  /\ resolving \in [Caller -> Progress]
  /\ forgotten \subseteq Addr
  /\ requests \in Nat /\ exits \in Nat /\ loadFailures \in Nat /\ writeFailures \in Nat

\* Two wallets never share a UUID, in memory or in the table a later launch will
\* load, through lost writes, removals and regeneration (lines 73-75, 97-101).
OneAddressPerId == Injective(mapping) /\ Injective(table)

\* usedIds is what resetAllMappings takes for the UUIDs whose statistics must go
\* (line 118): it names every UUID in use and none that was given up.
UsedIdsExact == usedIds = Ids(mapping)

\* Callers that race through id(for:) for a new address get one UUID: an answer
\* whose UUID is still in use is the UUID the address is mapped to (lines 88-104).
AnswersAgree ==
  \A c \in Caller :
    resolving[c].at = "done" /\ resolving[c].id \in usedIds =>
      mapping[resolving[c].addr] = resolving[c].id

\* Only forgetting an address takes its row out of the table or changes it: "a full
\* save from an empty map would delete the mappings that are still on disk and
\* orphan their metrics permanently" (lines 54-56).
MappingsSurvive ==
  [][\A a \in Addr : running /\ table[a] # NoId /\ table'[a] # table[a] => a \in forgotten']_mapVars
=============================================================================
