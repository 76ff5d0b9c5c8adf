-------------------------- MODULE AddressMapProofs --------------------------
(***************************************************************************)
(* Proofs about AddressMap, for every set of addresses and callers and     *)
(* every value of the bounds.                                              *)
(*                                                                         *)
(* MapInv is the inductive invariant.  The four properties it contains are *)
(* not inductive by themselves: a fresh UUID is fresh only because every   *)
(* UUID in memory, on disk, in the snapshot or in an answer was generated  *)
(* before (IdsIssued); a launch adopts the table or the snapshot and finds *)
(* no call in progress (SnapshotInjective, IdleUntilLaunch); and a removal *)
(* rewrites the table from memory, which is harmless only while memory     *)
(* holds every row that was not forgotten (RowsRemembered).                *)
(***************************************************************************)
EXTENDS AddressMap, TLAPS, FiniteSetTheorems

USE DEF Progress

UpTo(m, n) == \A a \in Addr : m[a] # NoId => m[a] <= n

SnapshotInjective == legacy # NoSnapshot => Injective(legacy.map)

IdsIssued ==
  /\ UpTo(mapping, issued) /\ UpTo(table, issued)
  /\ legacy # NoSnapshot => UpTo(legacy.map, issued)
  /\ \A c \in Caller : resolving[c].at = "done" => resolving[c].id <= issued

IdleUntilLaunch == ~running => jobs = <<>> /\ \A c \in Caller : resolving[c] = Idle

RowsRemembered ==
  running /\ ~persistenceDisabled =>
    \A a \in Addr : table[a] # NoId => mapping[a] = table[a] \/ a \in forgotten

MapInv ==
  /\ MapTypeOK
  /\ OneAddressPerId /\ UsedIdsExact /\ AnswersAgree
  /\ SnapshotInjective /\ IdsIssued /\ IdleUntilLaunch /\ RowsRemembered
-----------------------------------------------------------------------------
\* The initial states satisfy MapInv.
LEMMA InitMapInv == Init => MapInv
<1> SUFFICES ASSUME Init PROVE MapInv
  OBVIOUS
<1> USE MapAssumption DEF Init
<1>1. 1 .. OldIds \subseteq Id /\ NoId \notin 1 .. OldIds
  BY DEF Id
<1>2. /\ table \in [Addr -> 1 .. OldIds \cup {NoId}]
      /\ Injective(table)
  BY DEF OldTables
<1>3. legacy # NoSnapshot => /\ legacy \in [map : OldTables, removed : SUBSET (1 .. OldIds)]
                             /\ legacy.map \in [Addr -> 1 .. OldIds \cup {NoId}]
                             /\ Injective(legacy.map)
  BY DEF OldSnapshots, OldTables
<1>4. MapTypeOK
  <2>1. table \in AddressTable
    BY <1>1, <1>2 DEF AddressTable
  <2>2. legacy \in Snapshot \cup {NoSnapshot}
    <3> SUFFICES ASSUME legacy # NoSnapshot PROVE legacy \in Snapshot
      OBVIOUS
    <3>1. OldTables \subseteq AddressTable /\ SUBSET (1 .. OldIds) \subseteq SUBSET Id
      BY <1>1 DEF OldTables, AddressTable
    <3> QED BY <1>3, <3>1 DEF Snapshot
  <2>3. mapping \in AddressTable
    BY DEF AddressTable, Empty
  <2>4. jobs \in Seq(Job)
    OBVIOUS
  <2>5. resolving \in [Caller -> Progress]
    OBVIOUS
  <2>6. issued \in 0 .. MaxIds
    OBVIOUS
  <2>7. forgotten \subseteq Addr /\ usedIds \subseteq Id
    OBVIOUS
  <2>8. requests \in Nat /\ exits \in Nat /\ loadFailures \in Nat /\ writeFailures \in Nat
    OBVIOUS
  <2> HIDE MapAssumption DEF Init
  <2>9. persistenceDisabled \in BOOLEAN /\ running \in BOOLEAN
    BY DEF Init
  <2> QED BY <2>1, <2>2, <2>3, <2>4, <2>5, <2>6, <2>7, <2>8, <2>9 DEF MapTypeOK
<1>5. OneAddressPerId /\ UsedIdsExact
  BY <1>2 DEF OneAddressPerId, UsedIdsExact, Injective, Ids, Empty
<1>6. AnswersAgree /\ IdleUntilLaunch /\ RowsRemembered
  BY DEF AnswersAgree, IdleUntilLaunch, RowsRemembered, Idle
<1>7. SnapshotInjective
  BY <1>3 DEF SnapshotInjective
<1>8. IdsIssued
  BY <1>2, <1>3 DEF IdsIssued, UpTo, Empty, Idle
<1> QED BY <1>4, <1>5, <1>6, <1>7, <1>8 DEF MapInv

-----------------------------------------------------------------------------
(***************************************************************************)
(* New UUIDs                                                               *)
(***************************************************************************)

\* A number of the n numbers after i, when they end at m or before.
LEMMA NextNumbers ==
  ASSUME NEW i \in Nat, NEW n \in Nat, NEW m \in Nat, i + n <= m, NEW x \in i + 1 .. i + n
  PROVE  x \in 1 .. m /\ x > i /\ x <= i + n
OBVIOUS

\* The sum of two natural numbers below m.
LEMMA SumInRange ==
  ASSUME NEW i \in Nat, NEW n \in Nat, NEW m \in Nat, i + n <= m
  PROVE  i + n \in 0 .. m /\ i <= i + n /\ i + n \in Nat
OBVIOUS

\* The UUIDs generated for the addresses `as` are new and all different.
LEMMA NewIdsAreNew ==
  ASSUME MapTypeOK, NEW as \in SUBSET Addr, NEW added \in NewIds(as)
  PROVE  /\ added \in [as -> Id] /\ DOMAIN added = as
         /\ \A a \in as : added[a] # NoId /\ added[a] > issued /\ added[a] <= issued + Cardinality(as)
         /\ \A a, b \in as : added[a] = added[b] => a = b
         /\ issued + Cardinality(as) \in 0 .. MaxIds
         /\ issued + Cardinality(as) \in Nat /\ issued <= issued + Cardinality(as)
<1>1. Cardinality(as) \in Nat
  BY MapAssumption, FS_Subset, FS_CardinalityType
<1>2. issued \in Nat /\ MaxIds \in Nat
  BY MapAssumption DEF MapTypeOK
<1>3. /\ added \in [as -> issued + 1 .. issued + Cardinality(as)]
      /\ \A a, b \in as : added[a] = added[b] => a = b
      /\ issued + Cardinality(as) <= MaxIds
  BY DEF NewIds
<1>4. ASSUME NEW a \in as
      PROVE  added[a] \in Id /\ added[a] > issued /\ added[a] <= issued + Cardinality(as)
  <2>1. added[a] \in issued + 1 .. issued + Cardinality(as)
    BY <1>3
  <2> QED BY <1>1, <1>2, <1>3, <2>1, NextNumbers DEF Id
<1>5. added \in [as -> Id] /\ DOMAIN added = as
  BY <1>3, <1>4
<1>6. \A a \in as : added[a] # NoId
  BY <1>4, MapAssumption
<1>7. /\ issued + Cardinality(as) \in 0 .. MaxIds
      /\ issued + Cardinality(as) \in Nat /\ issued <= issued + Cardinality(as)
  BY <1>1, <1>2, <1>3, SumInRange
<1> QED BY <1>1, <1>3, <1>4, <1>5, <1>6, <1>7

\* Adopting new UUIDs for addresses without one keeps MapInv, whichever rows could
\* not be written, if the answers given to callers are the old ones or one of the
\* adopted UUIDs.
LEMMA AdoptKeepsMapInv ==
  ASSUME MapInv, NEW as \in SUBSET Addr, NEW added \in NewIds(as),
         \A a \in as : mapping[a] = NoId,
         Adopt(added),
         UNCHANGED <<legacy, running, forgotten>>,
         running,
         requests' \in Nat, exits' \in Nat, loadFailures' \in Nat,
         jobs' \in Seq(Job),
         resolving' \in [Caller -> Progress],
         \A c \in Caller :
           \/ resolving'[c] = resolving[c]
           \/ resolving'[c].at # "done"
           \/ \E a \in as : resolving'[c].addr = a /\ resolving'[c].id = added[a]
  PROVE  MapInv'
<1> USE DEF MapInv
<1>1. added \in [as -> Id] /\ DOMAIN added = as
  BY NewIdsAreNew
<1>2. /\ mapping' = [a \in Addr |-> IF a \in as THEN added[a] ELSE mapping[a]]
      /\ usedIds' = usedIds \cup {added[a] : a \in as}
      /\ UNCHANGED persistenceDisabled
  BY <1>1 DEF Adopt
<1>3. /\ issued \in Nat /\ issued' \in 0 .. MaxIds /\ issued <= issued' /\ issued' \in Nat
      /\ \A a \in as : added[a] > issued /\ added[a] <= issued' /\ added[a] # NoId
      /\ \A a, b \in as : added[a] = added[b] => a = b
  <2>1. issued' = issued + Cardinality(as) /\ issued \in Nat
    BY <1>1, MapAssumption DEF Adopt, MapTypeOK
  <2>2. /\ issued + Cardinality(as) \in 0 .. MaxIds
        /\ issued + Cardinality(as) \in Nat /\ issued <= issued + Cardinality(as)
    BY NewIdsAreNew
  <2>3. /\ \A a \in as : added[a] # NoId /\ added[a] > issued /\ added[a] <= issued + Cardinality(as)
        /\ \A a, b \in as : added[a] = added[b] => a = b
    BY NewIdsAreNew
  <2> QED BY <2>1, <2>2, <2>3
<1>4. /\ table \in AddressTable /\ mapping \in AddressTable /\ usedIds \subseteq Id
      /\ \A n \in Id : n \in Nat
  BY DEF MapTypeOK, Id
<1>a. PICK written \in SUBSET as :
        /\ table' = [a \in Addr |-> IF a \in written THEN added[a] ELSE table[a]]
        /\ writeFailures' \in Nat
  <2>0. writeFailures \in Nat
    BY DEF MapTypeOK
  <2>1. CASE persistenceDisabled
    <3>1. table' = table /\ writeFailures' = writeFailures
      BY <2>1 DEF Adopt, persistNewMappings
    <3>2. table' = [a \in Addr |-> IF a \in {} THEN added[a] ELSE table[a]]
      BY <3>1, <1>4 DEF AddressTable
    <3>3. {} \in SUBSET as /\ writeFailures' \in Nat
      BY <3>1, <2>0
    <3> QED BY <3>2, <3>3
  <2>2. CASE ~persistenceDisabled
    <3>1. PICK failed \in SUBSET DOMAIN added :
            /\ writeFailures' = writeFailures + Cardinality(failed)
            /\ table' = [a \in Addr |-> IF a \in DOMAIN added \ failed THEN added[a] ELSE table[a]]
      BY <2>2 DEF Adopt, persistNewMappings
    <3>2. Cardinality(failed) \in Nat
      BY <1>1, MapAssumption, FS_Subset, FS_CardinalityType
    <3>3. writeFailures' \in Nat
      BY <2>0, <3>1, <3>2
    <3>4. as \ failed \in SUBSET as
      OBVIOUS
    <3>5. table' = [a \in Addr |-> IF a \in as \ failed THEN added[a] ELSE table[a]]
      BY <3>1, <1>1
    <3> QED BY <3>3, <3>4, <3>5
  <2> QED BY <2>1, <2>2
<1>5. MapTypeOK'
  <2>1. mapping' \in AddressTable /\ table' \in AddressTable
    BY <1>1, <1>2, <1>4, <1>a DEF AddressTable
  <2>2. {added[a] : a \in as} \subseteq Id
    BY <1>1
  <2>3. usedIds' \subseteq Id
    BY <1>2, <1>4, <2>2
  <2>4. issued' \in 0 .. MaxIds
    BY <1>3
  <2> QED BY <1>2, <1>a, <2>1, <2>3, <2>4 DEF MapTypeOK
<1>6. UpTo(mapping, issued) /\ UpTo(table, issued)
  BY DEF IdsIssued
<1>7. OneAddressPerId'
  <2>1. Injective(mapping)'
    <3> SUFFICES ASSUME NEW a \in Addr, NEW b \in Addr, mapping'[a] = mapping'[b], mapping'[a] # NoId
                 PROVE  a = b
      BY DEF Injective
    <3>1. CASE a \in as /\ b \in as
      BY <3>1, <1>2, <1>3
    <3>2. CASE a \notin as /\ b \notin as
      BY <3>2, <1>2 DEF OneAddressPerId, Injective
    <3>3. ASSUME NEW x \in as, NEW y \in Addr \ as, mapping[y] # NoId
          PROVE  added[x] # mapping[y]
      <4>1. mapping[y] \in Nat /\ mapping[y] <= issued
        BY <3>3, <1>4, <1>6 DEF UpTo, AddressTable
      <4>2. added[x] \in Nat /\ added[x] > issued
        BY <1>1, <1>3, <1>4
      <4> QED BY <4>1, <4>2, <1>3
    <3>4. CASE (a \in as /\ b \notin as) \/ (a \notin as /\ b \in as)
      BY <3>3, <3>4, <1>2
    <3> QED BY <3>1, <3>2, <3>4
  <2>2. Injective(table)'
    <3> SUFFICES ASSUME NEW a \in Addr, NEW b \in Addr, table'[a] = table'[b], table'[a] # NoId
                 PROVE  a = b
      BY DEF Injective
    <3>1. CASE a \in written /\ b \in written
      BY <3>1, <1>3, <1>a
    <3>2. CASE a \notin written /\ b \notin written
      BY <3>2, <1>a DEF OneAddressPerId, Injective
    <3>3. ASSUME NEW x \in written, NEW y \in Addr \ written, table[y] # NoId
          PROVE  added[x] # table[y]
      <4>1. table[y] \in Nat /\ table[y] <= issued
        BY <3>3, <1>4, <1>6 DEF UpTo, AddressTable
      <4>2. added[x] \in Nat /\ added[x] > issued
        BY <1>1, <1>3, <1>4
      <4> QED BY <4>1, <4>2, <1>3
    <3>4. CASE (a \in written /\ b \notin written) \/ (a \notin written /\ b \in written)
      BY <3>3, <3>4, <1>a
    <3> QED BY <3>1, <3>2, <3>4
  <2> QED BY <2>1, <2>2 DEF OneAddressPerId
<1>8. UsedIdsExact'
  <2>1. ASSUME NEW x PROVE x \in Ids(mapping') <=> x \in Ids(mapping) \/ \E a \in as : x = added[a]
    <3>1. \A a \in as : mapping'[a] = added[a] /\ added[a] # NoId
      BY <1>2, <1>3
    <3>2. \A a \in Addr \ as : mapping'[a] = mapping[a]
      BY <1>2
    <3>3. ASSUME x \in Ids(mapping') PROVE x \in Ids(mapping) \/ \E a \in as : x = added[a]
      <4>1. PICK b \in Addr : x = mapping'[b] /\ mapping'[b] # NoId
        BY <3>3 DEF Ids
      <4>2. CASE b \in as
        BY <3>1, <4>1, <4>2
      <4>3. CASE b \notin as
        BY <3>2, <4>1, <4>3 DEF Ids
      <4> QED BY <4>2, <4>3
    <3>4. ASSUME NEW a \in as, x = added[a] PROVE x \in Ids(mapping')
      BY <3>1, <3>4 DEF Ids
    <3>5. ASSUME x \in Ids(mapping) PROVE x \in Ids(mapping')
      <4>1. PICK b \in Addr : x = mapping[b] /\ mapping[b] # NoId
        BY <3>5 DEF Ids
      <4> QED BY <3>2, <4>1 DEF Ids
    <3> QED BY <3>3, <3>4, <3>5
  <2>2. Ids(mapping') = Ids(mapping) \cup {added[a] : a \in as}
    BY <2>1
  <2> QED BY <2>2, <1>2 DEF UsedIdsExact, Ids
<1>9. IdsIssued'
  <2>1. UpTo(mapping', issued') /\ UpTo(table', issued')
    <3>1. ASSUME NEW m, m \in AddressTable, UpTo(m, issued), NEW as0 \in SUBSET as,
                 NEW a \in Addr,
                 (IF a \in as0 THEN added[a] ELSE m[a]) # NoId
          PROVE  (IF a \in as0 THEN added[a] ELSE m[a]) <= issued'
      <4>1. CASE a \in as0
        BY <4>1, <1>3
      <4>2. CASE a \notin as0
        <5>1. m[a] \in Nat /\ m[a] <= issued
          BY <3>1, <4>2, <1>4 DEF UpTo, AddressTable
        <5> QED BY <4>2, <5>1, <1>3
      <4> QED BY <4>1, <4>2
    <3> QED BY <3>1, <1>2, <1>4, <1>6, <1>a DEF UpTo
  <2>2. legacy' # NoSnapshot => UpTo(legacy'.map, issued')
    <3> SUFFICES ASSUME legacy # NoSnapshot PROVE UpTo(legacy.map, issued')
      OBVIOUS
    <3>1. legacy.map \in AddressTable /\ UpTo(legacy.map, issued)
      BY DEF MapTypeOK, Snapshot, IdsIssued
    <3>2. \A a \in Addr : legacy.map[a] # NoId => legacy.map[a] \in Nat /\ legacy.map[a] <= issued
      BY <3>1, <1>4 DEF UpTo, AddressTable
    <3> QED BY <3>2, <1>3 DEF UpTo
  <2>3. ASSUME NEW c \in Caller, resolving'[c].at = "done"
        PROVE  resolving'[c].id <= issued'
    <3>1. CASE resolving'[c] = resolving[c]
      <4>1. resolving[c].id \in Id /\ resolving[c].id <= issued
        BY <2>3, <3>1 DEF MapTypeOK, IdsIssued, Idle
      <4> QED BY <3>1, <4>1, <1>3, <1>4
    <3>2. CASE resolving'[c] # resolving[c]
      BY <2>3, <3>2, <1>3
    <3> QED BY <3>1, <3>2
  <2> QED BY <2>1, <2>2, <2>3 DEF IdsIssued, UpTo
<1>10. AnswersAgree'
  <2> SUFFICES ASSUME NEW c \in Caller, resolving'[c].at = "done", resolving'[c].id \in usedIds'
               PROVE  mapping'[resolving'[c].addr] = resolving'[c].id
    BY DEF AnswersAgree
  <2>1. CASE resolving'[c] = resolving[c]
    <3>1. resolving[c].id \in Id /\ resolving[c].id <= issued /\ resolving[c].addr \in Addr
      BY <2>1 DEF MapTypeOK, IdsIssued, Idle
    <3>2. resolving[c].id \in usedIds
      <4>1. ASSUME NEW a \in as PROVE added[a] # resolving[c].id
        <5>1. added[a] \in Nat /\ added[a] > issued /\ resolving[c].id \in Nat
          BY <3>1, <1>1, <1>3, <1>4
        <5> QED BY <3>1, <5>1, <1>3
      <4> QED BY <2>1, <4>1, <1>2
    <3>3. mapping[resolving[c].addr] = resolving[c].id
      BY <2>1, <3>2 DEF AnswersAgree
    <3>4. resolving[c].addr \notin as
      BY <3>1, <3>3, MapAssumption
    <3> QED BY <2>1, <3>1, <3>3, <3>4, <1>2
  <2>2. CASE resolving'[c] # resolving[c]
    BY <2>2, <1>2
  <2> QED BY <2>1, <2>2
<1>11. RowsRemembered'
  BY <1>2, <1>a DEF RowsRemembered
<1>12. SnapshotInjective' /\ IdleUntilLaunch'
  BY DEF SnapshotInjective, IdleUntilLaunch
<1> QED BY <1>5, <1>7, <1>8, <1>9, <1>10, <1>11, <1>12

-----------------------------------------------------------------------------
(***************************************************************************)
(* The actions                                                             *)
(***************************************************************************)

LEMMA LaunchKeepsMapInv ==
  ASSUME MapInv, NEW gone, Launch(gone)
  PROVE  MapInv'
<1> USE DEF MapInv
<1>1. /\ ~running /\ running' /\ legacy' = NoSnapshot
      /\ UNCHANGED <<jobs, resolving, issued, requests, exits>>
      /\ jobs = <<>> /\ \A c \in Caller : resolving[c] = Idle
  BY DEF Launch, IdleUntilLaunch
<1>2. AnswersAgree' /\ IdleUntilLaunch' /\ SnapshotInjective'
  BY <1>1 DEF AnswersAgree, IdleUntilLaunch, SnapshotInjective, Idle
<1>3. \A c \in Caller : resolving'[c].at # "done"
  BY <1>1 DEF Idle
<1>4. legacy # NoSnapshot =>
        /\ legacy.map \in AddressTable /\ Injective(legacy.map) /\ UpTo(legacy.map, issued)
  BY DEF MapTypeOK, Snapshot, SnapshotInjective, IdsIssued
<1>5. /\ table' \in {table, legacy.map} /\ mapping' \in {mapping, Empty, table', table}
      /\ table' = legacy.map => legacy # NoSnapshot \/ table' = table
      /\ usedIds' = Ids(mapping') /\ persistenceDisabled' \in BOOLEAN
      /\ forgotten' \subseteq Addr /\ loadFailures' \in Nat /\ writeFailures' \in Nat
      /\ ~persistenceDisabled' => mapping' = table' \/ forgotten' = Addr
  <2>1. /\ loadFailures \in Nat /\ writeFailures \in Nat /\ forgotten \subseteq Addr
        /\ usedIds = Ids(mapping) /\ Ids(Empty) = {}
    BY DEF MapTypeOK, UsedIdsExact, Ids, Empty
  <2>2. CASE legacy # NoSnapshot
    <3>1. CASE Saved(legacy.map, legacy.removed, gone) /\ mapping' = legacy.map
               /\ usedIds' = Ids(legacy.map) /\ forgotten' = {a \in Addr : legacy.map[a] = NoId}
      BY <2>1, <2>2, <3>1 DEF Launch, Saved
    <3>2. CASE SaveFailed(gone) /\ forgotten' = Addr /\ UNCHANGED <<mapping, usedIds>>
      <4>1. writeFailures' \in Nat /\ table' = table
        BY <2>1, <3>2 DEF SaveFailed, WriteFails
      <4>2. persistenceDisabled' = FALSE /\ loadFailures' = loadFailures
        BY <2>2 DEF Launch
      <4> QED BY <2>1, <3>2, <4>1, <4>2
    <3> QED BY <2>2, <3>1, <3>2 DEF Launch
  <2>3. CASE legacy = NoSnapshot
    <3>1. PICK loaded \in BOOLEAN :
            /\ loadFailures' = IF loaded THEN loadFailures ELSE loadFailures + 1
            /\ mapping' = IF loaded THEN table ELSE Empty
            /\ usedIds' = IF loaded THEN Ids(table) ELSE {}
            /\ persistenceDisabled' = ~loaded
            /\ UNCHANGED <<table, writeFailures, forgotten>>
      BY <2>3 DEF Launch, DisabledAfter
    <3>2. CASE loaded = TRUE
      BY <2>1, <3>1, <3>2
    <3>3. CASE loaded = FALSE
      <4>1. loadFailures' \in Nat
        BY <2>1, <3>1, <3>3
      <4> QED BY <2>1, <3>1, <3>3, <4>1
    <3> QED BY <3>2, <3>3
  <2> QED BY <2>2, <2>3
<1>6. /\ table' \in AddressTable /\ Injective(table') /\ UpTo(table', issued)
      /\ mapping' \in AddressTable /\ Injective(mapping') /\ UpTo(mapping', issued)
  <2>1. Empty \in AddressTable /\ Injective(Empty) /\ UpTo(Empty, issued)
    BY DEF Empty, AddressTable, Injective, UpTo
  <2>2. /\ table \in AddressTable /\ Injective(table) /\ UpTo(table, issued)
        /\ mapping \in AddressTable /\ Injective(mapping) /\ UpTo(mapping, issued)
    BY DEF MapTypeOK, OneAddressPerId, IdsIssued
  <2>3. table' \in AddressTable /\ Injective(table') /\ UpTo(table', issued)
    BY <1>4, <1>5, <2>2
  <2> QED BY <1>5, <2>1, <2>2, <2>3
<1>7. MapTypeOK'
  <2>1. Ids(mapping') \subseteq Id
    BY <1>6 DEF Ids, AddressTable
  <2> QED BY <1>1, <1>5, <1>6, <2>1 DEF MapTypeOK
<1>8. OneAddressPerId' /\ UsedIdsExact'
  BY <1>5, <1>6 DEF OneAddressPerId, UsedIdsExact, Injective, Ids
<1>9. IdsIssued'
  BY <1>1, <1>3, <1>6 DEF IdsIssued, UpTo
<1>10. RowsRemembered'
  BY <1>5 DEF RowsRemembered
<1> QED BY <1>2, <1>7, <1>8, <1>9, <1>10

\* So does a process death.
LEMMA ExitKeepsMapInv ==
  ASSUME MapInv, Exit
  PROVE  MapInv'
<1> USE DEF MapInv
<1>1. /\ table' = table /\ legacy' = legacy /\ issued' = issued
      /\ mapping' = Empty /\ usedIds' = {} /\ persistenceDisabled' = FALSE /\ ~running'
      /\ jobs' = <<>> /\ resolving' = [c \in Caller |-> Idle] /\ forgotten' = {}
      /\ requests' = requests /\ exits' = exits + 1
      /\ loadFailures' = loadFailures /\ writeFailures' = writeFailures
  BY DEF Exit
<1>2. MapTypeOK'
  <2>1. mapping' \in AddressTable
    BY <1>1 DEF Empty, AddressTable
  <2>2. resolving' \in [Caller -> Progress]
    BY <1>1
  <2>3. jobs' \in Seq(Job) /\ exits' \in Nat
    BY <1>1 DEF MapTypeOK
  <2>4. /\ table' \in AddressTable /\ legacy' \in Snapshot \cup {NoSnapshot}
        /\ issued' \in 0 .. MaxIds /\ usedIds' \subseteq Id /\ forgotten' \subseteq Addr
        /\ requests' \in Nat /\ loadFailures' \in Nat /\ writeFailures' \in Nat
    BY <1>1 DEF MapTypeOK
  <2>5. persistenceDisabled' \in BOOLEAN /\ running' \in BOOLEAN
    BY Zenon DEF Exit
  <2> QED BY <2>1, <2>2, <2>3, <2>4, <2>5 DEF MapTypeOK
<1>3. OneAddressPerId' /\ UsedIdsExact'
  BY <1>1 DEF OneAddressPerId, UsedIdsExact, Injective, Ids, Empty
<1>4. AnswersAgree' /\ IdleUntilLaunch' /\ RowsRemembered'
  BY <1>1 DEF AnswersAgree, IdleUntilLaunch, RowsRemembered, Idle
<1>5. SnapshotInjective'
  BY <1>1 DEF SnapshotInjective, Injective
<1>6. IdsIssued'
  BY <1>1 DEF IdsIssued, UpTo, Empty, Idle
<1> QED BY <1>2, <1>3, <1>4, <1>5, <1>6

\* The actions that submit a block or move a caller change jobs and resolving only.
LEMMA CallsKeepMapInv ==
  ASSUME MapInv, running,
         UNCHANGED <<table, legacy, mapping, usedIds, persistenceDisabled, running, issued,
                     forgotten, exits, loadFailures, writeFailures>>,
         requests' \in Nat, jobs' \in Seq(Job),
         resolving' \in [Caller -> Progress],
         \A c \in Caller :
           \/ resolving'[c] = resolving[c]
           \/ resolving'[c].at # "done"
           \/ mapping[resolving'[c].addr] # NoId /\ resolving'[c].id = mapping[resolving'[c].addr]
  PROVE  MapInv'
<1> USE DEF MapInv
<1>1. MapTypeOK'
  BY DEF MapTypeOK
<1>2. OneAddressPerId' /\ UsedIdsExact' /\ SnapshotInjective' /\ IdleUntilLaunch' /\ RowsRemembered'
  BY DEF OneAddressPerId, UsedIdsExact, SnapshotInjective, IdleUntilLaunch, RowsRemembered,
         Injective, Ids
<1>3. AnswersAgree'
  BY DEF AnswersAgree
<1>4. IdsIssued'
  <2>1. ASSUME NEW c \in Caller, resolving'[c].at = "done" PROVE resolving'[c].id <= issued
    <3>1. resolving'[c].addr \in Addr
      BY <2>1 DEF Idle
    <3> QED BY <2>1, <3>1 DEF IdsIssued, UpTo
  <2> QED BY <2>1 DEF IdsIssued, UpTo
<1> QED BY <1>1, <1>2, <1>3, <1>4

\* So does submitting a barrier block.
LEMMA RequestKeepsMapInv ==
  ASSUME MapInv, NEW job \in Job, Request(job)
  PROVE  MapInv'
<1>1. requests' \in Nat /\ jobs' \in Seq(Job)
  BY DEF Request, MapInv, MapTypeOK
<1>2. /\ running
      /\ UNCHANGED <<table, legacy, mapping, usedIds, persistenceDisabled, running, issued,
                     forgotten, exits, loadFailures, writeFailures>>
      /\ resolving' = resolving
  BY DEF Request, memoryVars
<1>3. resolving' \in [Caller -> Progress]
  BY <1>2 DEF MapInv, MapTypeOK
<1> QED BY <1>1, <1>2, <1>3, CallsKeepMapInv

\* A batch of new UUIDs keeps it.
LEMMA RunGenerateKeepsMapInv ==
  ASSUME MapInv, RunGenerate
  PROVE  MapInv'
<1> USE DEF MapInv
<1> DEFINE as == {a \in Head(jobs).addrs : mapping[a] = NoId}
<1>1. /\ jobs # <<>> /\ jobs' = Tail(jobs)
      /\ UNCHANGED <<legacy, resolving, running, forgotten, requests, exits, loadFailures>>
  BY DEF RunGenerate
<1>2. PICK added \in NewIds(as) : Adopt(added)
  BY DEF RunGenerate
<1>3. Head(jobs) \in Job /\ jobs' \in Seq(Job)
  BY <1>1 DEF MapTypeOK
<1>4. as \in SUBSET Addr /\ \A a \in as : mapping[a] = NoId
  BY <1>3 DEF Job
<1>5. running
  BY <1>1 DEF IdleUntilLaunch, MapTypeOK
<1>6. /\ requests' \in Nat /\ exits' \in Nat /\ loadFailures' \in Nat
      /\ resolving' \in [Caller -> Progress]
  BY <1>1 DEF MapTypeOK
<1> HIDE DEF as
<1>7. UNCHANGED <<legacy, running, forgotten>> /\ \A c \in Caller : resolving'[c] = resolving[c]
  BY <1>1
<1> QED BY <1>2, <1>3, <1>4, <1>5, <1>6, <1>7, AdoptKeepsMapInv

\* A rewrite of the table from memory, or a failed one, keeps MapInv when memory
\* only gives up the UUIDs of the addresses `as` and these are noted as forgotten.
LEMMA ForgetKeepsMapInv ==
  ASSUME MapInv, running, NEW as \in SUBSET Addr,
         mapping' = [a \in Addr |-> IF a \in as THEN NoId ELSE mapping[a]],
         usedIds' = Ids(mapping'),
         table' = table \/ (table' = mapping' /\ ~persistenceDisabled),
         forgotten' = forgotten \cup as,
         UNCHANGED <<legacy, persistenceDisabled, resolving, running, issued,
                     requests, exits, loadFailures>>,
         writeFailures' \in Nat, jobs' \in Seq(Job)
  PROVE  MapInv'
<1> USE DEF MapInv
<1>1. /\ mapping \in AddressTable /\ table \in AddressTable
      /\ mapping' \in AddressTable /\ table' \in AddressTable
  BY DEF MapTypeOK, AddressTable
<1>2. /\ Injective(mapping) /\ UpTo(mapping, issued) /\ Injective(table) /\ UpTo(table, issued)
  BY DEF OneAddressPerId, IdsIssued
<1>3. \A a \in Addr : mapping'[a] # NoId => a \notin as /\ mapping'[a] = mapping[a]
  OBVIOUS
<1>4. Injective(mapping') /\ UpTo(mapping', issued)
  BY <1>2, <1>3 DEF Injective, UpTo
<1>5. Injective(table') /\ UpTo(table', issued)
  BY <1>2, <1>4
<1>6. MapTypeOK'
  <2>1. usedIds' \subseteq Id
    BY <1>1 DEF Ids, AddressTable
  <2>2. forgotten' \subseteq Addr
    BY DEF MapTypeOK
  <2> QED BY <1>1, <2>1, <2>2 DEF MapTypeOK
<1>7. OneAddressPerId' /\ UsedIdsExact'
  BY <1>4, <1>5 DEF OneAddressPerId, UsedIdsExact, Injective, Ids
<1>8. AnswersAgree'
  <2> SUFFICES ASSUME NEW c \in Caller, resolving[c].at = "done", resolving[c].id \in usedIds'
               PROVE  mapping'[resolving[c].addr] = resolving[c].id
    BY DEF AnswersAgree
  <2>1. PICK b \in Addr : mapping'[b] = resolving[c].id /\ mapping'[b] # NoId
    BY DEF Ids
  <2>2. mapping[b] = resolving[c].id /\ mapping[b] # NoId /\ resolving[c].id \in usedIds
    BY <1>3, <2>1 DEF UsedIdsExact, Ids
  <2>3. mapping[resolving[c].addr] = resolving[c].id /\ resolving[c].addr \in Addr
    BY <2>2 DEF AnswersAgree, MapTypeOK, Idle
  <2> QED BY <1>2, <2>1, <2>2, <2>3 DEF Injective
<1>9. SnapshotInjective' /\ IdleUntilLaunch'
  BY DEF SnapshotInjective, IdleUntilLaunch, Injective
<1>10. IdsIssued'
  BY <1>4, <1>5 DEF IdsIssued, UpTo
<1>11. RowsRemembered'
  BY <1>3 DEF RowsRemembered
<1> QED BY <1>6, <1>7, <1>8, <1>9, <1>10, <1>11

\* persistMapping writes the new contents of memory or leaves the table alone.
LEMMA PersistMappingResult ==
  ASSUME MapTypeOK, NEW map, NEW removed, NEW gone, persistMapping(map, removed, gone)
  PROVE  /\ table' = table \/ (table' = map /\ ~persistenceDisabled)
         /\ writeFailures' \in Nat
<1>1. writeFailures \in Nat
  BY DEF MapTypeOK
<1> QED BY <1>1 DEF persistMapping, Saved, SaveFailed, WriteFails

\* So does a removal.
LEMMA RunRemoveKeepsMapInv ==
  ASSUME MapInv, NEW gone, RunRemove(gone)
  PROVE  MapInv'
<1> USE DEF MapInv
<1>1. /\ jobs # <<>> /\ jobs' = Tail(jobs)
      /\ UNCHANGED <<legacy, persistenceDisabled, resolving, running, issued,
                     requests, exits, loadFailures>>
  BY DEF RunRemove
<1>2. Head(jobs) \in Job /\ jobs' \in Seq(Job)
  BY <1>1 DEF MapTypeOK
<1>3. running
  BY <1>1 DEF IdleUntilLaunch, MapTypeOK
<1>4. PICK a \in Head(jobs).addrs :
        /\ forgotten' = forgotten \cup {a}
        /\ IF mapping[a] = NoId
           THEN gone = {} /\ UNCHANGED <<mapping, usedIds, table, writeFailures>>
           ELSE /\ mapping' = [mapping EXCEPT ![a] = NoId]
                /\ usedIds' = RemainingIds({mapping[a]})
                /\ persistMapping(mapping', {mapping[a]}, gone)
  BY DEF RunRemove
<1>5. a \in Addr /\ mapping \in AddressTable /\ Injective(mapping) /\ usedIds = Ids(mapping)
  BY <1>2 DEF Job, MapTypeOK, OneAddressPerId, UsedIdsExact
<1>6. mapping' = [b \in Addr |-> IF b \in {a} THEN NoId ELSE mapping[b]]
  BY <1>4, <1>5 DEF AddressTable
<1>7. usedIds' = Ids(mapping')
  <2>1. CASE mapping[a] = NoId
    BY <1>4, <1>5, <2>1 DEF Ids
  <2>2. CASE mapping[a] # NoId
    <3>1. usedIds' = Ids(mapping) \ {mapping[a]}
      BY <1>4, <1>5, <2>2 DEF RemainingIds
    <3>2. ASSUME NEW x PROVE x \in Ids(mapping') <=> x \in Ids(mapping) /\ x # mapping[a]
      BY <1>5, <1>6 DEF Ids, Injective
    <3> QED BY <3>1, <3>2
  <2> QED BY <2>1, <2>2
<1>8. /\ table' = table \/ (table' = mapping' /\ ~persistenceDisabled)
      /\ writeFailures' \in Nat
  BY <1>4, PersistMappingResult DEF MapTypeOK
<1> QED BY <1>1, <1>2, <1>3, <1>4, <1>5, <1>6, <1>7, <1>8, ForgetKeepsMapInv

\* So does a reset.
LEMMA RunResetKeepsMapInv ==
  ASSUME MapInv, NEW gone, RunReset(gone)
  PROVE  MapInv'
<1> USE DEF MapInv
<1>1. /\ jobs # <<>> /\ jobs' = Tail(jobs)
      /\ UNCHANGED <<legacy, persistenceDisabled, resolving, running, issued,
                     requests, exits, loadFailures>>
      /\ forgotten' = Addr /\ mapping' = Empty /\ usedIds' = {}
      /\ persistMapping(Empty, usedIds, gone)
  BY DEF RunReset
<1>2. jobs' \in Seq(Job)
  BY <1>1 DEF MapTypeOK
<1>3. running
  BY <1>1 DEF IdleUntilLaunch, MapTypeOK
<1>4. mapping' = [b \in Addr |-> IF b \in Addr THEN NoId ELSE mapping[b]]
  BY <1>1 DEF Empty
<1>5. usedIds' = Ids(mapping')
  BY <1>1 DEF Ids, Empty
<1>6. forgotten' = forgotten \cup Addr
  BY <1>1 DEF MapTypeOK
<1>7. /\ table' = table \/ (table' = mapping' /\ ~persistenceDisabled)
      /\ writeFailures' \in Nat
  BY <1>1, PersistMappingResult
<1>8. Addr \in SUBSET Addr
  OBVIOUS
<1> QED BY <1>1, <1>2, <1>3, <1>4, <1>5, <1>6, <1>7, <1>8, ForgetKeepsMapInv

\* So does the start of a call of id(for:).
LEMMA AskKeepsMapInv ==
  ASSUME MapInv, NEW c \in Caller, NEW a \in Addr, Ask(c, a)
  PROVE  MapInv'
<1>1. /\ running
      /\ UNCHANGED <<table, legacy, mapping, usedIds, persistenceDisabled, running, issued,
                     forgotten, exits, loadFailures, writeFailures>>
      /\ jobs' = jobs /\ requests' = requests
      /\ resolving' = [resolving EXCEPT ![c] = [at |-> "lookup", addr |-> a]]
  BY DEF Ask, memoryVars, boundVars
<1>2. resolving' \in [Caller -> Progress]
  BY <1>1 DEF MapInv, MapTypeOK
<1>3. requests' \in Nat /\ jobs' \in Seq(Job)
  BY <1>1 DEF MapInv, MapTypeOK
<1>4. \A d \in Caller : resolving'[d] = resolving[d] \/ resolving'[d].at # "done"
  BY <1>1 DEF MapInv, MapTypeOK
<1> QED BY <1>1, <1>2, <1>3, <1>4, CallsKeepMapInv

\* A caller that has come as far as a block of id(for:) has an address, and the
\* process runs.
LEMMA BusyCaller ==
  ASSUME MapInv, NEW c \in Caller, resolving[c] # Idle
  PROVE  running /\ resolving[c].addr \in Addr
BY DEF MapInv, IdleUntilLaunch, MapTypeOK

\* So does its concurrent read.
LEMMA LookUpKeepsMapInv ==
  ASSUME MapInv, NEW c \in Caller, LookUp(c)
  PROVE  MapInv'
<1> DEFINE a == resolving[c].addr
<1>1. /\ resolving[c].at = "lookup"
      /\ UNCHANGED <<table, legacy, mapping, usedIds, persistenceDisabled, running, issued,
                     forgotten, exits, loadFailures, writeFailures>>
      /\ jobs' = jobs /\ requests' = requests
      /\ resolving' = [resolving EXCEPT ![c] = IF mapping[a] # NoId THEN Answered(a, mapping[a])
                                               ELSE [at |-> "insert", addr |-> a]]
  BY DEF LookUp, memoryVars, boundVars
<1>2. running /\ a \in Addr
  BY <1>1, BusyCaller DEF Idle
<1> HIDE DEF a
<1>3. mapping[a] # NoId => mapping[a] \in Id
  BY <1>2 DEF MapInv, MapTypeOK, AddressTable
<1>4. resolving' \in [Caller -> Progress]
  BY <1>1, <1>2, <1>3 DEF MapInv, MapTypeOK, Answered
<1>5. \A d \in Caller :
        \/ resolving'[d] = resolving[d]
        \/ resolving'[d].at # "done"
        \/ mapping[resolving'[d].addr] # NoId /\ resolving'[d].id = mapping[resolving'[d].addr]
  BY <1>1 DEF MapInv, MapTypeOK, Answered
<1>6. requests' \in Nat /\ jobs' \in Seq(Job)
  BY <1>1 DEF MapInv, MapTypeOK
<1> QED BY <1>1, <1>2, <1>4, <1>5, <1>6, CallsKeepMapInv

\* So does its barrier, which finds or makes the UUID.
LEMMA InsertKeepsMapInv ==
  ASSUME MapInv, NEW c \in Caller, Insert(c)
  PROVE  MapInv'
<1> DEFINE a == resolving[c].addr
<1>1. /\ resolving[c].at = "insert"
      /\ UNCHANGED <<legacy, jobs, running, forgotten, requests, exits, loadFailures>>
  BY DEF Insert
<1>2. running /\ a \in Addr
  BY <1>1, BusyCaller DEF Idle
<1>3. /\ requests' \in Nat /\ exits' \in Nat /\ loadFailures' \in Nat /\ jobs' \in Seq(Job)
  BY <1>1 DEF MapInv, MapTypeOK
<1>4. CASE AlreadyMapped(a)
  <2>1. /\ mapping[a] # NoId
        /\ resolving' = [resolving EXCEPT ![c] = Answered(a, mapping[a])]
        /\ UNCHANGED <<mapping, usedIds, persistenceDisabled, issued, table, writeFailures>>
    BY <1>4 DEF Insert, AlreadyMapped, memoryVars
  <2> HIDE DEF a
  <2>2. mapping[a] \in Id
    BY <1>2, <2>1 DEF MapInv, MapTypeOK, AddressTable
  <2>3. resolving' \in [Caller -> Progress]
    BY <1>2, <2>1, <2>2 DEF MapInv, MapTypeOK, Answered
  <2>4. \A d \in Caller :
          \/ resolving'[d] = resolving[d]
          \/ mapping[resolving'[d].addr] # NoId /\ resolving'[d].id = mapping[resolving'[d].addr]
    BY <2>1 DEF MapInv, MapTypeOK, Answered
  <2> QED BY <1>1, <1>2, <1>3, <2>1, <2>3, <2>4, CallsKeepMapInv
<1>5. CASE ~AlreadyMapped(a)
  <2>1. mapping[a] = NoId
    BY <1>5 DEF AlreadyMapped
  <2>2. PICK added \in NewIds({a}) :
          /\ Adopt(added)
          /\ resolving' = [resolving EXCEPT ![c] = Answered(a, added[a])]
    BY <1>5 DEF Insert
  <2> HIDE DEF a
  <2>3. {a} \in SUBSET Addr /\ \A b \in {a} : mapping[b] = NoId
    BY <1>2, <2>1
  <2>4. added[a] \in Id
    BY <2>3, NewIdsAreNew DEF MapInv
  <2>5. resolving' \in [Caller -> Progress]
    BY <1>2, <2>2, <2>4 DEF MapInv, MapTypeOK, Answered
  <2>6. \A d \in Caller :
          \/ resolving'[d] = resolving[d]
          \/ \E b \in {a} : resolving'[d].addr = b /\ resolving'[d].id = added[b]
    BY <2>2 DEF MapInv, MapTypeOK, Answered
  <2> QED BY <1>1, <1>2, <1>3, <2>2, <2>3, <2>5, <2>6, AdoptKeepsMapInv
<1> QED BY <1>4, <1>5

\* So does its return.
LEMMA DoneKeepsMapInv ==
  ASSUME MapInv, NEW c \in Caller, Done(c)
  PROVE  MapInv'
<1>1. /\ resolving[c].at = "done"
      /\ UNCHANGED <<table, legacy, mapping, usedIds, persistenceDisabled, running, issued,
                     forgotten, exits, loadFailures, writeFailures>>
      /\ jobs' = jobs /\ requests' = requests
      /\ resolving' = [resolving EXCEPT ![c] = Idle]
  BY DEF Done, memoryVars, boundVars
<1>2. running
  BY <1>1, BusyCaller DEF Idle
<1>3. resolving' \in [Caller -> Progress]
  BY <1>1 DEF MapInv, MapTypeOK
<1>4. requests' \in Nat /\ jobs' \in Seq(Job)
  BY <1>1 DEF MapInv, MapTypeOK
<1>5. \A d \in Caller : resolving'[d] = resolving[d] \/ resolving'[d].at # "done"
  BY <1>1 DEF MapInv, MapTypeOK, Idle
<1> QED BY <1>1, <1>2, <1>3, <1>4, <1>5, CallsKeepMapInv

-----------------------------------------------------------------------------
(***************************************************************************)
(* The theorems                                                            *)
(***************************************************************************)

LEMMA StepKeepsMapInv == MapInv /\ [Next]_mapVars => MapInv'
<1> SUFFICES ASSUME MapInv, [Next]_mapVars PROVE MapInv'
  OBVIOUS
<1>1. ASSUME NEW gone \in SUBSET Removable, Launch(gone) PROVE MapInv'
  BY <1>1, LaunchKeepsMapInv
<1>2. ASSUME NEW gone \in SUBSET Removable, RunRemove(gone) PROVE MapInv'
  BY <1>2, RunRemoveKeepsMapInv
<1>3. ASSUME NEW gone \in SUBSET Removable, RunReset(gone) PROVE MapInv'
  BY <1>3, RunResetKeepsMapInv
<1>4. CASE Exit
  BY <1>4, ExitKeepsMapInv
<1>5. CASE RunGenerate
  BY <1>5, RunGenerateKeepsMapInv
<1>6. CASE GenerateMappings
  <2>1. PICK as \in SUBSET Addr : Request([kind |-> "generate", addrs |-> as])
    BY <1>6 DEF GenerateMappings
  <2>2. [kind |-> "generate", addrs |-> as] \in Job
    BY DEF Job
  <2> QED BY <2>1, <2>2, RequestKeepsMapInv
<1>7. CASE RemoveMapping
  <2>1. PICK a \in Addr : Request([kind |-> "remove", addrs |-> {a}])
    BY <1>7 DEF RemoveMapping
  <2>2. [kind |-> "remove", addrs |-> {a}] \in Job
    BY DEF Job
  <2> QED BY <2>1, <2>2, RequestKeepsMapInv
<1>8. CASE ResetAllMappings
  <2>1. [kind |-> "reset", addrs |-> {}] \in Job
    BY DEF Job
  <2> QED BY <1>8, <2>1, RequestKeepsMapInv DEF ResetAllMappings
<1>9. ASSUME NEW c \in Caller, NEW a \in Addr, Ask(c, a) PROVE MapInv'
  BY <1>9, AskKeepsMapInv
<1>10. ASSUME NEW c \in Caller, LookUp(c) \/ Insert(c) \/ Done(c) PROVE MapInv'
  BY <1>10, LookUpKeepsMapInv, InsertKeepsMapInv, DoneKeepsMapInv
<1>11. CASE UNCHANGED mapVars
  BY <1>11 DEF mapVars, memoryVars, boundVars, MapInv, MapTypeOK, OneAddressPerId, UsedIdsExact,
     AnswersAgree, SnapshotInjective, IdsIssued, IdleUntilLaunch, RowsRemembered, UpTo, Injective,
     Ids
<1> QED BY <1>1, <1>2, <1>3, <1>4, <1>5, <1>6, <1>7, <1>8, <1>9, <1>10, <1>11 DEF Next

\* MapInv holds in every reachable state.
THEOREM MapInvariant == MapSpec => []MapInv
<1>1. Init => MapInv
  BY InitMapInv
<1>2. MapInv /\ [Next]_mapVars => MapInv'
  BY StepKeepsMapInv
<1> QED BY <1>1, <1>2, PTL DEF MapSpec

\* Every variable stays in its range, for any addresses, callers and bounds.
THEOREM MapTypeCorrect == MapSpec => []MapTypeOK
<1>1. MapInv => MapTypeOK
  BY DEF MapInv
<1> QED BY <1>1, MapInvariant, PTL

\* However many callers, removals, resets, process deaths and lost writes there are,
\* no UUID is shared by two addresses, in memory or in the table
\* (generateMappings, id(for:), init).
THEOREM UuidsAreUnique == MapSpec => []OneAddressPerId
<1>1. MapInv => OneAddressPerId
  BY DEF MapInv
<1> QED BY <1>1, MapInvariant, PTL

\* resetAllMappings deletes the statistics of exactly the UUIDs in use.
THEOREM UsedIdsAreExact == MapSpec => []UsedIdsExact
<1>1. MapInv => UsedIdsExact
  BY DEF MapInv
<1> QED BY <1>1, MapInvariant, PTL

\* Any number of threads racing through id(for:) for one address get one UUID,
\* although the lookup and the insertion are two blocks of the queue.
THEOREM RacingCallersAgree == MapSpec => []AnswersAgree
<1>1. MapInv => AnswersAgree
  BY DEF MapInv
<1> QED BY <1>1, MapInvariant, PTL

\* Adopting UUIDs rewrites rows of addresses without a UUID only: their rows, if
\* there are any, belong to forgotten addresses.
LEMMA AdoptKeepsRows ==
  ASSUME MapInv, running, NEW as \in SUBSET Addr, NEW added \in NewIds(as),
         \A a \in as : mapping[a] = NoId, Adopt(added),
         NEW a \in Addr, table[a] # NoId, table'[a] # table[a]
  PROVE  a \in forgotten
<1>1. DOMAIN added = as
  BY NewIdsAreNew DEF MapInv
<1>2. ~persistenceDisabled
  BY DEF Adopt, persistNewMappings
<1>3. PICK failed \in SUBSET as :
        table' = [b \in Addr |-> IF b \in as \ failed THEN added[b] ELSE table[b]]
  BY <1>1, <1>2 DEF Adopt, persistNewMappings
<1>4. mapping[a] = NoId
  BY <1>3
<1> QED BY <1>2, <1>4 DEF MapInv, RowsRemembered

\* A step that loses a row is one that forgets its address.
LEMMA StepKeepsRows ==
  ASSUME MapInv, [Next]_mapVars, running,
         NEW a \in Addr, table[a] # NoId, table'[a] # table[a]
  PROVE  a \in forgotten'
<1>1. ASSUME NEW gone \in SUBSET Removable, Launch(gone) PROVE FALSE
  BY <1>1 DEF Launch
<1>2. ASSUME NEW gone \in SUBSET Removable, RunRemove(gone) PROVE a \in forgotten'
  <2>1. PICK b \in Head(jobs).addrs :
          /\ forgotten' = forgotten \cup {b}
          /\ mapping' = [mapping EXCEPT ![b] = NoId]
          /\ persistMapping(mapping', {mapping[b]}, gone)
    BY <1>2 DEF RunRemove
  <2>2. table' = mapping' /\ ~persistenceDisabled
    BY <2>1, PersistMappingResult DEF MapInv
  <2>3. a = b \/ mapping'[a] = mapping[a]
    BY <2>1 DEF MapInv, MapTypeOK, AddressTable
  <2> QED BY <2>1, <2>2, <2>3 DEF MapInv, RowsRemembered
<1>3. ASSUME NEW gone \in SUBSET Removable, RunReset(gone) PROVE a \in forgotten'
  BY <1>3 DEF RunReset
<1>4. CASE RunGenerate
  <2> DEFINE as == {b \in Head(jobs).addrs : mapping[b] = NoId}
  <2>1. PICK added \in NewIds(as) : Adopt(added)
    BY <1>4 DEF RunGenerate
  <2>2. Head(jobs) \in Job /\ forgotten' = forgotten
    BY <1>4 DEF RunGenerate, MapInv, MapTypeOK
  <2>3. as \in SUBSET Addr /\ \A b \in as : mapping[b] = NoId
    BY <2>2 DEF Job
  <2> HIDE DEF as
  <2> QED BY <2>1, <2>2, <2>3, AdoptKeepsRows
<1>5. ASSUME NEW c \in Caller, Insert(c) PROVE a \in forgotten'
  <2> DEFINE b == resolving[c].addr
  <2>1. b \in Addr
    BY <1>5, BusyCaller DEF Insert, Idle
  <2>2. ~AlreadyMapped(b) /\ forgotten' = forgotten
    BY <1>5 DEF Insert
  <2>3. PICK added \in NewIds({b}) : Adopt(added)
    BY <1>5, <2>2 DEF Insert
  <2>4. {b} \in SUBSET Addr /\ \A d \in {b} : mapping[d] = NoId
    BY <2>1, <2>2 DEF AlreadyMapped
  <2> HIDE DEF b
  <2> QED BY <2>2, <2>3, <2>4, AdoptKeepsRows
<1>6. CASE Exit \/ GenerateMappings \/ RemoveMapping \/ ResetAllMappings \/ UNCHANGED mapVars
  BY <1>6 DEF Exit, GenerateMappings, RemoveMapping, ResetAllMappings, Request, mapVars
<1>7. ASSUME NEW c \in Caller, (\E b \in Addr : Ask(c, b)) \/ LookUp(c) \/ Done(c) PROVE FALSE
  BY <1>7 DEF Ask, LookUp, Done
<1> QED BY <1>1, <1>2, <1>3, <1>4, <1>5, <1>6, <1>7 DEF Next

\* No step of the running manager takes a row out of the table or changes it, unless
\* its address was forgotten: a removal saves the whole map, and the map still holds
\* every other row (init, persistMapping, lines 47-61 and 158-169).
THEOREM RowsSurvive == MapSpec => MappingsSurvive
<1>1. MapInv /\ [Next]_mapVars =>
        [\A a \in Addr : running /\ table[a] # NoId /\ table'[a] # table[a]
                           => a \in forgotten']_mapVars
  BY StepKeepsRows
<1> QED BY <1>1, MapInvariant, PTL DEF MapSpec, MappingsSurvive

=============================================================================
