-------------------------- MODULE MetricsSyncProofs --------------------------
(***************************************************************************)
(* Proofs about MetricsSync, for every set of wallets, networks and        *)
(* recorders and every value of the bounds.                                *)
(***************************************************************************)
EXTENDS MetricsSync, AddressMapProofs

Row == [val : Value, updated : BOOLEAN]
Block == [kind : {"upload"}]
    \cup [kind : {"ack"}, chain : Chain, id : Id, rows : SUBSET Entry]
Migrating == [step : {"migrate"}, addr : Addr, chain : Chain, from : Chain, ok : BOOLEAN,
              left : SUBSET OldRow]
Checking == [step : {"begin", "check", "assets"}, addr : Addr, chain : Chain]
Sending == [step : {"transactions", "send", "call"}, addr : Addr, chain : Chain, id : Id, rows : SUBSET Entry]
Acking == [step : {"ack"}, chain : Chain, id : Id, rows : SUBSET Entry]
Cleaning == [step : {"clean"}, kind : {"asset", "tx"}, chain : Chain, id : Id]
Work == {Rest} \cup Migrating \cup Checking \cup Sending \cup Acking \cup Cleaning
Sent == [chain : Chain, id : Id, rows : SUBSET Entry, delivered : BOOLEAN, awaited : BOOLEAN]
Record == {NoCall} \cup [step : {"id"}, kind : {"tx"}]
     \cup [step : {"id"}, kind : {"asset"}, val : Balances]
     \cup [step : {"write"}, key : Key]
     \cup [step : {"write"}, key : Key, val : Balances]

RowsTyped ==
  /\ rows \in [Key -> Row \cup {NoRow}]
  /\ received \in [Key -> SUBSET Value]
  /\ \A k \in Key : k.kind = "tx" /\ rows[k] # NoRow => rows[k].val.count \in Nat

HostTyped ==
  /\ migrated \subseteq Chain /\ oldRows \subseteq OldRow
  /\ config \in Config /\ window \subseteq Config /\ today \in Day
  /\ \A e \in oldRows : e.updated /\ (e.key.kind = "tx" => e.val.count \in Nat)

RecTyped ==
  /\ rec \in [Recorder -> Record]
  /\ \A t \in Recorder :
       /\ rec[t].step = "id" => rec[t].kind \in Kinds
       /\ rec[t].step = "write" /\ rec[t].key.kind = "asset" => rec[t].val \in Balances

WorkTyped ==
  /\ work \in Work /\ queue \in Seq(Block)
  /\ work.step = "migrate" => work.left \subseteq oldRows

NetTyped == network \in [Slot -> Sent \cup {NoRequest}]

Typed == MapInv /\ RowsTyped /\ HostTyped /\ RecTyped /\ WorkTyped /\ NetTyped

-----------------------------------------------------------------------------
(***************************************************************************)
(* Rows, entries and what the worker holds                                 *)
(***************************************************************************)

\* An entry is a key and a value.
LEMMA EntryParts ==
  /\ \A e \in Entry : e.key \in Key /\ e.val \in Value
  /\ \A k \in Key, v \in Value : [key |-> k, val |-> v] \in Entry
BY DEF Entry

\* An older row is a key, a value and a flag.
LEMMA OldRowForm == \A e \in OldRow : e.key \in Key /\ e.val \in Value /\ e.updated \in BOOLEAN
BY DEF OldRow

\* A row is a value and a flag.
LEMMA RowParts ==
  /\ \A r \in Row : r.val \in Value /\ r.updated \in BOOLEAN
  /\ \A v \in Value : \A u \in BOOLEAN : [val |-> v, updated |-> u] \in Row
BY DEF Row

\* NoRow is no row.
LEMMA NoRowIsNone == NoRow \notin Row
BY SyncAssumption DEF Row, Value

\* What is read from the tables are entries.
LEMMA ReadEntries ==
  ASSUME RowsTyped, NEW kind, NEW chain, NEW id
  PROVE  DirtyEntries(kind, chain, id) \in SUBSET Entry
<1> SUFFICES ASSUME NEW k \in Key, Dirty(k) PROVE [key |-> k, val |-> rows[k].val] \in Entry
  BY DEF DirtyEntries
<1>1. rows[k] \in Row
  BY DEF RowsTyped, Dirty
<1> QED BY <1>1, RowParts, EntryParts

\* What the block of metricsQueue is at each of its steps.
LEMMA WorkForms ==
  ASSUME work \in Work
  PROVE  /\ work.step = "migrate" => work \in Migrating
         /\ work.step \in {"begin", "check", "assets"} => work \in Checking
         /\ work.step \in {"transactions", "send", "call"} => work \in Sending
         /\ work.step = "ack" => work \in Acking
         /\ work.step = "clean" => work \in Cleaning
BY DEF Work, Rest, Migrating, Checking, Sending, Acking, Cleaning

\* What it holds there.
LEMMA WorkParts ==
  ASSUME work \in Work
  PROVE  /\ work.step = "migrate" => /\ work.addr \in Addr /\ work.chain \in Chain
                                     /\ work.from \in Chain
                                     /\ work.ok \in BOOLEAN /\ work.left \in SUBSET OldRow
         /\ work.step \in {"begin", "check", "assets"} => work.addr \in Addr /\ work.chain \in Chain
         /\ work.step \in {"transactions", "send", "call"} =>
              /\ work.addr \in Addr /\ work.chain \in Chain /\ work.id \in Id
              /\ work.rows \in SUBSET Entry
         /\ work.step = "ack" => work.chain \in Chain /\ work.id \in Id /\ work.rows \in SUBSET Entry
         /\ work.step = "clean" => work.kind \in {"asset", "tx"} /\ work.chain \in Chain /\ work.id \in Id
BY WorkForms DEF Migrating, Checking, Sending, Acking, Cleaning

\* Where the steps of the merge leave the block.
LEMMA MergeSteps ==
  ASSUME work \in Work, BeginMigration \/ MigrateRow \/ EndMigration
  PROVE  /\ BeginMigration => work'.step \in {"migrate", "check"}
         /\ MigrateRow => work'.step = "migrate"
         /\ EndMigration => work'.step = "check"
<1>1. BeginMigration => work'.step \in {"migrate", "check"}
  <2> SUFFICES ASSUME BeginMigration
               PROVE  work'.step \in {"migrate", "check"}
    OBVIOUS
  <2>1. work \in Checking
    BY WorkForms DEF BeginMigration
  <2>2. [work EXCEPT !.step = "check"].step = "check"
    BY <2>1 DEF Checking
  <2>3. CASE work' = [work EXCEPT !.step = "check"]
    BY <2>2, <2>3
  <2>4. CASE work' = [step |-> "migrate", addr |-> work.addr, chain |-> work.chain,
                      from |-> config.chain, ok |-> TRUE,
                      left |-> {e \in oldRows : e.key.chain = config.chain}]
    BY <2>4, Zenon
  <2> QED BY <2>3, <2>4, Zenon DEF BeginMigration
<1>2. MigrateRow => work'.step = "migrate"
  <2> SUFFICES ASSUME MigrateRow
               PROVE  work'.step = "migrate"
    OBVIOUS
  <2>1. work \in Migrating /\ work.step = "migrate"
    BY WorkForms DEF MigrateRow
  <2>2. PICK e \in work.left, ok \in BOOLEAN :
          work' = [work EXCEPT !.left = @ \ {e}, !.ok = AllSucceeded(@, ok)]
    BY DEF MigrateRow
  <2>3. [work EXCEPT !.left = @ \ {e}, !.ok = AllSucceeded(@, ok)].step = work.step
    BY <2>1 DEF Migrating
  <2> QED BY <2>1, <2>2, <2>3
<1>3. EndMigration => work'.step = "check"
  BY DEF EndMigration
<1> QED BY <1>1, <1>2, <1>3

\* What a request on the network holds.
LEMMA SentParts ==
  ASSUME NetTyped, NEW s \in Slot, network[s] # NoRequest
  PROVE  /\ network[s] \in Sent
         /\ network[s].chain \in Chain /\ network[s].id \in Id /\ network[s].rows \in SUBSET Entry
         /\ network[s].delivered \in BOOLEAN /\ network[s].awaited \in BOOLEAN
BY DEF NetTyped, Sent

\* The block at the head of the queue.
LEMMA HeadParts ==
  ASSUME queue \in Seq(Block), queue # <<>>
  PROVE  /\ Head(queue) \in Block /\ Tail(queue) \in Seq(Block)
         /\ Head(queue).kind = "ack" =>
              /\ Head(queue).chain \in Chain /\ Head(queue).id \in Id
              /\ Head(queue).rows \in SUBSET Entry
BY DEF Block

\* What is put on the queue.
LEMMA BlockForms ==
  /\ [kind |-> "upload"] \in Block
  /\ \A c \in Chain, i \in Id, es \in SUBSET Entry :
       [kind |-> "ack", chain |-> c, id |-> i, rows |-> es] \in Block
BY DEF Block

-----------------------------------------------------------------------------
(***************************************************************************)
(* Which steps touch what                                                  *)
(***************************************************************************)
\* The steps that change the tables or what the server has.
LEMMA RowsSteps ==
  ASSUME [SyncNext]_vars
  PROVE  \/ UNCHANGED <<rows, received>>
         \/ \E t \in Recorder : Write(t)
         \/ \E s \in Slot : Receive(s)
         \/ MigrateRow \/ Acknowledge \/ Clean \/ Remap
BY DEF SyncNext, vars, syncVars, dbVars, netVars, hostVars, workVars, WorkerStep, BeginRecord, Stamp, Upload, StartUpload,
       BeginMigration, EndMigration, CheckConfig, ReadAssets, ReadTransactions, CheckAgain, Send, Succeed, Fail, StartAcknowledge, Map,
       Die, NextDay, Reconfigure

\* The steps that change the data source, the day or what was migrated.
LEMMA HostSteps ==
  ASSUME [SyncNext]_vars
  PROVE  UNCHANGED <<migrated, oldRows, config, today>> \/ EndMigration \/ NextDay \/ Reconfigure
BY DEF SyncNext, vars, syncVars, dbVars, netVars, hostVars, workVars, WorkerStep, BeginRecord, Stamp, Write, Upload, StartUpload,
       BeginMigration, MigrateRow, CheckConfig, ReadAssets, ReadTransactions, CheckAgain, Send, Succeed, Fail, Receive, StartAcknowledge, Map,
       Acknowledge, Clean, Remap, Die

\* The steps that change the answers the history remembers.
LEMMA WindowSteps ==
  ASSUME [SyncNext]_vars
  PROVE  UNCHANGED window \/ CheckAgain \/ Send \/ Die \/ Reconfigure
BY DEF SyncNext, vars, syncVars, dbVars, netVars, hostVars, workVars, WorkerStep, BeginRecord, Stamp, Write, Upload, StartUpload,
       BeginMigration, MigrateRow, EndMigration, CheckConfig, ReadAssets, ReadTransactions, Succeed,
       Fail, Receive, StartAcknowledge, Map, Acknowledge, Clean, Remap, NextDay

\* The steps that change the calls in progress.
LEMMA RecSteps ==
  ASSUME [SyncNext]_vars
  PROVE  UNCHANGED rec \/ Die \/ \E t \in Recorder : BeginRecord(t) \/ Stamp(t) \/ Write(t)
BY DEF SyncNext, vars, syncVars, dbVars, netVars, hostVars, workVars, WorkerStep, Upload, StartUpload, BeginMigration, MigrateRow,
       EndMigration, CheckConfig, ReadAssets, ReadTransactions, CheckAgain, Send, Succeed, Fail, Receive, StartAcknowledge, Map,
       Acknowledge, Clean, Remap, NextDay, Reconfigure

\* The steps that change metricsQueue or the block it runs.
LEMMA WorkSteps ==
  ASSUME [SyncNext]_vars
  PROVE  \/ UNCHANGED <<queue, work>> \/ Upload \/ WorkerStep \/ Die
         \/ \E s \in Slot : Succeed(s)
BY DEF SyncNext, vars, syncVars, dbVars, netVars, hostVars, workVars, BeginRecord, Stamp, Write,
       Fail, Receive, Map, Remap, NextDay, Reconfigure

\* The steps that change the requests on the network.
LEMMA NetSteps ==
  ASSUME [SyncNext]_vars
  PROVE  \/ UNCHANGED network \/ Send \/ Die
         \/ \E s \in Slot : Receive(s) \/ Succeed(s) \/ Fail(s)
BY DEF SyncNext, vars, syncVars, dbVars, netVars, hostVars, workVars, WorkerStep, BeginRecord, Stamp, Write, Upload, StartUpload, BeginMigration,
       MigrateRow, EndMigration, CheckConfig, ReadAssets, ReadTransactions, CheckAgain, StartAcknowledge, Map,
       Acknowledge, Clean, Remap, NextDay, Reconfigure

\* Each step is one of the address map, leaves it alone, or is a failed write.
LEMMA MapPart ==
  ASSUME [SyncNext]_vars, HostTyped, WorkTyped
  PROVE  [Next]_mapVars \/ DBFails
<1> SUFFICES ASSUME ~DBFails PROVE [Next]_mapVars
  OBVIOUS
<1>1. ASSUME NEW t \in Recorder, BeginRecord(t) \/ Stamp(t) \/ Write(t) PROVE [Next]_mapVars
  <2>1. t \in Caller /\ config.addr \in Addr
    BY DEF Recorder, HostTyped, Config
  <2>2. CASE BeginRecord(t)
    <3>1. Ask(t, config.addr)
      BY <2>2 DEF BeginRecord
    <3> QED BY <2>1, <3>1 DEF Next
  <2>3. CASE Stamp(t)
    <3>1. Done(t)
      BY <2>3 DEF Stamp
    <3> QED BY <2>1, <3>1 DEF Next
  <2>4. CASE Write(t)
    <3>1. UNCHANGED mapVars
      BY <2>4 DEF Write
    <3> QED BY <3>1
  <2> QED BY <1>1, <2>2, <2>3, <2>4
<1>2. CASE WorkerStep
  <2>1. Worker \in Caller /\ (work.step = "check" => work.addr \in Addr)
    BY SyncAssumption, WorkParts DEF WorkTyped
  <2>2. CASE CheckConfig
    <3>1. (work.step = "check" /\ Ask(Worker, work.addr)) \/ UNCHANGED mapVars
      BY <2>2 DEF CheckConfig
    <3> QED BY <2>1, <3>1 DEF Next
  <2>3. CASE ReadAssets
    <3>1. Done(Worker)
      BY <2>3 DEF ReadAssets
    <3> QED BY <2>1, <3>1 DEF Next
  <2>4. CASE ~CheckConfig /\ ~ReadAssets
    <3>1. UNCHANGED mapVars
      BY <1>2, <2>4 DEF WorkerStep, StartUpload, BeginMigration, MigrateRow, EndMigration,
                        ReadTransactions, CheckAgain, Send, StartAcknowledge, Acknowledge, Clean
    <3> QED BY <3>1
  <2> QED BY <2>2, <2>3, <2>4
<1>3. CASE Remap
  <2>1. \E gone \in SUBSET Removable : Launch(gone) \/ RunRemove(gone) \/ RunReset(gone)
    BY <1>3 DEF Remap
  <2> QED BY <2>1 DEF Next
<1>4. CASE Map
  <2>1. \/ RunGenerate \/ GenerateMappings \/ RemoveMapping \/ ResetAllMappings
        \/ \E c \in Caller : LookUp(c) \/ Insert(c)
    BY <1>4 DEF Map
  <2> QED BY <2>1 DEF Next
<1>5. CASE Die
  BY <1>5 DEF Die, Next
<1>6. CASE \/ Upload \/ NextDay \/ Reconfigure \/ UNCHANGED vars
           \/ \E s \in Slot : Receive(s) \/ Succeed(s) \/ Fail(s)
  <2>1. UNCHANGED mapVars
    BY <1>6 DEF Upload, NextDay, Reconfigure, Receive, Succeed, Fail, vars
  <2> QED BY <2>1
<1> QED BY <1>1, <1>2, <1>3, <1>4, <1>5, <1>6 DEF SyncNext

\* A failed write changes the count of failed writes only.
LEMMA FailedWriteKeepsMapInv ==
  ASSUME MapInv, DBFails
  PROVE  MapInv'
<1>1. /\ UNCHANGED <<table, legacy, mapping, usedIds, persistenceDisabled, jobs, resolving,
                     running, issued, forgotten, requests, exits, loadFailures>>
      /\ writeFailures' = writeFailures + 1
  BY DEF DBFails, WriteFails, memoryVars
<1>2. MapTypeOK'
  BY <1>1 DEF MapInv, MapTypeOK
<1>3. /\ OneAddressPerId' /\ UsedIdsExact' /\ AnswersAgree'
      /\ SnapshotInjective' /\ IdsIssued' /\ IdleUntilLaunch' /\ RowsRemembered'
  BY <1>1 DEF MapInv, OneAddressPerId, UsedIdsExact, AnswersAgree, SnapshotInjective,
              IdsIssued, IdleUntilLaunch, RowsRemembered
<1> QED BY <1>2, <1>3 DEF MapInv

\* The pipeline keeps the address map's invariant.
LEMMA StepKeepsMap ==
  ASSUME MapInv, HostTyped, WorkTyped, [SyncNext]_vars
  PROVE  MapInv'
BY MapPart, StepKeepsMapInv, FailedWriteKeepsMapInv

-----------------------------------------------------------------------------
(***************************************************************************)
(* Types                                                                   *)
(***************************************************************************)
\* What a recorder's call holds when its row is written.
LEMMA RecParts ==
  ASSUME RecTyped, NEW t \in Recorder
  PROVE  /\ rec[t].step = "write" => rec[t].key \in Key
         /\ rec[t].step = "write" /\ rec[t].key.kind = "asset" => rec[t].val \in Value
         /\ rec[t].step = "id" => rec[t].kind \in Kinds
         /\ rec[t].step = "id" /\ rec[t].kind # "tx" => rec[t].val \in Balances /\ rec[t].kind = "asset"
<1>1. rec[t] \in Record
  BY DEF RecTyped
<1> QED BY <1>1 DEF RecTyped, Record, Value, NoCall

\* Writing a row keeps the tables in their range.
LEMMA PutKeepsRowsTyped ==
  ASSUME RowsTyped, NEW k \in Key, NEW val \in Value, k.kind = "tx" => val.count \in Nat,
         Put(k, val), UNCHANGED received
  PROVE  RowsTyped'
<1>1. [val |-> val, updated |-> TRUE] \in Row
  BY RowParts
<1> QED BY <1>1 DEF RowsTyped, Put

\* Taking rows out keeps the tables in their range.
LEMMA LessRowsTyped ==
  ASSUME RowsTyped, NEW keep \in SUBSET Key,
         rows' = [k \in Key |-> IF k \in keep THEN rows[k] ELSE NoRow], UNCHANGED received
  PROVE  RowsTyped'
BY DEF RowsTyped

\* A count of one more event is a count.
LEMMA CountAfterIsValue ==
  ASSUME RowsTyped, NEW k \in Key, k.kind = "tx"
  PROVE  CountAfter(k) \in Value /\ CountAfter(k).count \in Nat
<1>1. rows[k] # NoRow => rows[k].val.count \in Nat
  BY DEF RowsTyped
<1> QED BY <1>1 DEF CountAfter, Value

\* A recorder writes a count or a balance.
LEMMA WriteKeepsRowsTyped ==
  ASSUME RowsTyped, RecTyped, NEW t \in Recorder, Write(t)
  PROVE  RowsTyped'
<1> DEFINE k == rec[t].key
<1>1. /\ k \in Key /\ (k.kind = "asset" => rec[t].val \in Value)
      /\ UNCHANGED received
  BY RecParts DEF Write, netVars
<1>2. \/ k.kind = "tx" /\ Put(k, CountAfter(k))
      \/ k.kind = "asset" /\ (Put(k, rec[t].val) \/ UNCHANGED rows)
      \/ UNCHANGED rows
  BY DEF Write
<1> HIDE DEF k
<1>3. CASE UNCHANGED rows
  BY <1>1, <1>3 DEF RowsTyped
<1>4. CASE k.kind = "tx" /\ Put(k, CountAfter(k))
  BY <1>1, <1>4, CountAfterIsValue, PutKeepsRowsTyped
<1>5. CASE k.kind = "asset" /\ Put(k, rec[t].val)
  BY <1>1, <1>5, PutKeepsRowsTyped
<1> QED BY <1>2, <1>3, <1>4, <1>5

\* A row of the older database: what it holds.
LEMMA LeftParts ==
  ASSUME HostTyped, WorkTyped, work.step = "migrate", NEW e \in work.left
  PROVE  /\ e \in oldRows /\ e.key \in Key /\ e.val \in Value /\ e.updated = TRUE
         /\ e.key.kind = "tx" => e.val.count \in Nat
<1>1. e \in oldRows /\ e \in OldRow
  BY DEF HostTyped, WorkTyped
<1>2. e.updated \in BOOLEAN /\ e.updated
  BY <1>1, OldRowForm DEF HostTyped
<1> QED BY <1>1, <1>2, OldRowForm DEF HostTyped

\* A step of the merge writes an older row over whatever is there, or nothing.
LEMMA MigratePuts ==
  ASSUME HostTyped, WorkTyped, MigrateRow
  PROVE  /\ work.step = "migrate" /\ UNCHANGED <<migrated, oldRows, hostVars, netVars, rec>>
         /\ \E e \in work.left, ok \in BOOLEAN :
              /\ work' = [work EXCEPT !.left = @ \ {e}, !.ok = AllSucceeded(@, ok)]
              /\ (ok /\ Put(e.key, e.val)) \/ (~ok /\ UNCHANGED rows)
<1>1. PICK e \in work.left, ok \in BOOLEAN :
        /\ \/ ok /\ rows' = [rows EXCEPT ![e.key] = [val |-> e.val, updated |-> e.updated]]
           \/ ~ok /\ UNCHANGED rows
        /\ work' = [work EXCEPT !.left = @ \ {e}, !.ok = AllSucceeded(@, ok)]
  BY DEF MigrateRow
<1>2. work.step = "migrate" /\ UNCHANGED <<migrated, oldRows, hostVars, netVars, rec>>
  BY DEF MigrateRow
<1>3. e.updated = TRUE
  BY <1>2, LeftParts
<1>4. (ok /\ Put(e.key, e.val)) \/ (~ok /\ UNCHANGED rows)
  BY <1>1, <1>3 DEF Put
<1> QED BY <1>1, <1>2, <1>4

\* The merge writes rows of the older database.
LEMMA MigrateKeepsRowsTyped ==
  ASSUME RowsTyped, HostTyped, WorkTyped, MigrateRow
  PROVE  RowsTyped'
<1>1. UNCHANGED received /\ work.step = "migrate"
  BY MigratePuts DEF netVars
<1>2. CASE UNCHANGED rows
  BY <1>1, <1>2 DEF RowsTyped
<1>3. ASSUME NEW e \in work.left, Put(e.key, e.val) PROVE RowsTyped'
  <2>1. e.key \in Key /\ e.val \in Value /\ (e.key.kind = "tx" => e.val.count \in Nat)
    BY <1>1, LeftParts
  <2> QED BY <1>1, <1>3, <2>1, PutKeepsRowsTyped
<1> QED BY <1>2, <1>3, MigratePuts

\* The server receives values that were rows.
LEMMA ReceiveKeepsRowsTyped ==
  ASSUME RowsTyped, NetTyped, NEW s \in Slot, Receive(s)
  PROVE  RowsTyped'
<1>1. network[s] # NoRequest /\ UNCHANGED rows
  BY DEF Receive, dbVars
<1>2. network[s].rows \in SUBSET Entry
  BY <1>1, SentParts
<1>3. \A e \in network[s].rows : e.val \in Value
  BY <1>2, EntryParts
<1>4. received' = [k \in Key |-> received[k] \cup
                     {e.val : e \in {f \in network[s].rows : f.key = k}}]
  BY DEF Receive
<1>5. received' \in [Key -> SUBSET Value]
  BY <1>3, <1>4 DEF RowsTyped
<1> QED BY <1>1, <1>5 DEF RowsTyped

\* A confirmation changes a mark, not a value.
LEMMA AcknowledgeKeepsRowsTyped ==
  ASSUME RowsTyped, WorkTyped, Acknowledge
  PROVE  RowsTyped'
<1>1. UNCHANGED received /\ work.step = "ack" /\ work.rows \in SUBSET Entry
  BY WorkParts DEF Acknowledge, netVars, WorkTyped
<1>2. CASE UNCHANGED rows
  BY <1>1, <1>2 DEF RowsTyped
<1>3. ASSUME NEW e \in work.rows, Dirty(e.key), rows' = [rows EXCEPT ![e.key].updated = FALSE]
      PROVE  RowsTyped'
  <2>1. e.key \in Key
    BY <1>1, EntryParts
  <2>2. rows[e.key] \in Row /\ rows[e.key] # NoRow
    BY <1>3, <2>1 DEF RowsTyped, Dirty
  <2>3. [rows[e.key] EXCEPT !.updated = FALSE] \in Row
    BY <2>2 DEF Row
  <2>4. /\ rows' = [rows EXCEPT ![e.key] = [rows[e.key] EXCEPT !.updated = FALSE]]
        /\ [rows[e.key] EXCEPT !.updated = FALSE].val = rows[e.key].val
    BY <1>3, <2>2 DEF Row
  <2> QED BY <1>1, <2>1, <2>2, <2>3, <2>4 DEF RowsTyped
<1> QED BY <1>2, <1>3 DEF Acknowledge, UnchangedSinceSent

\* A clean-up only removes rows.
LEMMA CleanKeepsRowsTyped ==
  ASSUME RowsTyped, Clean
  PROVE  RowsTyped'
<1>1. UNCHANGED received
  BY DEF Clean, netVars
<1>2. CASE UNCHANGED rows
  BY <1>1, <1>2 DEF RowsTyped
<1> DEFINE gone(k) == /\ k.kind = work.kind /\ k.chain = work.chain /\ k.id = work.id
                      /\ Past(k)
<1>3. CASE rows' = [k \in Key |-> IF gone(k) THEN NoRow ELSE rows[k]]
  <2> HIDE DEF gone
  <2> DEFINE keep == {k \in Key : ~gone(k)}
  <2>1. rows' = [k \in Key |-> IF k \in keep THEN rows[k] ELSE NoRow]
    BY <1>3
  <2>2. keep \in SUBSET Key
    OBVIOUS
  <2> HIDE DEF keep
  <2> QED BY <1>1, <2>1, <2>2, LessRowsTyped
<1> QED BY <1>2, <1>3 DEF Clean

\* So does a removal or a reset of the address map.
LEMMA RemapKeepsRowsTyped ==
  ASSUME RowsTyped, Remap
  PROVE  RowsTyped'
<1>1. UNCHANGED received
  BY DEF Remap, netVars
<1>2. PICK gone \in SUBSET Removable : Purge(gone)
  BY DEF Remap
<1>3. rows' = [k \in Key |-> IF k \in {l \in Key : l.id \notin gone} THEN rows[k] ELSE NoRow]
  BY <1>2 DEF Purge
<1> QED BY <1>1, <1>3, LessRowsTyped

\* Every step keeps the rows in their range.
LEMMA StepKeepsRowsTyped ==
  ASSUME Typed, [SyncNext]_vars
  PROVE  RowsTyped'
<1>1. CASE UNCHANGED <<rows, received>>
  BY <1>1 DEF Typed, RowsTyped
<1> QED BY <1>1, RowsSteps, WriteKeepsRowsTyped, MigrateKeepsRowsTyped, ReceiveKeepsRowsTyped,
           AcknowledgeKeepsRowsTyped, CleanKeepsRowsTyped, RemapKeepsRowsTyped DEF Typed

\* Every step keeps the host's part in its range.
LEMMA StepKeepsHostTyped ==
  ASSUME Typed, [SyncNext]_vars
  PROVE  HostTyped'
<1> USE DEF Typed
<1>0. window' \subseteq Config
  <2>1. CASE UNCHANGED window
    BY <2>1 DEF HostTyped
  <2>2. CASE CheckAgain
    BY <2>2 DEF CheckAgain, HostTyped
  <2>3. CASE Send \/ Die
    BY <2>3 DEF Send, Die
  <2>4. CASE Reconfigure
    BY <2>4 DEF Reconfigure, HostTyped
  <2> QED BY <2>1, <2>2, <2>3, <2>4, WindowSteps
<1>1. CASE UNCHANGED <<migrated, oldRows, config, today>>
  BY <1>0, <1>1 DEF HostTyped
<1>2. CASE EndMigration
  <2>1. UNCHANGED <<oldRows, config, today>>
    BY <1>2 DEF EndMigration, hostVars
  <2>2. work.from \in Chain /\ (migrated' = migrated \/ migrated' = migrated \cup {work.from})
    BY <1>2, WorkParts DEF EndMigration, MergedChain, WorkTyped
  <2> QED BY <1>0, <2>1, <2>2 DEF HostTyped
<1>3. CASE NextDay
  <2>1. UNCHANGED <<migrated, oldRows, config>> /\ today < MaxDay /\ today' = today + 1
    BY <1>3 DEF NextDay, dbVars
  <2> QED BY <1>0, <2>1, SyncAssumption DEF HostTyped, Day
<1>4. CASE Reconfigure
  <2>1. UNCHANGED <<migrated, oldRows, today>> /\ config' \in Config
    BY <1>4 DEF Reconfigure, dbVars
  <2> QED BY <1>0, <2>1 DEF HostTyped
<1> QED BY <1>1, <1>2, <1>3, <1>4, HostSteps

\* The forms a call takes.
LEMMA RecordForms ==
  /\ NoCall \in Record
  /\ [step |-> "id", kind |-> "tx"] \in Record
  /\ \A b \in Balances : [step |-> "id", kind |-> "asset", val |-> b] \in Record
  /\ \A k \in Key : [step |-> "write", key |-> k] \in Record
  /\ \A k \in Key, b \in Balances : [step |-> "write", key |-> k, val |-> b] \in Record
BY DEF Record

\* One call changes.
LEMMA OneCallTyped ==
  ASSUME RecTyped, NEW t \in Recorder, NEW r \in Record, rec' = [rec EXCEPT ![t] = r],
         r.step = "id" => r.kind \in Kinds,
         r.step = "write" /\ r.key.kind = "asset" => r.val \in Balances
  PROVE  RecTyped'
BY DEF RecTyped

\* What an answered lookup holds.
LEMMA AnswerParts ==
  ASSUME MapInv, NEW c \in Caller, Done(c)
  PROVE  resolving[c].id \in Id /\ resolving[c].addr \in Addr
<1>1. resolving[c] \in Progress /\ resolving[c].at = "done"
  BY DEF MapInv, MapTypeOK, Done
<1> QED BY <1>1 DEF Progress, Idle

\* Every step keeps the recorders in their range.
LEMMA StepKeepsRecTyped ==
  ASSUME Typed, [SyncNext]_vars
  PROVE  RecTyped'
<1> USE DEF Typed
<1>1. CASE UNCHANGED rec
  BY <1>1 DEF RecTyped
<1>2. CASE Die
  BY <1>2, RecordForms DEF Die, RecTyped, NoCall
<1>3. ASSUME NEW t \in Recorder, BeginRecord(t) PROVE RecTyped'
  <2>1. CASE "tx" \in Kinds /\ rec' = [rec EXCEPT ![t] = [step |-> "id", kind |-> "tx"]]
    BY <2>1, RecordForms, OneCallTyped
  <2>2. ASSUME "asset" \in Kinds, NEW b \in Balances,
               rec' = [rec EXCEPT ![t] = [step |-> "id", kind |-> "asset", val |-> b]]
        PROVE  RecTyped'
    BY <2>2, RecordForms, OneCallTyped
  <2> QED BY <1>3, <2>1, <2>2 DEF BeginRecord
<1>4. ASSUME NEW t \in Recorder, Stamp(t) PROVE RecTyped'
  <2> DEFINE k == [kind |-> rec[t].kind, chain |-> config.chain,
                   id |-> resolving[t].id, day |-> today]
  <2>1. rec[t].step = "id" /\ Done(t)
    BY <1>4 DEF Stamp
  <2>3. resolving[t].id \in Id
    BY <2>1, AnswerParts DEF Recorder
  <2>4. k \in Key /\ k.kind = rec[t].kind
    BY <2>1, <2>3, RecParts DEF HostTyped, Config, Key
  <2>5. rec' = [rec EXCEPT ![t] = IF rec[t].kind = "tx" THEN [step |-> "write", key |-> k]
                                  ELSE [step |-> "write", key |-> k, val |-> rec[t].val]]
    BY <1>4 DEF Stamp
  <2> HIDE DEF k
  <2>6. CASE rec[t].kind = "tx"
    BY <2>4, <2>5, <2>6, RecordForms, OneCallTyped
  <2>7. CASE rec[t].kind # "tx"
    <3>1. rec[t].val \in Balances
      BY <2>1, <2>7, RecParts
    <3> QED BY <2>4, <2>5, <2>7, <3>1, RecordForms, OneCallTyped
  <2> QED BY <2>6, <2>7
<1>5. ASSUME NEW t \in Recorder, Write(t) PROVE RecTyped'
  <2>1. rec' = [rec EXCEPT ![t] = NoCall]
    BY <1>5 DEF Write
  <2> QED BY <2>1, RecordForms, OneCallTyped DEF NoCall
<1> QED BY <1>1, <1>2, <1>3, <1>4, <1>5, RecSteps

\* Every step keeps the requests in their range.
LEMMA StepKeepsNetTyped ==
  ASSUME Typed, [SyncNext]_vars
  PROVE  NetTyped'
<1> USE DEF Typed
<1>1. CASE UNCHANGED network
  BY <1>1 DEF NetTyped
<1>2. CASE Send
  <2>2. ASSUME NEW s \in Slot,
               network' = [network EXCEPT ![s] =
                 [chain |-> work.chain, id |-> work.id, rows |-> work.rows,
                  delivered |-> FALSE, awaited |-> TRUE]]
        PROVE  NetTyped'
    <3>1. work.chain \in Chain /\ work.id \in Id /\ work.rows \in SUBSET Entry
      BY <1>2, WorkParts DEF Send, WorkTyped
    <3>2. [chain |-> work.chain, id |-> work.id, rows |-> work.rows,
           delivered |-> FALSE, awaited |-> TRUE] \in Sent
      BY <3>1 DEF Sent
    <3> QED BY <2>2, <3>2 DEF NetTyped
  <2> QED BY <1>2, <2>2 DEF Send
<1>3. CASE Die
  <2>1. \A s \in Slot : network[s] # NoRequest =>
          [network[s] EXCEPT !.awaited = FALSE] \in Sent
    BY DEF NetTyped, Sent
  <2>2. network' = [s \in Slot |-> IF network[s] = NoRequest \/ network[s].delivered
                                   THEN NoRequest ELSE [network[s] EXCEPT !.awaited = FALSE]]
    BY <1>3 DEF Die
  <2> QED BY <2>1, <2>2 DEF NetTyped
<1>4. ASSUME NEW s \in Slot, Receive(s) \/ Succeed(s) \/ Fail(s) PROVE NetTyped'
  <2>1. CASE network' = [network EXCEPT ![s] = NoRequest]
    BY <2>1 DEF NetTyped
  <2>2. CASE network[s] # NoRequest /\ network' = [network EXCEPT ![s].delivered = TRUE]
    <3>1. [network[s] EXCEPT !.delivered = TRUE] \in Sent
      BY <2>2 DEF NetTyped, Sent
    <3>2. network' = [network EXCEPT ![s] = [network[s] EXCEPT !.delivered = TRUE]]
      BY <2>2
    <3> QED BY <3>1, <3>2 DEF NetTyped
  <2> QED BY <1>4, <2>1, <2>2 DEF Receive, Succeed, Fail
<1> QED BY <1>1, <1>2, <1>3, <1>4, NetSteps

\* The next block is one of those the queue may run.
LEMMA NextWorkTyped ==
  ASSUME WorkTyped, UNCHANGED oldRows, queue' \in Seq(Block), work' \in Work,
         work'.step = "migrate" => work'.left \subseteq oldRows
  PROVE  WorkTyped'
BY DEF WorkTyped

\* metricsQueue and its block stay in their ranges.
LEMMA StepKeepsWorkTyped ==
  ASSUME Typed, [SyncNext]_vars
  PROVE  WorkTyped'
<1> USE DEF Typed
<1>0. UNCHANGED oldRows
  BY HostSteps DEF EndMigration, NextDay, Reconfigure, dbVars
<1>a. work \in Work /\ queue \in Seq(Block)
  BY DEF WorkTyped
<1>1. CASE UNCHANGED <<queue, work>>
  BY <1>0, <1>1 DEF WorkTyped
<1>2. CASE Upload
  BY <1>2, <1>0, BlockForms DEF Upload, WorkTyped
<1>b. ASSUME work' = Rest, queue' \in Seq(Block) PROVE WorkTyped'
  BY <1>b, <1>0, NextWorkTyped DEF Work, Rest
<1>3. CASE Die
  BY <1>3, <1>b DEF Die
<1>4. ASSUME NEW s \in Slot, Succeed(s) PROVE WorkTyped'
  <2>1. network[s] # NoRequest
    BY <1>4 DEF Succeed
  <2>2. [kind |-> "ack", chain |-> network[s].chain, id |-> network[s].id,
         rows |-> network[s].rows] \in Block
    BY <2>1, SentParts, BlockForms
  <2> QED BY <1>0, <1>4, <2>2 DEF Succeed, WorkTyped
<1>5. CASE StartUpload
  <2>1. queue' \in Seq(Block)
    BY <1>5, HeadParts DEF StartUpload, WorkTyped
  <2>2. [step |-> "begin", addr |-> config.addr, chain |-> config.chain] \in Checking
    BY DEF HostTyped, Config, Checking
  <2>3. CASE work' = [step |-> "begin", addr |-> config.addr, chain |-> config.chain]
    <3>1. work' \in Work /\ work'.step # "migrate"
      BY <2>2, <2>3 DEF Work
    <3> QED BY <1>0, <2>1, <3>1, NextWorkTyped
  <2> QED BY <1>5, <2>1, <2>3, <1>b DEF StartUpload
<1>6. CASE BeginMigration
  <2>1. /\ queue' \in Seq(Block) /\ work \in Checking
        /\ work.addr \in Addr /\ work.chain \in Chain
    BY <1>6, <1>a, WorkForms, WorkParts DEF BeginMigration
  <2> DEFINE left == {e \in oldRows : e.key.chain = config.chain}
             next == [step |-> "migrate", addr |-> work.addr, chain |-> work.chain,
                      from |-> config.chain, ok |-> TRUE, left |-> left]
  <2>2. left \subseteq oldRows /\ left \in SUBSET OldRow
    BY DEF HostTyped
  <2>3. next \in Migrating
    BY <2>1, <2>2 DEF HostTyped, Config, Migrating
  <2>4. work' = next \/ work' = [work EXCEPT !.step = "check"]
    BY <1>6 DEF BeginMigration
  <2>5. CASE work' = next
    <3>1. work' \in Work /\ work'.left \subseteq oldRows
      BY <2>2, <2>3, <2>5 DEF Work
    <3> QED BY <1>0, <2>1, <3>1, NextWorkTyped
  <2>6. CASE work' = [work EXCEPT !.step = "check"]
    <3>1. work' \in Checking /\ work'.step # "migrate"
      BY <2>1, <2>6 DEF Checking
    <3>2. work' \in Work
      BY <3>1 DEF Work
    <3> QED BY <1>0, <2>1, <3>1, <3>2, NextWorkTyped
  <2> QED BY <2>4, <2>5, <2>6
<1>14. CASE MigrateRow
  <2>1. queue' \in Seq(Block)
    BY <1>14, <1>a DEF MigrateRow
  <2>2. /\ work \in Migrating /\ work.left \subseteq oldRows /\ work.left \in SUBSET OldRow
        /\ work.ok \in BOOLEAN
    BY <1>14, <1>a, WorkForms, WorkParts DEF MigrateRow, WorkTyped
  <2>3. PICK e \in work.left, ok \in BOOLEAN :
          work' = [work EXCEPT !.left = @ \ {e}, !.ok = AllSucceeded(@, ok)]
    BY <1>14 DEF MigrateRow
  <2>4. AllSucceeded(work.ok, ok) \in BOOLEAN
    BY <2>2 DEF AllSucceeded
  <2>5. work' \in Migrating /\ work'.left \subseteq oldRows
    BY <2>2, <2>3, <2>4 DEF Migrating
  <2>6. work' \in Work
    BY <2>5 DEF Work
  <2> QED BY <1>0, <2>1, <2>5, <2>6, NextWorkTyped
<1>15. CASE EndMigration
  <2>1. queue' \in Seq(Block) /\ work.addr \in Addr /\ work.chain \in Chain
    BY <1>15, <1>a, WorkParts DEF EndMigration
  <2>2. work' \in Checking /\ work'.step # "migrate"
    BY <1>15, <2>1 DEF EndMigration, Checking
  <2>3. work' \in Work
    BY <2>2 DEF Work
  <2> QED BY <1>0, <2>1, <2>2, <2>3, NextWorkTyped
<1>16. CASE CheckAgain
  <2>1. queue' \in Seq(Block) /\ work \in Sending
    BY <1>16, <1>a, WorkForms DEF CheckAgain
  <2>2. CASE work' = [work EXCEPT !.step = "call"]
    <3>1. work' \in Sending
      BY <2>1, <2>2 DEF Sending
    <3>2. work' \in Work /\ work'.step # "migrate"
      BY <3>1 DEF Work, Sending
    <3> QED BY <1>0, <2>1, <3>2, NextWorkTyped
  <2> QED BY <1>16, <1>b, <2>1, <2>2 DEF CheckAgain
<1>7. CASE CheckConfig
  <2>1. queue' \in Seq(Block) /\ work \in Checking
    BY <1>7, <1>a, WorkForms DEF CheckConfig
  <2>2. CASE work' = [work EXCEPT !.step = "assets"]
    <3>1. work' \in Checking
      BY <2>1, <2>2 DEF Checking
    <3>2. work' \in Work /\ work'.step # "migrate"
      BY <3>1 DEF Work, Checking
    <3> QED BY <1>0, <2>1, <3>2, NextWorkTyped
  <2> QED BY <1>7, <1>b, <2>1, <2>2 DEF CheckConfig
<1>8. CASE ReadAssets
  <2>1. queue' \in Seq(Block) /\ work.addr \in Addr /\ work.chain \in Chain
    BY <1>8, <1>a, WorkParts DEF ReadAssets
  <2>2. resolving[Worker].id \in Id
    BY <1>8, SyncAssumption, AnswerParts DEF ReadAssets
  <2>3. DirtyEntries("asset", work.chain, resolving[Worker].id) \in SUBSET Entry
    BY ReadEntries
  <2>4. work' = [step |-> "transactions", addr |-> work.addr, chain |-> work.chain,
                 id |-> resolving[Worker].id,
                 rows |-> DirtyEntries("asset", work.chain, resolving[Worker].id)]
    BY <1>8 DEF ReadAssets
  <2>5. work' \in Sending
    BY <2>1, <2>2, <2>3, <2>4 DEF Sending
  <2>6. work' \in Work /\ work'.step # "migrate"
    BY <2>5 DEF Work, Sending
  <2> QED BY <1>0, <2>1, <2>6, NextWorkTyped
<1>9. CASE ReadTransactions
  <2>1. queue' \in Seq(Block) /\ work \in Sending /\ work.rows \in SUBSET Entry
    BY <1>9, <1>a, WorkForms, WorkParts DEF ReadTransactions
  <2>2. PICK all \in SUBSET Entry :
          work' = Rest \/ work' = [work EXCEPT !.step = "send", !.rows = all]
    <3>1. work.rows \cup DirtyEntries("tx", work.chain, work.id) \in SUBSET Entry
      BY <2>1, ReadEntries
    <3> QED BY <1>9, <3>1 DEF ReadTransactions
  <2>3. CASE work' = [work EXCEPT !.step = "send", !.rows = all]
    <3>1. work' \in Sending
      BY <2>1, <2>3 DEF Sending
    <3>2. work' \in Work /\ work'.step # "migrate"
      BY <3>1 DEF Work, Sending
    <3> QED BY <1>0, <2>1, <3>2, NextWorkTyped
  <2> QED BY <1>b, <2>1, <2>2, <2>3
<1>10. CASE Send
  BY <1>10, <1>a, <1>b DEF Send
<1>11. CASE StartAcknowledge
  <2>1. /\ queue # <<>> /\ Head(queue).kind = "ack" /\ queue' = Tail(queue)
        /\ work' = [step |-> "ack", chain |-> Head(queue).chain, id |-> Head(queue).id,
                    rows |-> Head(queue).rows]
    BY <1>11 DEF StartAcknowledge
  <2>2. /\ queue' \in Seq(Block) /\ Head(queue).chain \in Chain /\ Head(queue).id \in Id
        /\ Head(queue).rows \in SUBSET Entry
    BY <1>a, <2>1, HeadParts
  <2>3. work' \in Acking
    BY <2>1, <2>2 DEF Acking
  <2>4. work' \in Work /\ work'.step # "migrate"
    BY <2>3 DEF Work, Acking
  <2> QED BY <1>0, <2>2, <2>4, NextWorkTyped
<1>12. CASE Acknowledge
  <2>1. /\ queue' \in Seq(Block) /\ work \in Acking
        /\ work.chain \in Chain /\ work.id \in Id /\ work.rows \in SUBSET Entry
    BY <1>12, <1>a, WorkForms, WorkParts DEF Acknowledge
  <2>2. PICK e \in work.rows :
          \/ work' = [step |-> "clean", kind |-> "asset", chain |-> work.chain, id |-> work.id]
          \/ work' = [work EXCEPT !.rows = @ \ {e}]
    BY <1>12 DEF Acknowledge
  <2>3. [step |-> "clean", kind |-> "asset", chain |-> work.chain, id |-> work.id] \in Cleaning
    BY <2>1 DEF Cleaning
  <2>4. [work EXCEPT !.rows = @ \ {e}] \in Acking
    BY <2>1 DEF Acking
  <2>5. work' \in Work /\ work'.step # "migrate"
    BY <2>2, <2>3, <2>4 DEF Work, Acking, Cleaning
  <2> QED BY <1>0, <2>1, <2>5, NextWorkTyped
<1>13. CASE Clean
  <2>1. queue' \in Seq(Block) /\ work \in Cleaning
    BY <1>13, <1>a, WorkForms DEF Clean
  <2>2. CASE work' = [work EXCEPT !.kind = "tx"]
    <3>1. work' \in Cleaning
      BY <2>1, <2>2 DEF Cleaning
    <3>2. work' \in Work /\ work'.step # "migrate"
      BY <3>1 DEF Work, Cleaning
    <3> QED BY <1>0, <2>1, <3>2, NextWorkTyped
  <2> QED BY <1>13, <1>b, <2>1, <2>2 DEF Clean
<1> QED BY <1>1, <1>2, <1>3, <1>4, <1>5, <1>6, <1>7, <1>8, <1>9, <1>10, <1>11, <1>12, <1>13,
           <1>14, <1>15, <1>16, WorkSteps DEF WorkerStep

\* The initial states are in range.
LEMMA InitTyped == SyncInit => Typed
<1> SUFFICES ASSUME SyncInit PROVE Typed
  OBVIOUS
<1>1. MapInv
  BY InitMapInv DEF SyncInit
<1>2. /\ oldRows \subseteq OldRow
      /\ \A e \in oldRows : e.updated /\ (e.key.kind = "tx" => e.val.count \in Nat)
  <2>1. SUFFICES ASSUME NEW e \in OldEntries
                 PROVE  e \in OldRow /\ e.updated /\ (e.key.kind = "tx" => e.val.count \in Nat)
    BY DEF SyncInit
  <2>2. /\ e \in [key : Key, val : OldVals, updated : {TRUE}]
        /\ e.key.kind = "tx" <=> "count" \in DOMAIN e.val
    BY DEF OldEntries
  <2>3. e.val \in Balances \cup [count : Nat \ {0}]
    BY <2>2, SyncAssumption
  <2>4. e \in OldRow /\ e.updated
    BY <2>2, <2>3 DEF OldRow, Value
  <2>5. e.key.kind = "tx" => e.val \in [count : Nat \ {0}]
    BY <2>2, <2>3, SyncAssumption
  <2>6. e.key.kind = "tx" => e.val.count \in Nat
    BY <2>5
  <2> QED BY <2>4, <2>6
<1>3. RowsTyped
  BY DEF SyncInit, RowsTyped
<1>4. HostTyped
  BY <1>2, SyncAssumption DEF SyncInit, HostTyped, Day
<1>5. RecTyped
  BY RecordForms DEF SyncInit, RecTyped, NoCall
<1>6. WorkTyped
  BY DEF SyncInit, WorkTyped, Work, Rest
<1>7. NetTyped
  BY DEF SyncInit, NetTyped
<1> QED BY <1>1, <1>3, <1>4, <1>5, <1>6, <1>7 DEF Typed

\* Every step of the pipeline stays in range.
LEMMA StepKeepsTyped == Typed /\ [SyncNext]_vars => Typed'
BY StepKeepsMap, StepKeepsRowsTyped, StepKeepsHostTyped, StepKeepsRecTyped, StepKeepsNetTyped,
   StepKeepsWorkTyped DEF Typed

\* Typed holds in every reachable state.
LEMMA TypedAlways == SyncSpec => []Typed
BY InitTyped, StepKeepsTyped, PTL DEF SyncSpec

\* Every variable stays in its range, for any wallets, networks, recorders and bounds:
\* rows, calls, requests and answers hold what the code reads from them later.
THEOREM SyncTypeCorrect == SyncSpec => []SyncTypeOK
<1>1. ASSUME Typed PROVE SyncTypeOK
  <2>1. MapTypeOK /\ received \in [Key -> SUBSET Value] /\ migrated \subseteq Chain
        /\ oldRows \subseteq OldRow /\ config \in Config /\ window \subseteq Config
        /\ today \in Day
    BY <1>1 DEF Typed, MapInv, RowsTyped, HostTyped
  <2>2. rows \in [Key -> [val : Value, updated : BOOLEAN] \cup {NoRow}]
    BY <1>1 DEF Typed, RowsTyped, Row
  <2>3. rec \in [Recorder -> Record]
    BY <1>1 DEF Typed, RecTyped
  <2>4. \A s \in Slot : network[s] # NoRequest =>
          /\ network[s].chain \in Chain /\ network[s].id \in Id
          /\ network[s].rows \subseteq Entry
          /\ network[s].delivered \in BOOLEAN /\ network[s].awaited \in BOOLEAN
    BY <1>1, SentParts DEF Typed
  <2> QED BY <2>1, <2>2, <2>3, <2>4 DEF SyncTypeOK, Record
<1> QED BY <1>1, TypedAlways, PTL

-----------------------------------------------------------------------------
(***************************************************************************)
(* A confirmed row is one the server has.  AckedWasReceived is inductive   *)
(* with the same fact about everything on the way to a confirmation: a     *)
(* delivered request, its block on metricsQueue, and that block at work.   *)
(***************************************************************************)
Known(es) == \A e \in es : e.val \in received[e.key]

AnswersKnown ==
  \A s \in Slot : network[s] # NoRequest /\ network[s].delivered => Known(network[s].rows)
QueueKnown == \A i \in 1 .. Len(queue) : queue[i].kind = "ack" => Known(queue[i].rows)
WorkKnown == work.step = "ack" => Known(work.rows)

Confirming == AnswersKnown /\ QueueKnown /\ WorkKnown /\ AckedWasReceived

\* The server forgets nothing.
LEMMA ReceivedGrows ==
  ASSUME Typed, [SyncNext]_vars, NEW k \in Key
  PROVE  received[k] \subseteq received'[k]
<1>1. CASE UNCHANGED received
  BY <1>1
<1>2. ASSUME NEW s \in Slot, Receive(s) PROVE received[k] \subseteq received'[k]
  BY <1>2 DEF Receive
<1> QED BY <1>1, <1>2, RowsSteps DEF Write, MigrateRow, Acknowledge, Clean, Remap, netVars

\* What the server knew it knows.
LEMMA KnownStays ==
  ASSUME Typed, [SyncNext]_vars, NEW es \in SUBSET Entry, Known(es)
  PROVE  Known(es)'
<1> SUFFICES ASSUME NEW e \in es PROVE e.val \in received'[e.key]
  BY DEF Known
<1>1. e.key \in Key
  BY EntryParts
<1> QED BY <1>1, ReceivedGrows DEF Known

\* A request is delivered with all its rows.
LEMMA StepKeepsAnswersKnown ==
  ASSUME Typed, Confirming, [SyncNext]_vars
  PROVE  AnswersKnown'
<1> SUFFICES ASSUME NEW s \in Slot, network'[s] # NoRequest, network'[s].delivered,
                    NEW e \in network'[s].rows
             PROVE  e.val \in received'[e.key]
  BY DEF AnswersKnown, Known
<1>0. network \in [Slot -> Sent \cup {NoRequest}]
  BY DEF Typed, NetTyped
<1>a. ASSUME network[s] # NoRequest, network[s].delivered, network'[s].rows = network[s].rows
      PROVE  e.val \in received'[e.key]
  <2>1. e \in Entry /\ e.val \in received[e.key]
    BY <1>a, SentParts DEF Typed, Confirming, AnswersKnown, Known
  <2> QED BY <2>1, EntryParts, ReceivedGrows
<1>1. CASE UNCHANGED network
  BY <1>1, <1>a
<1>2. CASE Send
  BY <1>0, <1>2, <1>a DEF Send
<1>3. CASE Die
  BY <1>3, <1>0 DEF Die, Sent
<1>4. ASSUME NEW r \in Slot, Receive(r) PROVE e.val \in received'[e.key]
  <2>1. network[r] # NoRequest /\ ~network[r].delivered
    BY <1>4 DEF Receive
  <2>2. CASE s # r
    BY <1>0, <1>4, <1>a, <2>2 DEF Receive
  <2>3. CASE s = r
    <3>1. network'[s].rows = network[s].rows
      BY <1>0, <1>4, <2>3 DEF Receive, Sent
    <3>2. e.key \in Key
      BY <2>1, <2>3, <3>1, SentParts, EntryParts DEF Typed
    <3>3. received' = [k \in Key |-> received[k] \cup
                         {f.val : f \in {g \in network[s].rows : g.key = k}}]
      BY <1>4, <2>3 DEF Receive
    <3> QED BY <3>1, <3>2, <3>3
  <2> QED BY <2>2, <2>3
<1>5. ASSUME NEW r \in Slot, Succeed(r) \/ Fail(r) PROVE e.val \in received'[e.key]
  <2>1. network' = [network EXCEPT ![r] = NoRequest]
    BY <1>5 DEF Succeed, Fail
  <2> QED BY <1>0, <1>a, <2>1
<1> QED BY <1>1, <1>2, <1>3, <1>4, <1>5, NetSteps

\* An answer is put on the queue with the rows the server has.
LEMMA StepKeepsQueueKnown ==
  ASSUME Typed, Confirming, [SyncNext]_vars
  PROVE  QueueKnown'
<1> SUFFICES ASSUME NEW i \in 1 .. Len(queue'), queue'[i].kind = "ack", NEW e \in queue'[i].rows
             PROVE  e.val \in received'[e.key]
  BY DEF QueueKnown, Known
<1>0. queue \in Seq(Block)
  BY DEF Typed, WorkTyped
<1>a. ASSUME NEW j \in 1 .. Len(queue), queue'[i] = queue[j] PROVE e.val \in received'[e.key]
  <2>1. queue[j] \in Block /\ queue[j].kind = "ack"
    BY <1>0, <1>a
  <2>2. e \in Entry
    BY <1>a, <2>1 DEF Block
  <2>3. e.val \in received[e.key]
    BY <1>a, <2>1 DEF Confirming, QueueKnown, Known
  <2> QED BY <2>2, <2>3, EntryParts, ReceivedGrows
<1>1. CASE UNCHANGED queue
  BY <1>1, <1>a
<1>2. CASE queue # <<>> /\ queue' = Tail(queue)
  <2>1. i + 1 \in 1 .. Len(queue) /\ queue'[i] = queue[i + 1]
    BY <1>0, <1>2
  <2> QED BY <1>a, <2>1
<1>3. CASE Upload
  <2>1. queue' = Append(queue, [kind |-> "upload"])
    BY <1>3 DEF Upload
  <2>2. i \in 1 .. Len(queue) /\ queue'[i] = queue[i]
    BY <1>0, <2>1
  <2> QED BY <1>a, <2>2
<1>4. CASE Die
  BY <1>4 DEF Die
<1>5. ASSUME NEW s \in Slot, Succeed(s) PROVE e.val \in received'[e.key]
  <2>1. /\ network[s] # NoRequest /\ network[s].delivered /\ UNCHANGED received
        /\ queue' = Append(queue, [kind |-> "ack", chain |-> network[s].chain,
                                   id |-> network[s].id, rows |-> network[s].rows])
    BY <1>5 DEF Succeed
  <2>2. CASE i \in 1 .. Len(queue)
    <3>1. queue'[i] = queue[i]
      BY <1>0, <2>1, <2>2
    <3> QED BY <1>a, <2>2, <3>1
  <2>3. CASE i = Len(queue) + 1
    <3>1. queue'[i].rows = network[s].rows
      BY <1>0, <2>1, <2>3
    <3> QED BY <2>1, <3>1 DEF Confirming, AnswersKnown, Known
  <2>4. i \in 1 .. Len(queue) \/ i = Len(queue) + 1
    BY <1>0, <2>1
  <2> QED BY <2>2, <2>3, <2>4
<1> QED BY <1>1, <1>2, <1>3, <1>4, <1>5, WorkSteps
        DEF WorkerStep, StartUpload, BeginMigration, MigrateRow, EndMigration, CheckConfig, ReadAssets,
            ReadTransactions, CheckAgain, Send, StartAcknowledge, Acknowledge, Clean

\* Rows are acknowledged from such a block.
LEMMA StepKeepsWorkKnown ==
  ASSUME Typed, Confirming, [SyncNext]_vars
  PROVE  WorkKnown'
<1> SUFFICES ASSUME work'.step = "ack", NEW e \in work'.rows
             PROVE  e.val \in received'[e.key]
  BY DEF WorkKnown, Known
<1>0. work \in Work /\ queue \in Seq(Block)
  BY DEF Typed, WorkTyped
<1>a. ASSUME work.step = "ack", e \in work.rows PROVE e.val \in received'[e.key]
  <2>1. e \in Entry /\ e.val \in received[e.key]
    BY <1>a, <1>0, WorkParts DEF Confirming, WorkKnown, Known
  <2> QED BY <2>1, EntryParts, ReceivedGrows
<1>1. CASE UNCHANGED work
  BY <1>1, <1>a
<1>2. CASE StartAcknowledge
  <2>1. /\ queue # <<>> /\ Head(queue).kind = "ack" /\ work'.rows = Head(queue).rows
        /\ UNCHANGED received
    BY <1>2 DEF StartAcknowledge, netVars
  <2>2. 1 \in 1 .. Len(queue) /\ Head(queue) = queue[1]
    BY <1>0, <2>1
  <2> QED BY <2>1, <2>2 DEF Confirming, QueueKnown, Known
<1>3. CASE Acknowledge
  <2>1. work.step = "ack" /\ work \in Acking
    BY <1>0, <1>3, WorkForms DEF Acknowledge
  <2>2. PICK f \in work.rows :
          \/ work' = [step |-> "clean", kind |-> "asset", chain |-> work.chain, id |-> work.id]
          \/ work' = [work EXCEPT !.rows = @ \ {f}]
    BY <1>3 DEF Acknowledge
  <2>3. e \in work.rows
    BY <2>1, <2>2 DEF Acking
  <2> QED BY <1>a, <2>1, <2>3
<1>4. CASE BeginMigration \/ MigrateRow \/ EndMigration
  <2>1. work'.step \in {"migrate", "check"}
    BY <1>0, <1>4, MergeSteps
  <2> QED BY <2>1
<1>5. CASE CheckConfig \/ ReadAssets \/ StartUpload \/ Send \/ Die
  <2>1. CASE CheckConfig
    <3>1. work \in Checking
      BY <1>0, <2>1, WorkForms DEF CheckConfig
    <3> QED BY <2>1, <3>1 DEF CheckConfig, Checking, Rest
  <2>2. CASE ReadAssets \/ StartUpload \/ Send \/ Die
    BY <2>2 DEF ReadAssets, StartUpload, Send, Die, Rest
  <2> QED BY <1>5, <2>1, <2>2
<1>6. CASE ReadTransactions \/ CheckAgain
  <2>1. work \in Sending
    BY <1>0, <1>6, WorkForms DEF ReadTransactions, CheckAgain
  <2>2. CASE ReadTransactions
    BY <2>1, <2>2 DEF ReadTransactions, Sending, Rest
  <2>3. CASE CheckAgain
    BY <2>1, <2>3 DEF CheckAgain, Sending, Rest
  <2> QED BY <1>6, <2>2, <2>3
<1>7. CASE Clean
  <2>1. work \in Cleaning
    BY <1>0, <1>7, WorkForms DEF Clean
  <2> QED BY <1>7, <2>1 DEF Clean, Cleaning, Rest
<1> QED BY <1>1, <1>2, <1>3, <1>4, <1>5, <1>6, <1>7, WorkSteps DEF WorkerStep, Upload, Succeed

\* Only an acknowledgement confirms, and only the value it was sent with.
LEMMA StepKeepsAcked ==
  ASSUME Typed, Confirming, [SyncNext]_vars
  PROVE  AckedWasReceived'
<1> SUFFICES ASSUME NEW k \in Key, rows'[k] # NoRow, ~rows'[k].updated
             PROVE  rows'[k].val \in received'[k]
  BY DEF AckedWasReceived
<1>0. rows \in [Key -> Row \cup {NoRow}]
  BY DEF Typed, RowsTyped
<1>a. ASSUME rows'[k] = rows[k] PROVE rows'[k].val \in received'[k]
  BY <1>a, ReceivedGrows DEF Confirming, AckedWasReceived
<1>b. ASSUME NEW l \in Key, NEW v, Put(l, v) PROVE rows'[k].val \in received'[k]
  BY <1>0, <1>a, <1>b DEF Put
<1>1. CASE UNCHANGED rows
  BY <1>1, <1>a
<1>2. ASSUME NEW t \in Recorder, Write(t) PROVE rows'[k].val \in received'[k]
  <2>1. rec[t].key \in Key
    BY <1>2, RecParts DEF Write, Typed
  <2>2. \/ Put(rec[t].key, CountAfter(rec[t].key)) \/ Put(rec[t].key, rec[t].val)
        \/ UNCHANGED rows
    BY <1>2 DEF Write
  <2> QED BY <1>1, <1>b, <2>1, <2>2
<1>3. CASE MigrateRow
  <2>1. work.step = "migrate" /\ (UNCHANGED rows \/ \E e \in work.left : Put(e.key, e.val))
    BY <1>3, MigratePuts DEF Typed
  <2>2. \A e \in work.left : e.key \in Key
    BY <2>1, LeftParts DEF Typed
  <2> QED BY <1>1, <1>b, <2>1, <2>2
<1>4. CASE Acknowledge
  <2>1. work.step = "ack" /\ work.rows \in SUBSET Entry
    BY <1>4, WorkParts DEF Acknowledge, Typed, WorkTyped
  <2>2. ASSUME NEW e \in work.rows, UnchangedSinceSent(e),
               rows' = [rows EXCEPT ![e.key].updated = FALSE]
        PROVE  rows'[k].val \in received'[k]
    <3>1. e.key \in Key /\ e.val \in received[e.key]
      BY <2>1, EntryParts DEF Confirming, WorkKnown, Known
    <3>2. CASE k = e.key
      <4>1. rows[k] \in Row /\ rows[k].val = e.val
        BY <1>0, <2>2, <3>2 DEF UnchangedSinceSent, Dirty
      <4>2. rows'[k].val = e.val
        BY <1>0, <2>2, <3>1, <3>2, <4>1 DEF Row
      <4> QED BY <3>1, <3>2, <4>2, ReceivedGrows
    <3>3. CASE k # e.key
      BY <1>0, <1>a, <2>2, <3>1, <3>3
    <3> QED BY <3>2, <3>3
  <2> QED BY <1>1, <1>4, <2>2 DEF Acknowledge
<1>5. CASE Clean
  <2>1. UNCHANGED rows \/ rows'[k] = NoRow \/ rows'[k] = rows[k]
    BY <1>5 DEF Clean
  <2> QED BY <1>1, <1>a, <2>1
<1>6. CASE Remap
  <2>1. rows'[k] = NoRow \/ rows'[k] = rows[k]
    BY <1>6 DEF Remap, Purge
  <2> QED BY <1>a, <2>1
<1>7. ASSUME NEW s \in Slot, Receive(s) PROVE rows'[k].val \in received'[k]
  <2>1. UNCHANGED rows
    BY <1>7 DEF Receive, dbVars
  <2> QED BY <1>1, <2>1
<1> QED BY <1>1, <1>2, <1>3, <1>4, <1>5, <1>6, <1>7, RowsSteps

\* Everything on the way to a confirmation stays known to the server.
LEMMA StepKeepsConfirming == Typed /\ Confirming /\ [SyncNext]_vars => Confirming'
BY StepKeepsAnswersKnown, StepKeepsQueueKnown, StepKeepsWorkKnown, StepKeepsAcked DEF Confirming

\* At the start nothing is confirmed.
LEMMA InitConfirming == SyncInit => Confirming
<1> SUFFICES ASSUME SyncInit PROVE Confirming
  OBVIOUS
<1> QED BY DEF SyncInit, Confirming, AnswersKnown, QueueKnown, WorkKnown, AckedWasReceived, Rest

\* A row is confirmed only with the value the server has, for any number of requests on
\* the wire, recorders, failures and process deaths (acknowledgeUploadedAsset,
\* acknowledgeUploadedTransaction).
THEOREM AcknowledgedWasReceived == SyncSpec => []AckedWasReceived
<1>1. Confirming => AckedWasReceived
  BY DEF Confirming
<1> QED BY <1>1, InitConfirming, StepKeepsConfirming, TypedAlways, PTL DEF SyncSpec

-----------------------------------------------------------------------------
(***************************************************************************)
(* A row that disappears was reported, or its UUID was given up.           *)
(***************************************************************************)
\* The UUIDs whose rows a removal or a launch deletes are in use no more.
LEMMA GoneAreUnmapped ==
  ASSUME NEW gone, Launch(gone) \/ RunRemove(gone) \/ RunReset(gone)
  PROVE  \A i \in gone : i \notin Ids(mapping')
<1>1. CASE Launch(gone)
  <2>1. \/ gone = {}
        \/ Saved(legacy.map, legacy.removed, gone) /\ mapping' = legacy.map
    BY <1>1 DEF Launch, SaveFailed
  <2> QED BY <2>1 DEF Saved, Released
<1>2. CASE RunRemove(gone)
  <2>1. gone = {} \/ \E removed : persistMapping(mapping', removed, gone)
    BY <1>2 DEF RunRemove
  <2> QED BY <2>1 DEF persistMapping, Saved, SaveFailed, Released
<1>3. CASE RunReset(gone)
  <2>1. mapping' = Empty /\ persistMapping(Empty, usedIds, gone)
    BY <1>3 DEF RunReset
  <2> QED BY <2>1 DEF persistMapping, Saved, SaveFailed, Released
<1> QED BY <1>1, <1>2, <1>3

\* What is written is a row.
LEMMA PutIsRow ==
  ASSUME RowsTyped, NEW l \in Key, NEW v \in Value, Put(l, v), NEW k \in Key, rows[k] # NoRow
  PROVE  rows'[k] # NoRow
<1>1. [val |-> v, updated |-> TRUE] \in Row
  BY RowParts
<1> QED BY <1>1, NoRowIsNone DEF Put, RowsTyped

\* The steps that take rows out: the clean-up and a removal.
LEMMA StepDeletesReported ==
  ASSUME Typed, Confirming, [SyncNext]_vars, NEW k \in Key, rows[k] # NoRow, rows'[k] = NoRow
  PROVE  rows[k].val \in received[k] \/ k.id \notin Ids(mapping')
<1>0. rows \in [Key -> Row \cup {NoRow}]
  BY DEF Typed, RowsTyped
<1>1. ~UNCHANGED rows
  OBVIOUS
<1>2. ASSUME NEW t \in Recorder, Write(t) PROVE FALSE
  <2>1. rec[t].step = "write" /\ rec[t].key \in Key
    BY <1>2, RecParts DEF Write, Typed
  <2>2. \/ rec[t].key.kind = "tx" /\ Put(rec[t].key, CountAfter(rec[t].key))
        \/ rec[t].key.kind = "asset" /\ Put(rec[t].key, rec[t].val)
    BY <1>1, <1>2 DEF Write
  <2>3. \E v \in Value : Put(rec[t].key, v)
    BY <2>1, <2>2, RecParts, CountAfterIsValue DEF Typed
  <2> QED BY <2>1, <2>3, PutIsRow DEF Typed
<1>3. CASE MigrateRow
  <2>1. work.step = "migrate" /\ \E e \in work.left : Put(e.key, e.val)
    BY <1>1, <1>3, MigratePuts DEF Typed
  <2> QED BY <2>1, LeftParts, PutIsRow DEF Typed
<1>4. CASE Acknowledge
  <2>1. work.rows \in SUBSET Entry
    BY <1>4, WorkParts DEF Acknowledge, Typed, WorkTyped
  <2>2. PICK e \in work.rows : rows' = [rows EXCEPT ![e.key].updated = FALSE]
    BY <1>1, <1>4 DEF Acknowledge
  <2>3. e.key \in Key /\ rows[k] \in Row
    BY <1>0, <2>1, EntryParts
  <2>4. [rows[k] EXCEPT !.updated = FALSE] \in Row
    BY <2>3 DEF Row
  <2> QED BY <1>0, <2>2, <2>3, <2>4, NoRowIsNone
<1>5. CASE Clean
  <2>1. Past(k)
    BY <1>1, <1>5 DEF Clean
  <2>2. ~rows[k].updated
    BY <2>1 DEF Past, Dirty
  <2> QED BY <2>2 DEF Confirming, AckedWasReceived
<1>6. CASE Remap
  <2>1. PICK gone \in SUBSET Removable :
          (Launch(gone) \/ RunRemove(gone) \/ RunReset(gone)) /\ Purge(gone)
    BY <1>6 DEF Remap
  <2>2. k.id \in gone
    BY <2>1 DEF Purge
  <2> QED BY <2>1, <2>2, GoneAreUnmapped
<1>7. ASSUME NEW s \in Slot, Receive(s) PROVE FALSE
  BY <1>1, <1>7 DEF Receive, dbVars
<1> QED BY <1>1, <1>2, <1>3, <1>4, <1>5, <1>6, <1>7, RowsSteps

\* Statistics leave the tables only after the server got them, or because no address
\* uses their UUID any more (deleteAssetsBeforeToday, saveAddressMappings).
THEOREM DeletedOnlyWhenReported == SyncSpec => DeletedWasReported
<1>1. Typed /\ Confirming /\ [SyncNext]_vars =>
        [\A k \in Key : rows[k] # NoRow /\ rows'[k] = NoRow =>
           rows[k].val \in received[k] \/ k.id \notin Ids(mapping')]_vars
  BY StepDeletesReported
<1> QED BY <1>1, InitConfirming, StepKeepsConfirming, TypedAlways, PTL DEF SyncSpec, DeletedWasReported

-----------------------------------------------------------------------------
(***************************************************************************)
(* What is sent belongs to the selected wallet: an answer of id(for:), and *)
(* the UUID the worker took from one, stay the wallet's until the wallet   *)
(* is forgotten, the rows it read are filed under that UUID, and nothing   *)
(* the worker holds outlives the process.                                  *)
(***************************************************************************)
Owns(a, i) == mapping[a] = i \/ a \in forgotten

AnswersOwned ==
  \A c \in Caller : resolving[c].at = "done" => Owns(resolving[c].addr, resolving[c].id)
LookUpOwned ==
  work.step = "assets" => resolving[Worker] # Idle /\ resolving[Worker].addr = work.addr
WorkOwned == work.step \in {"transactions", "send", "call"} => Owns(work.addr, work.id)
WorkKeyed ==
  work.step \in {"transactions", "send", "call"} =>
    \A e \in work.rows : e.key.chain = work.chain /\ e.key.id = work.id
LookedAgain ==
  work.step = "call" =>
    \E c \in window : c.collect /\ c.report /\ c.chain = work.chain /\ c.addr = work.addr
DeadIsEmpty ==
  ~running => /\ work = Rest /\ queue = <<>>
              /\ \A s \in Slot : network[s] # NoRequest => ~network[s].awaited

Owned == AnswersOwned /\ LookUpOwned /\ WorkOwned /\ WorkKeyed /\ LookedAgain /\ DeadIsEmpty

\* Adopting UUIDs leaves the mapped addresses alone.
LEMMA AdoptKeepsMapped ==
  ASSUME MapTypeOK, NEW as \in SUBSET Addr, NEW added \in NewIds(as),
         \A a \in as : mapping[a] = NoId, Adopt(added), NEW a \in Addr
  PROVE  /\ mapping[a] # NoId => mapping'[a] = mapping[a]
         /\ a \in as => mapping'[a] = added[a]
<1>1. DOMAIN added = as
  BY NewIdsAreNew
<1> QED BY <1>1 DEF Adopt

\* While the process runs, an address keeps its UUID or is forgotten.
LEMMA StepKeepsOwners ==
  ASSUME MapInv, HostTyped, WorkTyped, [SyncNext]_vars, running, ~Exit,
         NEW a \in Addr, NEW i \in Id, Owns(a, i)
  PROVE  Owns(a, i)'
<1> USE DEF Owns
<1>0. i # NoId /\ MapTypeOK
  BY MapAssumption DEF MapInv
<1>1. CASE UNCHANGED <<mapping, forgotten>>
  BY <1>1
<1>2. CASE DBFails
  BY <1>1, <1>2 DEF DBFails, memoryVars
<1>3. ASSUME NEW gone \in SUBSET Removable, RunRemove(gone) PROVE Owns(a, i)'
  <2>1. PICK b \in Head(jobs).addrs :
          /\ forgotten' = forgotten \cup {b}
          /\ mapping' = mapping \/ mapping' = [mapping EXCEPT ![b] = NoId]
    BY <1>3 DEF RunRemove
  <2> QED BY <1>0, <2>1 DEF MapTypeOK, AddressTable
<1>4. ASSUME NEW gone \in SUBSET Removable, RunReset(gone) PROVE Owns(a, i)'
  BY <1>4 DEF RunReset
<1>5. ASSUME NEW gone \in SUBSET Removable, Launch(gone) PROVE Owns(a, i)'
  BY <1>5 DEF Launch
<1>6. CASE RunGenerate
  <2> DEFINE as == {b \in Head(jobs).addrs : mapping[b] = NoId}
  <2>1. PICK added \in NewIds(as) : Adopt(added) /\ UNCHANGED forgotten
    BY <1>6 DEF RunGenerate
  <2>2. as \in SUBSET Addr /\ \A b \in as : mapping[b] = NoId
    <3>1. Head(jobs) \in Job
      BY <1>0, <1>6 DEF MapTypeOK, RunGenerate
    <3> QED BY <3>1 DEF Job
  <2> HIDE DEF as
  <2> QED BY <1>0, <2>1, <2>2, AdoptKeepsMapped
<1>7. ASSUME NEW c \in Caller, Insert(c) PROVE Owns(a, i)'
  <2> DEFINE b == resolving[c].addr
  <2>1. b \in Addr /\ UNCHANGED forgotten
    BY <1>7, BusyCaller DEF Insert, Idle
  <2>2. CASE AlreadyMapped(b)
    BY <1>1, <1>7, <2>1, <2>2 DEF Insert, memoryVars
  <2>3. CASE ~AlreadyMapped(b)
    <3>1. PICK added \in NewIds({b}) : Adopt(added)
      BY <1>7, <2>3 DEF Insert
    <3>2. mapping[b] = NoId
      BY <2>3 DEF AlreadyMapped
    <3> QED BY <1>0, <2>1, <3>1, <3>2, AdoptKeepsMapped
  <2> QED BY <2>2, <2>3
<1>8. CASE GenerateMappings \/ RemoveMapping \/ ResetAllMappings
  BY <1>1, <1>8 DEF GenerateMappings, RemoveMapping, ResetAllMappings, Request, memoryVars
<1>9. ASSUME NEW c \in Caller, (\E b \in Addr : Ask(c, b)) \/ LookUp(c) \/ Done(c)
      PROVE  Owns(a, i)'
  BY <1>1, <1>9 DEF Ask, LookUp, Done, memoryVars
<1>10. CASE UNCHANGED mapVars
  BY <1>1, <1>10 DEF mapVars, memoryVars
<1> QED BY <1>2, <1>3, <1>4, <1>5, <1>6, <1>7, <1>8, <1>9, <1>10, MapPart DEF Next

\* How a caller of id(for:) comes on.
LEMMA CallerSteps ==
  ASSUME Typed, [SyncNext]_vars, NEW c \in Caller, resolving'[c] # resolving[c]
  PROVE  \/ Exit /\ resolving'[c] = Idle
         \/ Done(c) /\ resolving'[c] = Idle
         \/ \E a \in Addr : Ask(c, a) /\ resolving'[c] = [at |-> "lookup", addr |-> a]
         \/ LookUp(c) \/ Insert(c)
<1>0. resolving \in [Caller -> Progress]
  BY DEF Typed, MapInv, MapTypeOK
<1>1. ~UNCHANGED resolving
  OBVIOUS
<1>2. Next
  BY <1>1, MapPart DEF Typed, DBFails, mapVars
<1>3. ASSUME NEW d \in Caller, NEW a \in Addr, Ask(d, a)
      PROVE  Ask(c, a) /\ resolving'[c] = [at |-> "lookup", addr |-> a]
  BY <1>0, <1>3 DEF Ask
<1>4. ASSUME NEW d \in Caller, LookUp(d) PROVE LookUp(c)
  BY <1>0, <1>4 DEF LookUp
<1>5. ASSUME NEW d \in Caller, Insert(d) PROVE Insert(c)
  <2>1. d = c
    BY <1>0, <1>5 DEF Insert
  <2> QED BY <1>5, <2>1
<1>6. ASSUME NEW d \in Caller, Done(d) PROVE Done(c) /\ resolving'[c] = Idle
  BY <1>0, <1>6 DEF Done
<1>7. CASE Exit
  BY <1>7 DEF Exit
<1>8. ASSUME NEW gone \in SUBSET Removable, Launch(gone) \/ RunRemove(gone) \/ RunReset(gone)
      PROVE  FALSE
  BY <1>1, <1>8 DEF Launch, RunRemove, RunReset
<1>9. CASE RunGenerate \/ GenerateMappings \/ RemoveMapping \/ ResetAllMappings
  BY <1>1, <1>9 DEF RunGenerate, GenerateMappings, RemoveMapping, ResetAllMappings, Request
<1> QED BY <1>2, <1>3, <1>4, <1>5, <1>6, <1>7, <1>8, <1>9 DEF Next

\* An answer is the UUID the address has when it is given.
LEMMA FreshAnswer ==
  ASSUME MapInv, NEW c \in Caller, LookUp(c) \/ Insert(c)
  PROVE  /\ resolving[c] # Idle /\ resolving'[c] # Idle
         /\ resolving'[c].addr = resolving[c].addr
         /\ resolving'[c].at = "done" => mapping'[resolving'[c].addr] = resolving'[c].id
<1> DEFINE a == resolving[c].addr
<1>0. resolving \in [Caller -> Progress] /\ MapTypeOK
  BY DEF MapInv, MapTypeOK
<1>1. resolving[c] # Idle
  BY DEF LookUp, Insert, Idle
<1>2. a \in Addr
  BY <1>1, BusyCaller
<1>3. CASE LookUp(c)
  <2>1. /\ UNCHANGED mapping
        /\ resolving'[c] = IF mapping[a] # NoId THEN Answered(a, mapping[a])
                           ELSE [at |-> "insert", addr |-> a]
    BY <1>0, <1>3 DEF LookUp, memoryVars
  <2> QED BY <1>1, <2>1 DEF Answered, Idle
<1>4. CASE Insert(c)
  <2>1. CASE AlreadyMapped(a)
    <3>1. UNCHANGED mapping /\ resolving'[c] = Answered(a, mapping[a])
      BY <1>0, <1>4, <2>1 DEF Insert, memoryVars
    <3> QED BY <1>1, <3>1 DEF Answered, Idle
  <2>2. CASE ~AlreadyMapped(a)
    <3>1. PICK added \in NewIds({a}) : Adopt(added) /\ resolving'[c] = Answered(a, added[a])
      BY <1>0, <1>4, <2>2 DEF Insert
    <3>2. mapping[a] = NoId
      BY <2>2 DEF AlreadyMapped
    <3>3. mapping'[a] = added[a]
      BY <1>0, <1>2, <3>1, <3>2, AdoptKeepsMapped
    <3> QED BY <1>1, <3>1, <3>3 DEF Answered, Idle
  <2> QED BY <2>1, <2>2
<1> QED BY <1>3, <1>4

\* Answers stay the wallet's, and new ones are.
LEMMA StepKeepsAnswersOwned ==
  ASSUME Typed, Owned, [SyncNext]_vars
  PROVE  AnswersOwned'
<1> SUFFICES ASSUME NEW c \in Caller, resolving'[c].at = "done"
             PROVE  Owns(resolving[c].addr, resolving[c].id)'
  BY DEF AnswersOwned
<1>0. MapInv /\ resolving \in [Caller -> Progress]
  BY DEF Typed, MapInv, MapTypeOK
<1>1. CASE resolving'[c] = resolving[c]
  <2>1. resolving[c].at = "done" /\ resolving[c] # Idle
    BY <1>1 DEF Idle
  <2>2. resolving[c].addr \in Addr /\ resolving[c].id \in Id /\ running
    BY <1>0, <2>1, BusyCaller DEF Progress
  <2>3. ~Exit
    <3>1. Exit => resolving'[c] = Idle
      BY DEF Exit
    <3> QED BY <1>1, <2>1, <3>1
  <2>4. Owns(resolving[c].addr, resolving[c].id)
    BY <2>1 DEF Owned, AnswersOwned
  <2> DEFINE a == resolving[c].addr
             i == resolving[c].id
  <2>5. mapping'[a] = i \/ a \in forgotten'
    <3> HIDE DEF a, i
    <3>1. a \in Addr /\ i \in Id /\ Owns(a, i)
      BY <2>2, <2>4 DEF a, i
    <3>2. Owns(a, i) => mapping[a] = i \/ a \in forgotten
      BY DEF Owns
    <3> QED BY <2>2, <2>3, <3>1, StepKeepsOwners DEF Owns, Typed
  <2> QED BY <1>1, <2>5 DEF Owns
<1>2. CASE resolving'[c] # resolving[c]
  <2>1. LookUp(c) \/ Insert(c)
    <3>1. resolving'[c] # Idle
      BY DEF Idle
    <3>2. \A a : resolving'[c] # [at |-> "lookup", addr |-> a]
      OBVIOUS
    <3> QED BY <1>2, <3>1, <3>2, CallerSteps
  <2> QED BY <1>0, <2>1, FreshAnswer DEF Owns
<1> QED BY <1>1, <1>2

\* How the block of metricsQueue comes on.
LEMMA WorkOrder ==
  ASSUME WorkTyped, [SyncNext]_vars
  PROVE  \/ UNCHANGED work
         \/ work'.step \in {"none", "begin", "migrate", "check", "ack", "clean"}
         \/ CheckConfig /\ Ask(Worker, work.addr) /\ work'.step = "assets" /\ work'.addr = work.addr
         \/ ReadAssets
         \/ /\ ReadTransactions /\ work.step = "transactions" /\ work'.step = "send"
            /\ work'.addr = work.addr /\ work'.id = work.id /\ work'.chain = work.chain
            /\ work'.rows = work.rows \cup DirtyEntries("tx", work.chain, work.id)
         \/ /\ CheckAgain /\ work.step = "send" /\ work'.step = "call"
            /\ work'.addr = work.addr /\ work'.id = work.id /\ work'.chain = work.chain
            /\ work'.rows = work.rows /\ isCurrentUploadConfig(work) /\ window' = {config}
<1>0. work \in Work
  BY DEF WorkTyped
<1>1. CASE StartUpload \/ Send \/ StartAcknowledge \/ Die
  BY <1>1 DEF StartUpload, Send, StartAcknowledge, Die, Rest
<1>2. CASE BeginMigration \/ MigrateRow \/ EndMigration
  BY <1>0, <1>2, MergeSteps
<1>3. CASE CheckConfig
  <2>1. work \in Checking
    BY <1>0, <1>3, WorkForms DEF CheckConfig
  <2>2. CASE work' = Rest
    BY <2>2 DEF Rest
  <2>3. CASE work' = [work EXCEPT !.step = "assets"] /\ Ask(Worker, work.addr)
    BY <1>3, <2>1, <2>3 DEF Checking
  <2> QED BY <1>3, <2>2, <2>3 DEF CheckConfig
<1>4. CASE ReadTransactions
  <2>1. work \in Sending /\ work.step = "transactions"
    BY <1>0, <1>4, WorkForms DEF ReadTransactions
  <2>2. CASE work' = Rest
    BY <2>2 DEF Rest
  <2> DEFINE all == work.rows \cup DirtyEntries("tx", work.chain, work.id)
  <2>4. work' = Rest \/ work' = [work EXCEPT !.step = "send", !.rows = all]
    BY <1>4 DEF ReadTransactions
  <2> HIDE DEF all
  <2>3. work' = [work EXCEPT !.step = "send", !.rows = all] =>
          /\ work'.step = "send" /\ work'.addr = work.addr /\ work'.id = work.id
          /\ work'.chain = work.chain /\ work'.rows = all
    BY <2>1 DEF Sending
  <2> QED BY <1>4, <2>1, <2>2, <2>3, <2>4 DEF all
<1>7. CASE CheckAgain
  <2>1. work \in Sending /\ work.step = "send"
    BY <1>0, <1>7, WorkForms DEF CheckAgain
  <2>2. CASE work' = Rest
    BY <2>2 DEF Rest
  <2>3. CASE work' # Rest
    <3>1. work' = [work EXCEPT !.step = "call"] /\ isCurrentUploadConfig(work) /\ window' = {config}
      BY <1>7, <2>3 DEF CheckAgain
    <3>2. /\ work'.step = "call" /\ work'.addr = work.addr /\ work'.id = work.id
          /\ work'.chain = work.chain /\ work'.rows = work.rows
      BY <2>1, <3>1 DEF Sending
    <3> QED BY <1>7, <2>1, <3>1, <3>2
  <2> QED BY <2>2, <2>3
<1>5. CASE Acknowledge
  <2>1. work \in Acking
    BY <1>0, <1>5, WorkForms DEF Acknowledge
  <2>2. PICK f \in work.rows :
          \/ work' = [step |-> "clean", kind |-> "asset", chain |-> work.chain, id |-> work.id]
          \/ work' = [work EXCEPT !.rows = @ \ {f}]
    BY <1>5 DEF Acknowledge
  <2>3. work'.step \in {"clean", "ack"}
    BY <2>1, <2>2 DEF Acking
  <2> QED BY <2>3
<1>6. CASE Clean
  <2>1. work \in Cleaning
    BY <1>0, <1>6, WorkForms DEF Clean
  <2>2. work'.step \in {"clean", "none"}
    BY <1>6, <2>1 DEF Clean, Cleaning, Rest
  <2> QED BY <2>2
<1> QED BY <1>1, <1>2, <1>3, <1>4, <1>5, <1>6, <1>7, WorkSteps DEF WorkerStep, Upload, Succeed

\* The process dies in Die only.
LEMMA ExitIsDie ==
  ASSUME [SyncNext]_vars, HostTyped, WorkTyped, running, ~running'
  PROVE  Die
<1> SUFFICES ASSUME ~Die PROVE running' = running
  OBVIOUS
<1>1. CASE Remap
  <2>1. PICK gone \in SUBSET Removable : Launch(gone) \/ RunRemove(gone) \/ RunReset(gone)
    BY <1>1 DEF Remap
  <2> QED BY <2>1 DEF Launch, RunRemove, RunReset
<1>2. CASE Map
  BY <1>2 DEF Map, RunGenerate, GenerateMappings, RemoveMapping, ResetAllMappings, Request,
              LookUp, Insert
<1>3. ASSUME NEW t \in Recorder, BeginRecord(t) \/ Stamp(t) \/ Write(t) PROVE running' = running
  BY <1>3 DEF BeginRecord, Stamp, Write, Ask, Done, DBFails, mapVars
<1>4. CASE WorkerStep
  BY <1>4 DEF WorkerStep, StartUpload, BeginMigration, MigrateRow, EndMigration, CheckConfig,
              ReadAssets, ReadTransactions, CheckAgain, Send, StartAcknowledge, Acknowledge, Clean, Ask, Done, DBFails, mapVars
<1>5. CASE \/ Upload \/ NextDay \/ Reconfigure \/ UNCHANGED vars
           \/ \E s \in Slot : Receive(s) \/ Succeed(s) \/ Fail(s)
  BY <1>5 DEF Upload, NextDay, Reconfigure, Receive, Succeed, Fail, vars, mapVars
<1> QED BY <1>1, <1>2, <1>3, <1>4, <1>5 DEF SyncNext

\* While the worker waits for its answer, nobody else touches its call.
LEMMA WorkerCall ==
  ASSUME Typed, [SyncNext]_vars, resolving[Worker] # Idle,
         resolving'[Worker] # resolving[Worker]
  PROVE  Die \/ ReadAssets \/ LookUp(Worker) \/ Insert(Worker)
<1> SUFFICES ASSUME ~Die, ~ReadAssets PROVE LookUp(Worker) \/ Insert(Worker)
  OBVIOUS
<1>0. Worker \in Caller /\ resolving \in [Caller -> Progress]
  BY SyncAssumption DEF Typed, MapInv, MapTypeOK
<1>1. CASE Remap
  <2>1. PICK gone \in SUBSET Removable : Launch(gone) \/ RunRemove(gone) \/ RunReset(gone)
    BY <1>1 DEF Remap
  <2> QED BY <2>1 DEF Launch, RunRemove, RunReset
<1>2. CASE Map
  <2>1. CASE RunGenerate \/ GenerateMappings \/ RemoveMapping \/ ResetAllMappings
    BY <2>1 DEF RunGenerate, GenerateMappings, RemoveMapping, ResetAllMappings, Request
  <2>2. ASSUME NEW c \in Caller, LookUp(c) \/ Insert(c) PROVE c = Worker
    BY <1>0, <2>2 DEF LookUp, Insert
  <2> QED BY <1>2, <2>1, <2>2 DEF Map
<1>3. ASSUME NEW t \in Recorder, BeginRecord(t) \/ Stamp(t) \/ Write(t) PROVE FALSE
  <2>1. t \in Caller /\ t # Worker
    BY DEF Recorder
  <2> QED BY <1>0, <1>3, <2>1 DEF BeginRecord, Stamp, Write, Ask, Done, DBFails, mapVars
<1>4. CASE WorkerStep
  BY <1>0, <1>4 DEF WorkerStep, StartUpload, BeginMigration, MigrateRow, EndMigration, CheckConfig,
              ReadTransactions, CheckAgain, Send, StartAcknowledge, Acknowledge, Clean, Ask, DBFails, mapVars
<1>5. CASE \/ Upload \/ NextDay \/ Reconfigure \/ UNCHANGED vars
           \/ \E s \in Slot : Receive(s) \/ Succeed(s) \/ Fail(s)
  BY <1>5 DEF Upload, NextDay, Reconfigure, Receive, Succeed, Fail, vars, mapVars
<1> QED BY <1>1, <1>2, <1>3, <1>4, <1>5 DEF SyncNext

\* Only the worker takes its own answer.
LEMMA StepKeepsLookUpOwned ==
  ASSUME Typed, Owned, [SyncNext]_vars
  PROVE  LookUpOwned'
<1> SUFFICES ASSUME work'.step = "assets"
             PROVE  resolving'[Worker] # Idle /\ resolving'[Worker].addr = work'.addr
  BY DEF LookUpOwned
<1>0. MapInv /\ Worker \in Caller /\ resolving \in [Caller -> Progress] /\ WorkTyped
  BY SyncAssumption DEF Typed, MapInv, MapTypeOK
<1>1. CASE Ask(Worker, work.addr) /\ work'.addr = work.addr
  BY <1>0, <1>1 DEF Ask, Idle
<1>2. CASE UNCHANGED work
  <2>1. resolving[Worker] # Idle /\ resolving[Worker].addr = work.addr
    BY <1>2 DEF Owned, LookUpOwned
  <2>2. ~Die /\ ~ReadAssets
    BY <1>2 DEF Die, ReadAssets, Rest
  <2> QED BY <1>0, <1>2, <2>1, <2>2, WorkerCall, FreshAnswer
<1>3. ~ReadAssets
  BY DEF ReadAssets
<1> QED BY <1>0, <1>1, <1>2, <1>3, WorkOrder

\* The UUID the worker took stays its wallet's.
LEMMA StepKeepsWorkOwned ==
  ASSUME Typed, Owned, [SyncNext]_vars
  PROVE  WorkOwned'
<1> SUFFICES ASSUME work'.step \in {"transactions", "send", "call"}
             PROVE  Owns(work.addr, work.id)'
  BY DEF WorkOwned
<1>0. MapInv /\ HostTyped /\ WorkTyped /\ work \in Work /\ Worker \in Caller
  BY SyncAssumption DEF Typed, WorkTyped
<1>1. CASE ReadAssets
  <2>1. /\ work.step = "assets" /\ Done(Worker)
        /\ work'.addr = work.addr /\ work'.id = resolving[Worker].id
    BY <1>1 DEF ReadAssets
  <2>2. resolving[Worker].addr = work.addr /\ resolving[Worker].at = "done"
    BY <2>1 DEF Owned, LookUpOwned, Done
  <2>3. Owns(work'.addr, work'.id)
    BY <1>0, <2>1, <2>2 DEF Owned, AnswersOwned
  <2>4. UNCHANGED <<mapping, forgotten>>
    BY <2>1 DEF Done, memoryVars
  <2> QED BY <2>3, <2>4 DEF Owns
<1>2. CASE /\ work.step \in {"transactions", "send", "call"}
           /\ work'.addr = work.addr /\ work'.id = work.id
  <2>1. Owns(work.addr, work.id) /\ work.addr \in Addr /\ work.id \in Id
    BY <1>0, <1>2, WorkParts DEF Owned, WorkOwned
  <2>2. running
    BY <1>2 DEF Owned, DeadIsEmpty, Rest
  <2>3. ~Exit
    <3>1. Exit => Die
      BY <1>0, ExitIsDie DEF Exit
    <3> QED BY <3>1 DEF Die, Rest
  <2> DEFINE a == work.addr
             i == work.id
  <2>4. mapping'[a] = i \/ a \in forgotten'
    <3> HIDE DEF a, i
    <3>1. a \in Addr /\ i \in Id /\ Owns(a, i)
      BY <2>1 DEF a, i
    <3> QED BY <1>0, <2>2, <2>3, <3>1, StepKeepsOwners DEF Owns
  <2> QED BY <1>2, <2>4 DEF Owns
<1> QED BY <1>0, <1>1, <1>2, WorkOrder

\* The rows the worker read are filed under that UUID and the network it captured.
LEMMA StepKeepsWorkKeyed ==
  ASSUME Typed, Owned, [SyncNext]_vars
  PROVE  WorkKeyed'
<1> SUFFICES ASSUME work'.step \in {"transactions", "send", "call"}, NEW e \in work'.rows
             PROVE  e.key.chain = work'.chain /\ e.key.id = work'.id
  BY DEF WorkKeyed
<1>0. WorkTyped /\ WorkKeyed
  BY DEF Typed, Owned
<1>1. CASE UNCHANGED work
  BY <1>0, <1>1 DEF WorkKeyed
<1>2. CASE ReadAssets
  <2>1. work' = [step |-> "transactions", addr |-> work.addr, chain |-> work.chain,
                 id |-> resolving[Worker].id,
                 rows |-> DirtyEntries("asset", work.chain, resolving[Worker].id)]
    BY <1>2 DEF ReadAssets
  <2>2. e \in DirtyEntries("asset", work'.chain, work'.id)
    BY <2>1
  <2> QED BY <2>2 DEF DirtyEntries
<1>3. CASE /\ work.step = "transactions" /\ work'.id = work.id /\ work'.chain = work.chain
           /\ work'.rows = work.rows \cup DirtyEntries("tx", work.chain, work.id)
  <2>1. e \in work.rows \/ e \in DirtyEntries("tx", work'.chain, work'.id)
    BY <1>3
  <2>2. CASE e \in work.rows
    BY <1>0, <1>3, <2>2 DEF WorkKeyed
  <2>3. CASE e \in DirtyEntries("tx", work'.chain, work'.id)
    BY <2>3 DEF DirtyEntries
  <2> QED BY <2>1, <2>2, <2>3
<1>4. CASE /\ work.step = "send" /\ work'.id = work.id /\ work'.chain = work.chain
           /\ work'.rows = work.rows
  BY <1>0, <1>4 DEF WorkKeyed
<1> QED BY <1>0, <1>1, <1>2, <1>3, <1>4, WorkOrder

\* Before the call the worker has looked, and the history keeps what it saw.
LEMMA StepKeepsLookedAgain ==
  ASSUME Typed, Owned, [SyncNext]_vars
  PROVE  LookedAgain'
<1> SUFFICES ASSUME work'.step = "call"
             PROVE  \E c \in window' : /\ c.collect /\ c.report
                                      /\ c.chain = work'.chain /\ c.addr = work'.addr
  BY DEF LookedAgain
<1>0. WorkTyped /\ LookedAgain
  BY DEF Typed, Owned
<1>1. CASE UNCHANGED work
  <2>1. ~CheckAgain /\ ~Send /\ ~Die
    BY <1>1 DEF CheckAgain, Send, Die, Rest
  <2>2. window \subseteq window'
    BY <2>1, WindowSteps DEF Reconfigure
  <2> QED BY <1>0, <1>1, <2>2 DEF LookedAgain
<1>2. CASE /\ isCurrentUploadConfig(work) /\ window' = {config}
           /\ work'.chain = work.chain /\ work'.addr = work.addr
  BY <1>2 DEF isCurrentUploadConfig
<1>3. ~ReadAssets
  BY DEF ReadAssets
<1> QED BY <1>0, <1>1, <1>2, <1>3, WorkOrder

\* What a process did dies with it.
LEMMA StepKeepsDeadIsEmpty ==
  ASSUME Typed, Owned, [SyncNext]_vars
  PROVE  DeadIsEmpty'
<1> SUFFICES ASSUME ~running'
             PROVE  /\ work' = Rest /\ queue' = <<>>
                    /\ \A s \in Slot : network'[s] # NoRequest => ~network'[s].awaited
  BY DEF DeadIsEmpty
<1>0. HostTyped /\ WorkTyped /\ network \in [Slot -> Sent \cup {NoRequest}]
  BY DEF Typed, NetTyped
<1>1. CASE Die
  <2>1. ASSUME NEW s \in Slot, network'[s] # NoRequest PROVE ~network'[s].awaited
    BY <1>0, <1>1, <2>1 DEF Die, Sent
  <2> QED BY <1>1, <2>1 DEF Die
<1>2. CASE ~Die
  <2>1. ~running
    BY <1>0, <1>2, ExitIsDie
  <2>2. /\ work = Rest /\ queue = <<>>
        /\ \A s \in Slot : network[s] # NoRequest => ~network[s].awaited
    BY <2>1 DEF Owned, DeadIsEmpty
  <2>3. ~WorkerStep
    BY <2>2 DEF Rest, WorkerStep, StartUpload, BeginMigration, MigrateRow, EndMigration, CheckConfig,
                ReadAssets, ReadTransactions, CheckAgain, Send, StartAcknowledge, Acknowledge, Clean
  <2>4. ~Upload /\ ~Send /\ \A s \in Slot : ~Succeed(s)
    BY <2>1, <2>2 DEF Upload, Succeed, Send, Rest
  <2>5. UNCHANGED <<queue, work>>
    BY <1>2, <2>3, <2>4, WorkSteps
  <2>6. ASSUME NEW s \in Slot, network'[s] # NoRequest PROVE ~network'[s].awaited
    <3>1. CASE UNCHANGED network
      BY <2>2, <2>6, <3>1
    <3>2. ASSUME NEW r \in Slot, Receive(r) PROVE ~network'[s].awaited
      BY <1>0, <2>2, <2>6, <3>2 DEF Receive, Sent
    <3>3. ASSUME NEW r \in Slot, Fail(r) PROVE ~network'[s].awaited
      BY <1>0, <2>2, <2>6, <3>3 DEF Fail
    <3> QED BY <1>2, <2>4, <3>1, <3>2, <3>3, NetSteps
  <2> QED BY <2>2, <2>5, <2>6
<1> QED BY <1>1, <1>2

\* The worker holds UUIDs of their wallets.
LEMMA StepKeepsOwned == Typed /\ Owned /\ [SyncNext]_vars => Owned'
BY StepKeepsAnswersOwned, StepKeepsLookUpOwned, StepKeepsWorkOwned, StepKeepsWorkKeyed,
   StepKeepsLookedAgain, StepKeepsDeadIsEmpty DEF Owned

\* At the start it holds none.
LEMMA InitOwned == SyncInit => Owned
BY DEF SyncInit, Init, Owned, AnswersOwned, LookUpOwned, WorkOwned, WorkKeyed, LookedAgain,
       DeadIsEmpty, Rest, Idle

\* Every row that leaves is of a wallet and a network that were selected together, with
\* reporting on, at some instant since the last look before the request, though the
\* UUID and the rows were read in earlier steps and the user may have switched wallets
\* in between (isCurrentUploadConfig, uploadStatisticalDatabase).
THEOREM OnlyTheSelectedIsSent == SyncSpec => SendsAreCurrent
<1>1. ASSUME Typed, Owned, [SyncNext]_vars, NEW s \in Slot,
             network[s] = NoRequest, network'[s] # NoRequest
      PROVE  \E c \in window :
               /\ c.collect /\ c.report
               /\ \A e \in network'[s].rows :
                    /\ e.key.chain = c.chain
                    /\ mapping[c.addr] = e.key.id \/ c.addr \in forgotten
  <2>0. network \in [Slot -> Sent \cup {NoRequest}]
    BY <1>1 DEF Typed, NetTyped
  <2>1. ~Die /\ \A r \in Slot : ~Receive(r) /\ ~Succeed(r) /\ ~Fail(r)
    BY <1>1, <2>0 DEF Die, Receive, Succeed, Fail
  <2>2. Send
    BY <1>1, <2>1, NetSteps
  <2>3. work.step = "call" /\ network'[s].rows = work.rows
    BY <1>1, <2>0, <2>2 DEF Send
  <2>4. Owns(work.addr, work.id) /\ \A e \in work.rows : e.key.chain = work.chain /\ e.key.id = work.id
    BY <1>1, <2>3 DEF Owned, WorkOwned, WorkKeyed
  <2>5. PICK c \in window : c.collect /\ c.report /\ c.chain = work.chain /\ c.addr = work.addr
    BY <1>1, <2>3 DEF Owned, LookedAgain
  <2>6. ASSUME NEW e \in network'[s].rows
        PROVE  /\ e.key.chain = c.chain
               /\ mapping[c.addr] = e.key.id \/ c.addr \in forgotten
    BY <2>3, <2>4, <2>5 DEF Owns
  <2> QED BY <2>5, <2>6
<1>2. Typed /\ Owned /\ [SyncNext]_vars =>
        [\A s \in Slot : network[s] = NoRequest /\ network'[s] # NoRequest =>
           \E c \in window :
             /\ c.collect /\ c.report
             /\ \A e \in network'[s].rows :
                  /\ e.key.chain = c.chain
                  /\ mapping[c.addr] = e.key.id \/ c.addr \in forgotten]_vars
  BY <1>1
<1> QED BY <1>2, InitOwned, StepKeepsOwned, TypedAlways, PTL DEF SyncSpec, SendsAreCurrent

-----------------------------------------------------------------------------
(***************************************************************************)
(* The merge of the older database.  What an older row said is Held: in    *)
(* the row, with the server, or given up with its UUID.  It stays held, as *)
(* a UUID that left the table never comes back into it: a rewrite takes    *)
(* the table from memory, where such a UUID is not (NeverBack), because    *)
(* memory and table never give one UUID to two addresses (Crossed) and new *)
(* UUIDs are others (OldIssued).                                           *)
(***************************************************************************)
Held(e) ==
  \/ rows[e.key] # NoRow /\ Covers(rows[e.key].val, e)
  \/ \E v \in received[e.key] : Covers(v, e)
  \/ e.key.id \notin Ids(table)

OneOldRow == \A e, f \in oldRows : e.key = f.key => e = f
OldIssued == \A e \in oldRows : e.key.id <= issued
Crossed == \A a, b \in Addr : mapping[a] = table[b] /\ table[b] # NoId => a = b
NeverBack == \A e \in oldRows : e.key.id \in Ids(mapping) => e.key.id \in Ids(table)
BeforeLaunch == legacy # NoSnapshot => ~running /\ migrated = {}
Forgetful == ~running => mapping = Empty
MigrateHeld ==
  work.step = "migrate" /\ work.ok =>
    \A e \in oldRows \ work.left : e.key.chain = work.from => Held(e)

MapMerging == OneOldRow /\ OldIssued /\ Crossed /\ NeverBack /\ BeforeLaunch /\ Forgetful
Merging == MapMerging /\ MigrateHeld /\ MergedIsKept

\* A UUID a map gives to some address.
LEMMA InIds ==
  ASSUME NEW m, NEW i, i # NoId
  PROVE  i \in Ids(m) <=> \E a \in Addr : m[a] = i
BY DEF Ids

\* What one step may do to the address map's memory and table: nothing, a launch, the
\* death of the process, forgetting addresses, adopting new UUIDs.
Launched ==
  /\ ~running /\ running' /\ legacy' = NoSnapshot
  /\ \/ legacy # NoSnapshot /\ mapping' = table'
     \/ mapping' \in {mapping, table, Empty} /\ UNCHANGED table
Died == ~running' /\ mapping' = Empty /\ UNCHANGED <<table, legacy>>
Forgets ==
  /\ running /\ UNCHANGED <<running, legacy, issued>>
  /\ \A a \in Addr : mapping'[a] \in {mapping[a], NoId}
  /\ table' = table \/ table' = mapping'
Adopts ==
  /\ running /\ UNCHANGED <<running, legacy>>
  /\ issued' \in Nat /\ issued <= issued'
  /\ \A a \in Addr :
       \/ mapping'[a] = mapping[a] /\ table'[a] = table[a]
       \/ /\ mapping[a] = NoId
          /\ mapping'[a] > issued
          /\ table'[a] = table[a] \/ table'[a] = mapping'[a]
MapMoves ==
  \/ UNCHANGED <<mapping, table, legacy, running, issued>>
  \/ (Launched \/ Died) /\ UNCHANGED issued
  \/ Forgets
  \/ Adopts

\* New UUIDs, whichever of their rows were written.
LEMMA AdoptAdopts ==
  ASSUME MapInv, running, NEW as \in SUBSET Addr, NEW added \in NewIds(as),
         \A a \in as : mapping[a] = NoId, Adopt(added), UNCHANGED <<running, legacy>>
  PROVE  Adopts
<1>1. /\ DOMAIN added = as /\ issued \in Nat
      /\ \A a \in as : added[a] > issued
      /\ issued + Cardinality(as) \in Nat /\ issued <= issued + Cardinality(as)
  <2>1. MapTypeOK /\ issued \in Nat
    BY MapAssumption DEF MapInv, MapTypeOK
  <2> QED BY <2>1, NewIdsAreNew
<1>2. /\ mapping' = [a \in Addr |-> IF a \in as THEN added[a] ELSE mapping[a]]
      /\ issued' = issued + Cardinality(as)
  BY <1>1 DEF Adopt
<1>3. PICK written \in SUBSET as :
        table' = [a \in Addr |-> IF a \in written THEN added[a] ELSE table[a]]
  <2>0. table \in [Addr -> Id \cup {NoId}]
    BY DEF MapInv, MapTypeOK, AddressTable
  <2>1. CASE UNCHANGED table
    <3>1. table = [a \in Addr |-> table[a]] /\ {} \in SUBSET as
      BY <2>0
    <3>2. \A a \in Addr : table[a] = IF a \in {} THEN added[a] ELSE table[a]
      OBVIOUS
    <3> QED BY <2>1, <3>1, <3>2
  <2>2. ASSUME NEW failed \in SUBSET DOMAIN added,
               table' = [a \in Addr |-> IF a \in DOMAIN added \ failed THEN added[a] ELSE table[a]]
        PROVE  \E written \in SUBSET as :
                 table' = [a \in Addr |-> IF a \in written THEN added[a] ELSE table[a]]
    <3>1. as \ failed \in SUBSET as
      OBVIOUS
    <3> QED BY <1>1, <2>2, <3>1
  <2> QED BY <2>1, <2>2 DEF Adopt, persistNewMappings
<1>4. ASSUME NEW a \in Addr
      PROVE  \/ mapping'[a] = mapping[a] /\ table'[a] = table[a]
             \/ /\ mapping[a] = NoId
                /\ mapping'[a] > issued
                /\ table'[a] = table[a] \/ table'[a] = mapping'[a]
  BY <1>1, <1>2, <1>3
<1> QED BY <1>1, <1>2, <1>4 DEF Adopts

\* Every step is such a move.
LEMMA StepMoves ==
  ASSUME MapInv, HostTyped, WorkTyped, [SyncNext]_vars
  PROVE  MapMoves
<1>0. MapTypeOK
  BY DEF MapInv
<1>1. CASE UNCHANGED <<mapping, table, legacy, running, issued>>
  BY <1>1 DEF MapMoves
<1>2. CASE DBFails
  BY <1>1, <1>2 DEF DBFails, memoryVars
<1>3. ASSUME NEW gone \in SUBSET Removable, RunRemove(gone) PROVE MapMoves
  <2>1. running /\ UNCHANGED <<running, legacy, issued>>
    BY <1>3 DEF RunRemove, MapInv, IdleUntilLaunch
  <2>2. PICK b \in Head(jobs).addrs :
          \/ UNCHANGED <<mapping, table>>
          \/ /\ mapping' = [mapping EXCEPT ![b] = NoId]
             /\ persistMapping(mapping', {mapping[b]}, gone)
    BY <1>3 DEF RunRemove
  <2>3. CASE UNCHANGED <<mapping, table>>
    BY <1>1, <2>1, <2>3
  <2>4. CASE /\ mapping' = [mapping EXCEPT ![b] = NoId]
             /\ persistMapping(mapping', {mapping[b]}, gone)
    <3>1. table' = table \/ table' = mapping'
      BY <1>0, <2>4, PersistMappingResult
    <3>2. \A a \in Addr : mapping'[a] \in {mapping[a], NoId}
      BY <1>0, <2>4 DEF MapTypeOK, AddressTable
    <3> QED BY <2>1, <3>1, <3>2 DEF MapMoves, Forgets
  <2> QED BY <2>2, <2>3, <2>4
<1>4. ASSUME NEW gone \in SUBSET Removable, RunReset(gone) PROVE MapMoves
  <2>1. running /\ UNCHANGED <<running, legacy, issued>>
    BY <1>4 DEF RunReset, MapInv, IdleUntilLaunch
  <2>2. mapping' = Empty /\ persistMapping(Empty, usedIds, gone)
    BY <1>4 DEF RunReset
  <2>3. table' = table \/ table' = mapping'
    BY <1>0, <2>2, PersistMappingResult
  <2> QED BY <2>1, <2>2, <2>3 DEF MapMoves, Forgets, Empty
<1>5. ASSUME NEW gone \in SUBSET Removable, Launch(gone) PROVE MapMoves
  BY <1>5 DEF Launch, Saved, SaveFailed, MapMoves, Launched
<1>6. CASE RunGenerate
  <2> DEFINE as == {b \in Head(jobs).addrs : mapping[b] = NoId}
  <2>1. PICK added \in NewIds(as) : Adopt(added) /\ UNCHANGED <<running, legacy>>
    BY <1>6 DEF RunGenerate
  <2>2. as \in SUBSET Addr /\ \A b \in as : mapping[b] = NoId
    <3>1. Head(jobs) \in Job
      BY <1>0, <1>6 DEF MapTypeOK, RunGenerate
    <3> QED BY <3>1 DEF Job
  <2>3. running
    BY <1>6 DEF RunGenerate, MapInv, IdleUntilLaunch
  <2> HIDE DEF as
  <2> QED BY <2>1, <2>2, <2>3, AdoptAdopts DEF MapMoves
<1>7. ASSUME NEW c \in Caller, Insert(c) PROVE MapMoves
  <2> DEFINE b == resolving[c].addr
  <2>1. b \in Addr /\ running /\ UNCHANGED <<running, legacy>>
    BY <1>7, BusyCaller DEF Insert, Idle
  <2>2. CASE AlreadyMapped(b)
    BY <1>1, <1>7, <2>1, <2>2 DEF Insert, memoryVars
  <2>3. CASE ~AlreadyMapped(b)
    <3>1. PICK added \in NewIds({b}) : Adopt(added)
      BY <1>7, <2>3 DEF Insert
    <3>2. {b} \in SUBSET Addr /\ \A a \in {b} : mapping[a] = NoId
      BY <2>1, <2>3 DEF AlreadyMapped
    <3> HIDE DEF b
    <3> QED BY <2>1, <3>1, <3>2, AdoptAdopts DEF MapMoves
  <2> QED BY <2>2, <2>3
<1>8. CASE GenerateMappings \/ RemoveMapping \/ ResetAllMappings
  BY <1>1, <1>8 DEF GenerateMappings, RemoveMapping, ResetAllMappings, Request, memoryVars
<1>9. ASSUME NEW c \in Caller, (\E b \in Addr : Ask(c, b)) \/ LookUp(c) \/ Done(c)
      PROVE  MapMoves
  BY <1>1, <1>9 DEF Ask, LookUp, Done, memoryVars
<1>10. CASE UNCHANGED mapVars
  BY <1>1, <1>10 DEF mapVars, memoryVars
<1>11. CASE Exit
  BY <1>11 DEF Exit, MapMoves, Died
<1> QED BY <1>2, <1>3, <1>4, <1>5, <1>6, <1>7, <1>8, <1>9, <1>10, <1>11, MapPart DEF Next

\* What is in the older database stays there.
LEMMA OldRowsStay ==
  ASSUME [SyncNext]_vars
  PROVE  UNCHANGED oldRows
BY HostSteps DEF EndMigration, NextDay, Reconfigure, dbVars

\* The parts of an older row.
LEMMA OldRowParts ==
  ASSUME Typed, NEW e \in oldRows
  PROVE  /\ e.key \in Key /\ e.val \in Value
         /\ e.key.id \in Id /\ e.key.id \in Nat /\ e.key.id # NoId
         /\ e.key.kind = "tx" => e.val.count \in Nat
<1>1. e \in OldRow /\ (e.key.kind = "tx" => e.val.count \in Nat)
  BY DEF Typed, HostTyped
<1>2. e.key \in Key /\ e.val \in Value
  BY <1>1, OldRowForm
<1>3. e.key.id \in Id
  BY <1>2 DEF Key
<1> QED BY <1>1, <1>2, <1>3, MapAssumption DEF Id

\* A UUID of the older database that left the table stays out of it, once the
\* snapshot of an older version is gone.
LEMMA IdStaysGone ==
  ASSUME Typed, MapMerging, [SyncNext]_vars, NEW e \in oldRows,
         legacy = NoSnapshot, e.key.id \notin Ids(table)
  PROVE  e.key.id \notin Ids(table')
<1> DEFINE i == e.key.id
<1>1. /\ i # NoId /\ i \in Nat /\ i <= issued /\ issued \in Nat
      /\ (i \in Ids(mapping) => i \in Ids(table))
  BY OldRowParts, MapAssumption DEF MapMerging, OldIssued, NeverBack, Typed, MapInv, MapTypeOK
<1>2. MapMoves
  BY StepMoves DEF Typed
<1>3. \A a \in Addr : table[a] # i /\ mapping[a] # i
  BY <1>1, InIds
<1>4. i \notin Ids(table)
  OBVIOUS
<1> HIDE DEF i
<1>5. SUFFICES ASSUME NEW a \in Addr, table'[a] = i PROVE FALSE
  BY <1>1, InIds DEF i
<1>6. CASE Forgets
  BY <1>1, <1>3, <1>5, <1>6 DEF Forgets
<1>7. CASE Adopts
  BY <1>1, <1>3, <1>5, <1>7 DEF Adopts
<1>8. CASE UNCHANGED table
  BY <1>3, <1>5, <1>8
<1> QED BY <1>2, <1>6, <1>7, <1>8 DEF MapMoves, Launched, Died

\* Memory and table go on agreeing about the UUIDs of the older database.
LEMMA StepKeepsMapMerging ==
  ASSUME Typed, Owned, MapMerging, [SyncNext]_vars
  PROVE  MapMerging'
<1>0. /\ UNCHANGED oldRows /\ MapMoves
      /\ MapInv /\ MapInv' /\ issued \in Nat
  BY OldRowsStay, StepMoves, StepKeepsMap, MapAssumption DEF Typed, MapInv, MapTypeOK
<1>1. OneOldRow'
  BY <1>0 DEF MapMerging, OneOldRow
<1>2. issued' = issued \/ (issued' \in Nat /\ issued <= issued')
  BY <1>0 DEF MapMoves, Forgets, Adopts
<1>3. OldIssued'
  <2> SUFFICES ASSUME NEW e \in oldRows PROVE e.key.id <= issued'
    BY <1>0 DEF OldIssued
  <2>1. e.key.id \in Nat /\ e.key.id <= issued
    BY OldRowParts DEF MapMerging, OldIssued
  <2> QED BY <1>0, <1>2, <2>1
<1>4. Crossed'
  <2> SUFFICES ASSUME NEW a \in Addr, NEW b \in Addr, mapping'[a] = table'[b], table'[b] # NoId
               PROVE  a = b
    BY DEF Crossed
  <2>1. /\ \A c, d \in Addr : mapping[c] = table[d] /\ table[d] # NoId => c = d
        /\ \A c, d \in Addr : table[c] = table[d] /\ table[c] # NoId => c = d
        /\ \A c, d \in Addr : table'[c] = table'[d] /\ table'[c] # NoId => c = d
        /\ \A c, d \in Addr : mapping'[c] = mapping'[d] /\ mapping'[c] # NoId => c = d
    BY <1>0 DEF MapMerging, Crossed, MapInv, OneAddressPerId, Injective
  <2>2. \A c \in Addr : /\ mapping[c] # NoId => mapping[c] \in Nat /\ mapping[c] <= issued
                        /\ table[c] # NoId => table[c] \in Nat /\ table[c] <= issued
    BY <1>0, MapAssumption DEF MapInv, IdsIssued, UpTo, MapTypeOK, AddressTable, Id
  <2>3. CASE Forgets
    BY <2>1, <2>3 DEF Forgets
  <2>4. CASE Adopts
    BY <1>0, <2>1, <2>2, <2>4 DEF Adopts
  <2>5. CASE Launched
    BY <2>1, <2>5 DEF Launched, Empty
  <2>6. CASE Died
    BY <2>6 DEF Died, Empty
  <2>7. CASE UNCHANGED <<mapping, table>>
    BY <2>1, <2>7
  <2> QED BY <1>0, <2>3, <2>4, <2>5, <2>6, <2>7 DEF MapMoves
<1>5. NeverBack'
  <2> SUFFICES ASSUME NEW e \in oldRows, e.key.id \in Ids(mapping') PROVE e.key.id \in Ids(table')
    BY <1>0 DEF NeverBack
  <2> DEFINE i == e.key.id
  <2>1. /\ i # NoId /\ i \in Nat /\ i <= issued
        /\ (i \in Ids(mapping) => i \in Ids(table))
        /\ i \in Ids(mapping')
    BY OldRowParts DEF MapMerging, OldIssued, NeverBack
  <2> HIDE DEF i
  <2>2. PICK a \in Addr : mapping'[a] = i
    BY <2>1, InIds
  <2>3. mapping[a] = i => table[a] = i
    BY <2>1, InIds DEF MapMerging, Crossed
  <2>4. CASE Forgets
    BY <2>1, <2>2, <2>3, <2>4, InIds DEF Forgets, i
  <2>5. CASE Adopts
    <3>1. mapping'[a] = mapping[a] /\ table'[a] = table[a]
      BY <1>0, <2>1, <2>2, <2>5 DEF Adopts
    <3> QED BY <2>1, <2>2, <2>3, <3>1, InIds DEF i
  <2>6. CASE Launched
    BY <2>1, <2>2, <2>3, <2>6, InIds DEF Launched, Empty, i
  <2>7. CASE Died
    BY <2>1, <2>2, <2>7 DEF Died, Empty
  <2>8. CASE UNCHANGED <<mapping, table>>
    BY <2>1, <2>2, <2>3, <2>8, InIds DEF i
  <2> QED BY <1>0, <2>4, <2>5, <2>6, <2>7, <2>8 DEF MapMoves
<1>6. BeforeLaunch'
  <2>1. SUFFICES ASSUME legacy' # NoSnapshot PROVE ~running' /\ migrated' = {}
    BY DEF BeforeLaunch
  <2>2. legacy' = legacy /\ ~Launched
    BY <1>0, <2>1 DEF MapMoves, Launched, Died, Forgets, Adopts
  <2>3. ~running /\ migrated = {}
    BY <2>1, <2>2 DEF MapMerging, BeforeLaunch
  <2>4. ~EndMigration
    <3>1. work = Rest
      BY <2>3 DEF Owned, DeadIsEmpty
    <3>2. work.step # "migrate"
      BY <3>1 DEF Rest
    <3> QED BY <3>2 DEF EndMigration
  <2>5. UNCHANGED migrated
    BY <2>4, HostSteps DEF NextDay, Reconfigure, dbVars
  <2> QED BY <1>0, <2>2, <2>3, <2>5 DEF MapMoves, Died, Forgets, Adopts
<1>7. Forgetful'
  BY <1>0 DEF MapMerging, Forgetful, MapMoves, Launched, Died, Forgets, Adopts
<1> QED BY <1>1, <1>3, <1>4, <1>5, <1>6, <1>7 DEF MapMerging

-----------------------------------------------------------------------------
\* The UUIDs whose rows are deleted are not in the table any more.
LEMMA GoneLeftTheTable ==
  ASSUME NEW gone, Launch(gone) \/ RunRemove(gone) \/ RunReset(gone)
  PROVE  \A i \in gone : i \notin Ids(table')
<1>1. gone = {} \/ \E map, removed : Saved(map, removed, gone)
  BY DEF Launch, RunRemove, RunReset, persistMapping, SaveFailed
<1> QED BY <1>1 DEF Saved, Released

\* Once the app has run, the snapshot of an older version is gone.
LEMMA SnapshotGone ==
  ASSUME Owned, MapMerging, work # Rest \/ migrated # {}
  PROVE  legacy = NoSnapshot
BY DEF Owned, DeadIsEmpty, MapMerging, BeforeLaunch

\* What a row says is held on: no step counts it down, a clean-up takes out what the
\* server has, a removal what has no UUID any more.
LEMMA RowStaysHeld ==
  ASSUME Typed, Confirming, MapMerging, [SyncNext]_vars, NEW e \in oldRows,
         rows[e.key] # NoRow, Covers(rows[e.key].val, e)
  PROVE  Held(e)'
<1> DEFINE k == e.key
<1>0. /\ rows \in [Key -> Row \cup {NoRow}] /\ k \in Key /\ UNCHANGED oldRows
      /\ rows[k] # NoRow /\ Covers(rows[k].val, e)
      /\ k.kind = "tx" => /\ e.val.count \in Nat /\ rows[k].val.count \in Nat
                          /\ rows[k].val.count >= e.val.count
  BY OldRowParts, OldRowsStay DEF Typed, RowsTyped, Covers
<1>1. rows'[k] # NoRow /\ Covers(rows'[k].val, e) => Held(e)'
  BY DEF Held, Covers
<1>a. ASSUME NEW v, k.kind = "tx" => v.count >= e.val.count PROVE Covers(v, e)
  BY <1>a DEF Covers
<1> HIDE DEF k
<1>2. CASE rows'[k] = rows[k]
  BY <1>0, <1>1, <1>2
<1>3. ASSUME NEW l \in Key, NEW v \in Value, Put(l, v), l = k => Covers(v, e)
      PROVE  Held(e)'
  <2>1. l # k => rows'[k] = rows[k]
    BY <1>0, <1>3 DEF Put
  <2>2. l = k => rows'[k] = [val |-> v, updated |-> TRUE]
    BY <1>0, <1>3 DEF Put
  <2>3. [val |-> v, updated |-> TRUE] # NoRow
    BY RowParts, NoRowIsNone
  <2> QED BY <1>0, <1>1, <1>2, <1>3, <2>1, <2>2, <2>3
<1>4. ASSUME NEW t \in Recorder, Write(t) PROVE Held(e)'
  <2> DEFINE l == rec[t].key
  <2>1. l \in Key /\ (l.kind = "asset" => rec[t].val \in Value)
    BY <1>4, RecParts DEF Write, Typed
  <2>2. \/ l.kind = "tx" /\ Put(l, CountAfter(l))
        \/ l.kind = "asset" /\ Put(l, rec[t].val)
        \/ UNCHANGED rows
    BY <1>4 DEF Write
  <2> HIDE DEF l
  <2>3. CASE l.kind = "tx" /\ Put(l, CountAfter(l))
    <3>1. CountAfter(l) \in Value
      BY <2>1, <2>3, CountAfterIsValue DEF Typed
    <3>2. l = k => CountAfter(l).count >= e.val.count
      BY <1>0, <2>3 DEF CountAfter
    <3>3. l = k => Covers(CountAfter(l), e)
      BY <1>a, <3>2
    <3> QED BY <1>3, <2>1, <2>3, <3>1, <3>3
  <2>4. CASE l.kind = "asset" /\ Put(l, rec[t].val)
    <3>1. l = k => k.kind # "tx"
      BY <2>4
    <3>2. l = k => Covers(rec[t].val, e)
      BY <1>a, <3>1
    <3> QED BY <1>3, <2>1, <2>4, <3>2
  <2> QED BY <1>2, <2>2, <2>3, <2>4
<1>5. CASE MigrateRow
  <2>1. UNCHANGED rows \/ \E f \in oldRows : Put(f.key, f.val)
    BY <1>5, MigratePuts DEF Typed, WorkTyped
  <2>2. ASSUME NEW f \in oldRows, Put(f.key, f.val) PROVE Held(e)'
    <3>1. f.key \in Key /\ f.val \in Value
      BY OldRowParts
    <3>2. f.key = k => f = e
      BY DEF MapMerging, OneOldRow, k
    <3>3. f.key = k => Covers(f.val, e)
      <4>1. e.key = k /\ (k.kind = "tx" => e.val.count >= e.val.count)
        BY <1>0 DEF k
      <4> QED BY <1>a, <3>2, <4>1
    <3> QED BY <1>3, <2>2, <3>1, <3>3
  <2> QED BY <1>2, <2>1, <2>2
<1>6. CASE Acknowledge
  <2>1. work.rows \in SUBSET Entry
    BY <1>6, WorkParts DEF Acknowledge, Typed, WorkTyped
  <2>2. PICK f \in work.rows : rows' = rows \/ rows' = [rows EXCEPT ![f.key].updated = FALSE]
    BY <1>6 DEF Acknowledge
  <2>3. f.key \in Key /\ rows[k] \in Row
    BY <1>0, <2>1, EntryParts
  <2>4. /\ [rows[k] EXCEPT !.updated = FALSE] \in Row
        /\ [rows[k] EXCEPT !.updated = FALSE].val = rows[k].val
    BY <2>3 DEF Row
  <2>5. rows'[k] = rows[k] \/ rows'[k] = [rows[k] EXCEPT !.updated = FALSE]
    BY <1>0, <2>2, <2>3
  <2> QED BY <1>0, <1>1, <1>2, <2>4, <2>5, NoRowIsNone
<1>7. CASE Clean
  <2>1. rows'[k] = rows[k] \/ Past(k)
    BY <1>0, <1>7 DEF Clean
  <2>2. CASE Past(k)
    <3>1. ~rows[k].updated
      BY <1>0, <2>2 DEF Past, Dirty
    <3>2. rows[k].val \in received[k]
      BY <1>0, <3>1 DEF Confirming, AckedWasReceived
    <3>3. rows[k].val \in received'[k]
      BY <1>0, <3>2, ReceivedGrows
    <3> QED BY <1>0, <3>3 DEF Held, k
  <2> QED BY <1>2, <2>1, <2>2
<1>8. CASE Remap
  <2>1. PICK gone \in SUBSET Removable :
          (Launch(gone) \/ RunRemove(gone) \/ RunReset(gone)) /\ Purge(gone)
    BY <1>8 DEF Remap
  <2>2. CASE k.id \in gone
    <3>1. k.id \notin Ids(table')
      BY <2>1, <2>2, GoneLeftTheTable
    <3> QED BY <3>1 DEF Held, k
  <2>3. CASE k.id \notin gone
    BY <1>0, <1>2, <2>1, <2>3 DEF Purge
  <2> QED BY <2>2, <2>3
<1>9. ASSUME NEW s \in Slot, Receive(s) PROVE Held(e)'
  BY <1>2, <1>9 DEF Receive, dbVars
<1> QED BY <1>2, <1>4, <1>5, <1>6, <1>7, <1>8, <1>9, RowsSteps

\* What is held stays held.
LEMMA HeldStays ==
  ASSUME Typed, Confirming, MapMerging, [SyncNext]_vars, legacy = NoSnapshot,
         NEW e \in oldRows, Held(e)
  PROVE  Held(e)'
<1>1. CASE rows[e.key] # NoRow /\ Covers(rows[e.key].val, e)
  BY <1>1, RowStaysHeld
<1>2. CASE \E v \in received[e.key] : Covers(v, e)
  <2>1. received[e.key] \subseteq received'[e.key]
    BY OldRowParts, ReceivedGrows
  <2> QED BY <1>2, <2>1 DEF Held, Covers
<1>3. CASE e.key.id \notin Ids(table)
  BY <1>3, IdStaysGone DEF Held
<1> QED BY <1>1, <1>2, <1>3 DEF Held

\* The steps after which metricsQueue is merging.
LEMMA MigratingSteps ==
  ASSUME Typed, [SyncNext]_vars, work'.step = "migrate", work'.ok
  PROVE  \/ UNCHANGED work
         \/ BeginMigration /\ work'.left = {e \in oldRows : e.key.chain = work'.from}
         \/ /\ work.step = "migrate" /\ work.ok /\ work'.from = work.from
            /\ \E f \in work.left : Put(f.key, f.val) /\ work'.left = work.left \ {f}
<1>0. work \in Work /\ WorkTyped
  BY DEF Typed, WorkTyped
<1>1. CASE BeginMigration
  <2>1. work \in Checking
    BY <1>0, <1>1, WorkForms DEF BeginMigration
  <2>2. work' # [work EXCEPT !.step = "check"]
    BY <2>1 DEF Checking
  <2>3. work' = [step |-> "migrate", addr |-> work.addr, chain |-> work.chain,
                 from |-> config.chain, ok |-> TRUE,
                 left |-> {e \in oldRows : e.key.chain = config.chain}]
    BY <1>1, <2>2 DEF BeginMigration
  <2> QED BY <1>1, <2>3
<1>2. CASE MigrateRow
  <2>1. work \in Migrating /\ work.step = "migrate" /\ work.ok \in BOOLEAN
    BY <1>0, <1>2, WorkForms, WorkParts DEF MigrateRow
  <2>2. PICK f \in work.left, ok \in BOOLEAN :
          /\ work' = [work EXCEPT !.left = @ \ {f}, !.ok = AllSucceeded(@, ok)]
          /\ (ok /\ Put(f.key, f.val)) \/ (~ok /\ UNCHANGED rows)
    BY <1>2, MigratePuts DEF Typed
  <2>3. work'.from = work.from /\ work'.left = work.left \ {f} /\ work'.ok = AllSucceeded(work.ok, ok)
    BY <2>1, <2>2 DEF Migrating
  <2>4. work.ok /\ ok
    BY <2>3 DEF AllSucceeded
  <2> QED BY <2>1, <2>2, <2>3, <2>4
<1>4. CASE StartUpload \/ EndMigration
  BY <1>4 DEF StartUpload, EndMigration, Rest
<1>5. CASE CheckAgain
  BY <1>0, <1>5, WorkForms DEF CheckAgain, Rest, Sending
<1>3. CASE Send \/ StartAcknowledge \/ Die \/ CheckConfig \/ ReadAssets \/ ReadTransactions
           \/ Acknowledge \/ Clean
  <2>1. UNCHANGED work \/ work'.step # "migrate"
    <3>1. CASE Send \/ StartAcknowledge \/ Die \/ ReadAssets
      BY <3>1 DEF Send, StartAcknowledge, Die, ReadAssets, Rest
    <3>2. CASE CheckConfig
      BY <1>0, <3>2, WorkForms DEF CheckConfig, Rest, Checking
    <3>3. CASE ReadTransactions
      BY <1>0, <3>3, WorkForms DEF ReadTransactions, Rest, Sending
    <3>4. CASE Acknowledge
      <4>1. work \in Acking
        BY <1>0, <3>4, WorkForms DEF Acknowledge
      <4>2. PICK f \in work.rows :
              \/ work' = [step |-> "clean", kind |-> "asset", chain |-> work.chain, id |-> work.id]
              \/ work' = [work EXCEPT !.rows = @ \ {f}]
        BY <3>4 DEF Acknowledge
      <4> QED BY <4>1, <4>2 DEF Acking
    <3>5. CASE Clean
      BY <1>0, <3>5, WorkForms DEF Clean, Rest, Cleaning
    <3> QED BY <1>3, <3>1, <3>2, <3>3, <3>4, <3>5
  <2> QED BY <2>1
<1> QED BY <1>1, <1>2, <1>3, <1>4, <1>5, WorkSteps DEF WorkerStep, Upload, Succeed

\* A row that was written says what the older row said.
LEMMA PutHolds ==
  ASSUME Typed, NEW e \in oldRows, Put(e.key, e.val)
  PROVE  Held(e)'
<1>1. e.key \in Key /\ e.val \in Value /\ (e.key.kind = "tx" => e.val.count \in Nat)
  BY OldRowParts
<1>2. rows'[e.key] = [val |-> e.val, updated |-> TRUE]
  BY <1>1 DEF Put, Typed, RowsTyped
<1>3. rows'[e.key] # NoRow /\ rows'[e.key].val = e.val
  <2>1. [val |-> e.val, updated |-> TRUE] \in Row
    BY <1>1, RowParts
  <2>2. [val |-> e.val, updated |-> TRUE].val = e.val
    OBVIOUS
  <2> QED BY <1>2, <2>1, <2>2, NoRowIsNone
<1>4. e.key.kind = "tx" => e.val.count >= e.val.count
  BY <1>1
<1> QED BY <1>3, <1>4 DEF Held, Covers

\* While no write failed, every older row the merge took is held.
LEMMA StepKeepsMigrateHeld ==
  ASSUME Typed, Confirming, Owned, Merging, [SyncNext]_vars
  PROVE  MigrateHeld'
<1> SUFFICES ASSUME work'.step = "migrate", work'.ok, NEW e \in oldRows, e \notin work'.left,
                    e.key.chain = work'.from
             PROVE  Held(e)'
  BY OldRowsStay DEF MigrateHeld
<1>0. MapMerging /\ MigrateHeld /\ MergedIsKept
  BY DEF Merging
<1>1. CASE UNCHANGED work
  <2>1. Held(e)
    BY <1>0, <1>1 DEF MigrateHeld
  <2>2. legacy = NoSnapshot
    BY <1>0, <1>1, SnapshotGone DEF Rest
  <2> QED BY <1>0, <2>1, <2>2, HeldStays
<1>2. work'.left # {f \in oldRows : f.key.chain = work'.from}
  OBVIOUS
<1>3. ASSUME work.step = "migrate", work.ok, work'.from = work.from,
             NEW f \in work.left, Put(f.key, f.val), work'.left = work.left \ {f}
      PROVE  Held(e)'
  <2>1. CASE e = f
    BY <1>3, <2>1, PutHolds
  <2>2. CASE e # f
    <3>1. Held(e)
      BY <1>0, <1>3, <2>2 DEF MigrateHeld
    <3>2. legacy = NoSnapshot
      BY <1>0, <1>3, SnapshotGone DEF Rest
    <3> QED BY <1>0, <3>1, <3>2, HeldStays
  <2> QED BY <2>1, <2>2
<1> QED BY <1>1, <1>2, <1>3, MigratingSteps

\* A chain counts as merged when the merge took all its older rows without a failure.
LEMMA StepKeepsMerged ==
  ASSUME Typed, Confirming, Owned, Merging, [SyncNext]_vars
  PROVE  MergedIsKept'
<1> SUFFICES ASSUME NEW e \in oldRows, e.key.chain \in migrated'
             PROVE  Held(e)'
  BY OldRowsStay DEF MergedIsKept, Held, Covers
<1>0. MapMerging /\ MigrateHeld /\ MergedIsKept
  BY DEF Merging
<1>1. Held(e) /\ legacy = NoSnapshot
  <2>1. CASE e.key.chain \in migrated
    BY <1>0, <2>1, SnapshotGone DEF MergedIsKept, Held
  <2>2. CASE e.key.chain \notin migrated
    <3>1. EndMigration
      BY <2>2, HostSteps DEF NextDay, Reconfigure, dbVars
    <3>2. /\ work.step = "migrate" /\ work.left = {} /\ work.ok
          /\ e.key.chain = work.from
      BY <2>2, <3>1 DEF EndMigration, MergedChain
    <3>3. Held(e)
      BY <1>0, <3>2 DEF MigrateHeld
    <3> QED BY <1>0, <3>2, <3>3, SnapshotGone DEF Rest
  <2> QED BY <2>1, <2>2
<1> QED BY <1>0, <1>1, HeldStays

\* At the start nothing was merged.
LEMMA InitMerging == SyncInit => Merging
<1> SUFFICES ASSUME SyncInit PROVE Merging
  OBVIOUS
<1>1. /\ mapping = Empty /\ ~running /\ migrated = {} /\ work.step # "migrate"
      /\ issued = OldIds /\ table \in OldTables
  BY DEF SyncInit, Init, Rest
<1>2. oldRows \in SUBSET OldEntries /\ \A e, f \in oldRows : e.key = f.key => e = f
  BY DEF SyncInit
<1>3. \A e \in oldRows : e.key.id \in Ids(table)
  BY <1>2 DEF OldEntries
<1>4. \A a \in Addr : table[a] # NoId => table[a] \in 1 .. OldIds
  BY <1>1 DEF OldTables
<1>5. OldIssued
  <2> SUFFICES ASSUME NEW e \in oldRows PROVE e.key.id <= OldIds
    BY <1>1 DEF OldIssued
  <2>1. e.key.id \in Ids(table)
    BY <1>3
  <2>2. e.key.id \in 1 .. OldIds
    BY <1>4, <2>1 DEF Ids
  <2> QED BY <2>2, MapAssumption
<1>6. OneOldRow
  BY <1>2 DEF OneOldRow
<1>7. Crossed /\ NeverBack /\ BeforeLaunch /\ Forgetful
  BY <1>1 DEF Crossed, NeverBack, BeforeLaunch, Forgetful, Empty, Ids
<1>8. MigrateHeld /\ MergedIsKept
  BY <1>1 DEF MigrateHeld, MergedIsKept
<1> QED BY <1>5, <1>6, <1>7, <1>8 DEF Merging, MapMerging

\* An older database counts as merged only when each of its rows, of any number and of
\* either kind, reached the new tables: through writes that fail between two of them,
\* process deaths, merges that start again over what was recorded since, removals and
\* uploads at any time.  The row is there and says as much, or the server has it, or the
\* wallet was removed, so that its UUID is not in the table (migrateFromLegacyIfNeeded).
THEOREM MergedRowsAreKept == SyncSpec => []MergedIsKept
<1>1. Typed /\ Confirming /\ Owned /\ Merging /\ [SyncNext]_vars => Merging'
  BY StepKeepsMapMerging, StepKeepsMigrateHeld, StepKeepsMerged DEF Merging
<1>2. Merging => MergedIsKept
  BY DEF Merging
<1> QED BY <1>1, <1>2, InitMerging, InitOwned, StepKeepsOwned, InitConfirming, StepKeepsConfirming,
           TypedAlways, PTL DEF SyncSpec

-----------------------------------------------------------------------------
(***************************************************************************)
(* Rows have owners, while hosts only ask for new UUIDs, AddressMapTable   *)
(* can be loaded and no write fails.  Memory then is the table, which      *)
(* gives up no UUID: whatever an answer, a recorder's call, the older      *)
(* database or a row names stays filed (AllFiled).                         *)
(***************************************************************************)
OnlyGenerates == \A i \in 1 .. Len(jobs) : jobs[i].kind = "generate"
Calm == OnlyGenerates /\ loadFailures = 0

\* The parts of it.
TableIsMemory == ~persistenceDisabled /\ (running => mapping = table)
AnswersFiled == \A c \in Caller : resolving[c].at = "done" => resolving[c].id \in Ids(table)
RecordersFiled == \A t \in Recorder : rec[t].step = "write" => rec[t].key.id \in Ids(table)
OldFiled == \A e \in oldRows : e.key.id \in Ids(table)
RowsFiled == \A k \in Key : rows[k] # NoRow => k.id \in Ids(table)
AllFiled == TableIsMemory /\ AnswersFiled /\ RecordersFiled /\ OldFiled /\ RowsFiled

\* The rows of the older database are of wallets that the app had when it was upgraded.
OldWallets == legacy # NoSnapshot => \A e \in oldRows : e.key.id \in Ids(legacy.map)

\* Before a snapshot of an older version is adopted nothing was recorded.
Untouched ==
  legacy # NoSnapshot =>
    /\ (\A k \in Key : rows[k] = NoRow)
    /\ \A t \in Recorder : rec[t].step # "write"

\* The inductive invariant: nothing is filed in vain unless a write failed.
Filing == OldWallets /\ Untouched /\ (writeFailures = 0 => AllFiled)

\* The table that a step in calm leaves, if no write failed.
CalmMoves ==
  \/ UNCHANGED <<mapping, table, persistenceDisabled, running, legacy>>
  \/ /\ Launched /\ running' = TRUE /\ mapping' = table' /\ ~persistenceDisabled'
     /\ table' = IF legacy = NoSnapshot THEN table ELSE legacy.map
  \/ Died /\ ~persistenceDisabled'
  \/ /\ running /\ UNCHANGED <<persistenceDisabled, running, legacy>>
     /\ mapping' = table'
     /\ \A a \in Addr : table[a] # NoId => table'[a] = table[a]

\* New UUIDs are in the table as in memory.
LEMMA AdoptFiles ==
  ASSUME MapInv, NEW as \in SUBSET Addr, NEW added \in NewIds(as),
         \A a \in as : mapping[a] = NoId, Adopt(added), writeFailures' = 0,
         ~persistenceDisabled, mapping = table
  PROVE  /\ mapping' = table' /\ ~persistenceDisabled'
         /\ \A a \in Addr : table[a] # NoId => table'[a] = table[a]
<1>1. MapTypeOK /\ DOMAIN added = as /\ writeFailures \in Nat
  BY NewIdsAreNew DEF MapInv, MapTypeOK
<1>2. PICK failed \in SUBSET as :
        /\ writeFailures' = writeFailures + Cardinality(failed)
        /\ table' = [a \in Addr |-> IF a \in as \ failed THEN added[a] ELSE table[a]]
  BY <1>1 DEF Adopt, persistNewMappings
<1>3. failed = {}
  <2>1. IsFiniteSet(failed)
    BY MapAssumption, FS_Subset
  <2>2. Cardinality(failed) \in Nat
    BY <2>1, FS_CardinalityType
  <2>3. Cardinality(failed) = 0
    BY <1>1, <1>2, <2>2
  <2> QED BY <2>1, <2>3, FS_EmptySet
<1>4. table' = [a \in Addr |-> IF a \in as THEN added[a] ELSE table[a]]
  <2>1. as \ failed = as
    BY <1>3
  <2> QED BY <1>2, <2>1
<1>5. mapping' = [a \in Addr |-> IF a \in as THEN added[a] ELSE table[a]] /\ UNCHANGED persistenceDisabled
  BY <1>1 DEF Adopt
<1> QED BY <1>4, <1>5

\* A failed write is counted.
LEMMA NoFailedWrite ==
  ASSUME MapTypeOK, writeFailures' = 0, WriteFails
  PROVE  FALSE
<1>1. writeFailures \in Nat /\ writeFailures' = writeFailures + 1
  BY DEF MapTypeOK, WriteFails
<1> QED BY <1>1

\* Failed writes are never forgotten.
LEMMA FailuresStay ==
  ASSUME MapInv, HostTyped, WorkTyped, [SyncNext]_vars, writeFailures' = 0
  PROVE  writeFailures = 0
<1>0. MapTypeOK /\ writeFailures \in Nat
  BY DEF MapInv, MapTypeOK
<1>1. CASE UNCHANGED writeFailures
  BY <1>1
<1>2. CASE DBFails
  BY <1>0, <1>2, NoFailedWrite DEF DBFails
<1>3. ~WriteFails
  BY <1>0, NoFailedWrite
<1>4. ASSUME NEW gone \in SUBSET Removable, Launch(gone) \/ RunRemove(gone) \/ RunReset(gone)
      PROVE  UNCHANGED writeFailures
  BY <1>3, <1>4 DEF Launch, RunRemove, RunReset, persistMapping, Saved, SaveFailed
<1>5. ASSUME NEW as \in SUBSET Addr, NEW added \in NewIds(as), Adopt(added)
      PROVE  writeFailures = 0
  <2>1. CASE UNCHANGED writeFailures
    BY <2>1
  <2>2. ASSUME NEW failed \in SUBSET DOMAIN added, writeFailures' = writeFailures + Cardinality(failed)
        PROVE  writeFailures = 0
    <3>1. DOMAIN added = as
      BY <1>0, <1>5, NewIdsAreNew
    <3>2. IsFiniteSet(failed)
      BY <2>2, <3>1, MapAssumption, FS_Subset
    <3>3. Cardinality(failed) \in Nat
      BY <3>2, FS_CardinalityType
    <3> QED BY <1>0, <2>2, <3>3
  <2> QED BY <1>5, <2>1, <2>2 DEF Adopt, persistNewMappings
<1>6. CASE RunGenerate
  <2> DEFINE as == {b \in Head(jobs).addrs : mapping[b] = NoId}
  <2>1. PICK added \in NewIds(as) : Adopt(added)
    BY <1>6 DEF RunGenerate
  <2>2. Head(jobs) \in Job
    BY <1>0, <1>6 DEF MapTypeOK, RunGenerate
  <2>3. as \in SUBSET Addr
    BY <2>2 DEF Job
  <2> HIDE DEF as
  <2> QED BY <1>5, <2>1, <2>3
<1>7. ASSUME NEW c \in Caller, Insert(c) PROVE writeFailures = 0
  <2> DEFINE b == resolving[c].addr
  <2>1. b \in Addr
    BY <1>7, BusyCaller DEF Insert, Idle
  <2>2. UNCHANGED writeFailures \/ \E added \in NewIds({b}) : Adopt(added)
    BY <1>7 DEF Insert
  <2>3. {b} \in SUBSET Addr
    BY <2>1
  <2> HIDE DEF b
  <2> QED BY <1>1, <1>5, <2>2, <2>3
<1>8. CASE \/ Exit \/ GenerateMappings \/ RemoveMapping \/ ResetAllMappings \/ UNCHANGED mapVars
           \/ \E c \in Caller : (\E a \in Addr : Ask(c, a)) \/ LookUp(c) \/ Done(c)
  BY <1>1, <1>8 DEF Exit, GenerateMappings, RemoveMapping, ResetAllMappings, Request, Ask, LookUp, Done,
                    mapVars, boundVars
<1> QED BY <1>1, <1>2, <1>4, <1>6, <1>7, <1>8, MapPart DEF Next

\* In calm, a step that fails no write leaves memory and table the same.
LEMMA StepIsCalm ==
  ASSUME MapInv, HostTyped, WorkTyped, [SyncNext]_vars, Calm, loadFailures' = 0, writeFailures' = 0,
         TableIsMemory
  PROVE  CalmMoves
<1>0. MapTypeOK /\ ~WriteFails
  BY NoFailedWrite DEF MapInv
<1>1. CASE UNCHANGED <<mapping, table, persistenceDisabled, running, legacy>>
  BY <1>1 DEF CalmMoves
<1>2. ~DBFails
  BY <1>0 DEF DBFails
<1>3. ASSUME NEW gone \in SUBSET Removable, Launch(gone) PROVE CalmMoves
  <2>1. CASE legacy # NoSnapshot
    BY <1>0, <1>3, <2>1 DEF Launch, Saved, SaveFailed, CalmMoves, Launched
  <2>2. CASE legacy = NoSnapshot
    <3>1. PICK loaded \in BOOLEAN :
            /\ loadFailures' = IF loaded THEN loadFailures ELSE loadFailures + 1
            /\ mapping' = IF loaded THEN table ELSE Empty
            /\ persistenceDisabled' = ~loaded
            /\ UNCHANGED table
      BY <1>3, <2>2 DEF Launch, DisabledAfter
    <3>2. loaded
      BY <3>1 DEF Calm
    <3> QED BY <1>3, <2>2, <3>1, <3>2 DEF Launch, CalmMoves, Launched
  <2> QED BY <2>1, <2>2
<1>4. ASSUME NEW gone \in SUBSET Removable PROVE ~RunRemove(gone) /\ ~RunReset(gone)
  <2>1. jobs # <<>> => Head(jobs).kind = "generate"
    <3>1. jobs \in Seq(Job)
      BY <1>0 DEF MapTypeOK
    <3>2. jobs # <<>> => 1 \in 1 .. Len(jobs) /\ Head(jobs) = jobs[1]
      BY <3>1
    <3> QED BY <3>2 DEF Calm, OnlyGenerates
  <2> QED BY <2>1 DEF RunRemove, RunReset
<1>5. ASSUME NEW as \in SUBSET Addr, NEW added \in NewIds(as), \A a \in as : mapping[a] = NoId,
             Adopt(added), running, UNCHANGED <<running, legacy>>
      PROVE  CalmMoves
  <2>1. mapping = table /\ ~persistenceDisabled /\ persistenceDisabled \in BOOLEAN
    BY <1>0, <1>5 DEF TableIsMemory, MapTypeOK
  <2>2. UNCHANGED persistenceDisabled
    BY <1>5 DEF Adopt
  <2>3. /\ mapping' = table'
        /\ \A a \in Addr : table[a] # NoId => table'[a] = table[a]
    BY <1>5, <2>1, AdoptFiles
  <2> QED BY <1>5, <2>2, <2>3 DEF CalmMoves
<1>6. CASE RunGenerate
  <2> DEFINE as == {b \in Head(jobs).addrs : mapping[b] = NoId}
  <2>1. PICK added \in NewIds(as) : Adopt(added) /\ UNCHANGED <<running, legacy>>
    BY <1>6 DEF RunGenerate
  <2>2. as \in SUBSET Addr /\ \A b \in as : mapping[b] = NoId
    <3>1. Head(jobs) \in Job
      BY <1>0, <1>6 DEF MapTypeOK, RunGenerate
    <3> QED BY <3>1 DEF Job
  <2>3. running
    BY <1>6 DEF RunGenerate, MapInv, IdleUntilLaunch
  <2> HIDE DEF as
  <2> QED BY <1>5, <2>1, <2>2, <2>3
<1>7. ASSUME NEW c \in Caller, Insert(c) PROVE CalmMoves
  <2> DEFINE b == resolving[c].addr
  <2>1. b \in Addr /\ running /\ UNCHANGED <<running, legacy>>
    BY <1>7, BusyCaller DEF Insert, Idle
  <2>2. CASE AlreadyMapped(b)
    BY <1>1, <1>7, <2>1, <2>2 DEF Insert, memoryVars
  <2>3. CASE ~AlreadyMapped(b)
    <3>1. PICK added \in NewIds({b}) : Adopt(added)
      BY <1>7, <2>3 DEF Insert
    <3>2. {b} \in SUBSET Addr /\ \A a \in {b} : mapping[a] = NoId
      BY <2>1, <2>3 DEF AlreadyMapped
    <3> HIDE DEF b
    <3> QED BY <1>5, <2>1, <3>1, <3>2
  <2> QED BY <2>2, <2>3
<1>8. CASE GenerateMappings \/ RemoveMapping \/ ResetAllMappings
  BY <1>1, <1>8 DEF GenerateMappings, RemoveMapping, ResetAllMappings, Request, memoryVars
<1>9. ASSUME NEW c \in Caller, (\E b \in Addr : Ask(c, b)) \/ LookUp(c) \/ Done(c)
      PROVE  CalmMoves
  BY <1>1, <1>9 DEF Ask, LookUp, Done, memoryVars
<1>10. CASE UNCHANGED mapVars
  BY <1>1, <1>10 DEF mapVars, memoryVars
<1>11. CASE Exit
  BY <1>11 DEF Exit, CalmMoves, Died
<1> QED BY <1>2, <1>3, <1>4, <1>6, <1>7, <1>8, <1>9, <1>10, <1>11, MapPart DEF Next

\* A UUID in the table stays there, unless a snapshot takes the table's place.
LEMMA FiledStays ==
  ASSUME CalmMoves, legacy = NoSnapshot, NEW i, i \in Ids(table)
  PROVE  i \in Ids(table')
<1>1. i # NoId /\ \E a \in Addr : table[a] = i
  BY DEF Ids
<1>2. PICK a \in Addr : table[a] = i
  BY <1>1
<1>3. table'[a] = i
  BY <1>1, <1>2 DEF CalmMoves, Launched, Died
<1> QED BY <1>1, <1>3, InIds

\* A row appears where a recorder writes it, or the merge.
LEMMA NewRow ==
  ASSUME Typed, [SyncNext]_vars, NEW k \in Key, rows[k] = NoRow, rows'[k] # NoRow
  PROVE  \/ \E t \in Recorder : rec[t].step = "write" /\ rec[t].key = k
         \/ work.step = "migrate" /\ \E e \in work.left : e.key = k
<1>0. rows \in [Key -> Row \cup {NoRow}]
  BY DEF Typed, RowsTyped
<1>1. ASSUME NEW t \in Recorder, Write(t) PROVE rec[t].step = "write" /\ rec[t].key = k
  <2>1. rec[t].step = "write" /\ rec[t].key \in Key
    BY <1>1, RecParts DEF Write, Typed
  <2>2. UNCHANGED rows \/ \E val : Put(rec[t].key, val)
    BY <1>1 DEF Write
  <2> QED BY <1>0, <2>1, <2>2 DEF Put
<1>2. CASE MigrateRow
  <2>1. work.step = "migrate" /\ (UNCHANGED rows \/ \E e \in work.left : Put(e.key, e.val))
    BY <1>2, MigratePuts DEF Typed
  <2>2. PICK e \in work.left : Put(e.key, e.val)
    BY <2>1
  <2>3. e.key = k
    BY <1>0, <2>2 DEF Put
  <2> QED BY <2>1, <2>3
<1>3. CASE Acknowledge
  <2>1. work.rows \in SUBSET Entry
    BY <1>3, WorkParts DEF Acknowledge, Typed, WorkTyped
  <2>2. PICK f \in work.rows :
          rows' = rows \/ (rows' = [rows EXCEPT ![f.key].updated = FALSE] /\ Dirty(f.key))
    BY <1>3 DEF Acknowledge, UnchangedSinceSent
  <2> QED BY <1>0, <2>2 DEF Dirty
<1>4. CASE Clean
  BY <1>4 DEF Clean
<1>5. CASE Remap
  <2>1. PICK gone \in SUBSET Removable : Purge(gone)
    BY <1>5 DEF Remap
  <2> QED BY <2>1 DEF Purge
<1>6. ASSUME NEW s \in Slot, Receive(s) PROVE rows'[k] = rows[k]
  BY <1>6 DEF Receive, dbVars
<1> QED BY <1>1, <1>2, <1>3, <1>4, <1>5, <1>6, RowsSteps

\* A recorder is about to write under the UUID it was answered.
LEMMA NewWrite ==
  ASSUME Typed, [SyncNext]_vars, NEW t \in Recorder, rec'[t].step = "write"
  PROVE  \/ rec'[t] = rec[t]
         \/ /\ Stamp(t) /\ resolving[t].at = "done" /\ resolving[t] # Idle
            /\ rec'[t].key.id = resolving[t].id
<1>0. rec \in [Recorder -> Record]
  BY DEF Typed, RecTyped
<1>1. ASSUME NEW u \in Recorder, Stamp(u) PROVE rec'[t] = rec[t] \/ u = t
  BY <1>0, <1>1 DEF Stamp
<1>2. CASE Stamp(t)
  <2>1. resolving[t].at = "done" /\ resolving[t] # Idle
    BY <1>2 DEF Stamp, Done, Idle
  <2> DEFINE k == [kind |-> rec[t].kind, chain |-> config.chain, id |-> resolving[t].id, day |-> today]
  <2>2. rec'[t] = IF rec[t].kind = "tx" THEN [step |-> "write", key |-> k]
                  ELSE [step |-> "write", key |-> k, val |-> rec[t].val]
    BY <1>0, <1>2 DEF Stamp
  <2>3. k.id = resolving[t].id
    OBVIOUS
  <2> HIDE DEF k
  <2>4. rec'[t].key = k
    BY <2>2
  <2> QED BY <1>2, <2>1, <2>3, <2>4
<1>3. ASSUME NEW u \in Recorder, BeginRecord(u) PROVE rec'[t] = rec[t]
  <2>1. PICK call : rec' = [rec EXCEPT ![u] = call] /\ call.step = "id"
    <3>1. \/ rec' = [rec EXCEPT ![u] = [step |-> "id", kind |-> "tx"]]
          \/ \E b \in Balances : rec' = [rec EXCEPT ![u] = [step |-> "id", kind |-> "asset", val |-> b]]
      BY <1>3 DEF BeginRecord
    <3>2. \A b : /\ [step |-> "id", kind |-> "tx"].step = "id"
                 /\ [step |-> "id", kind |-> "asset", val |-> b].step = "id"
      OBVIOUS
    <3> QED BY <3>1, <3>2
  <2>2. u # t
    BY <1>0, <2>1
  <2> QED BY <1>0, <2>1, <2>2
<1>4. ASSUME NEW u \in Recorder, Write(u) PROVE rec'[t] = rec[t]
  <2>1. rec' = [rec EXCEPT ![u] = NoCall] /\ NoCall.step # "write"
    BY <1>4 DEF Write, NoCall
  <2> QED BY <1>0, <2>1
<1>5. ~Die
  BY DEF Die, NoCall
<1> QED BY <1>1, <1>2, <1>3, <1>4, <1>5, RecSteps

\* A new answer is a UUID that memory has.
LEMMA NewAnswer ==
  ASSUME Typed, [SyncNext]_vars, NEW c \in Caller, resolving'[c].at = "done", resolving'[c] # resolving[c]
  PROVE  running /\ resolving'[c].id \in Ids(mapping')
<1>1. LookUp(c) \/ Insert(c)
  <2>1. resolving'[c] # Idle /\ \A a : resolving'[c] # [at |-> "lookup", addr |-> a]
    BY DEF Idle
  <2> QED BY <2>1, CallerSteps
<1>2. /\ resolving[c] # Idle /\ resolving'[c] # Idle /\ resolving'[c].addr = resolving[c].addr
      /\ mapping'[resolving'[c].addr] = resolving'[c].id
  BY <1>1, FreshAnswer DEF Typed
<1>3. running /\ resolving[c].addr \in Addr
  BY <1>2, BusyCaller DEF Typed
<1>4. resolving'[c].id \in Id
  <2>1. resolving'[c] \in Progress
    BY StepKeepsMap DEF Typed, MapInv, MapTypeOK
  <2> QED BY <2>1 DEF Progress, Idle
<1>5. resolving'[c].id # NoId
  BY <1>4, MapAssumption
<1> QED BY <1>2, <1>3, <1>5, InIds

\* The device records nothing before the first launch.
LEMMA NothingYet ==
  ASSUME Typed, Owned, MapMerging, Untouched, [SyncNext]_vars, legacy # NoSnapshot
  PROVE  /\ \A k \in Key : rows'[k] = NoRow
         /\ \A t \in Recorder : rec'[t].step # "write"
         /\ \A c \in Caller : resolving'[c].at # "done"
<1>1. /\ ~running /\ work = Rest /\ \A c \in Caller : resolving[c] = Idle
      /\ (\A k \in Key : rows[k] = NoRow) /\ \A t \in Recorder : rec[t].step # "write"
  BY DEF MapMerging, BeforeLaunch, Owned, DeadIsEmpty, Typed, MapInv, IdleUntilLaunch, Untouched
<1>3. ASSUME NEW k \in Key PROVE rows'[k] = NoRow
  BY <1>1, NewRow DEF Rest
<1>4. ASSUME NEW t \in Recorder PROVE rec'[t].step # "write"
  <2>1. t \in Caller
    BY DEF Recorder
  <2> QED BY <1>1, <2>1, NewWrite
<1>5. ASSUME NEW c \in Caller PROVE resolving'[c].at # "done"
  <2>1. resolving[c].at # "done"
    BY <1>1 DEF Idle
  <2> QED BY <1>1, <2>1, NewAnswer
<1> QED BY <1>3, <1>4, <1>5

\* And a snapshot is only dropped.
LEMMA StepKeepsUntouched ==
  ASSUME Typed, Owned, MapMerging, OldWallets, Untouched, [SyncNext]_vars
  PROVE  OldWallets' /\ Untouched'
<1>1. legacy' = legacy \/ legacy' = NoSnapshot
  BY StepMoves DEF Typed, MapMoves, Launched, Died, Forgets, Adopts
<1> QED BY <1>1, NothingYet, OldRowsStay DEF OldWallets, Untouched

\* Everything stays filed.
LEMMA StepKeepsFiled ==
  ASSUME Typed, Owned, MapMerging, OldWallets, Untouched, AllFiled, [SyncNext]_vars, Calm, loadFailures' = 0,
         writeFailures' = 0
  PROVE  AllFiled'
<1>0. /\ TableIsMemory /\ AnswersFiled /\ RecordersFiled /\ OldFiled /\ RowsFiled
      /\ MapInv /\ HostTyped /\ WorkTyped
  BY DEF AllFiled, Typed
<1>1. CalmMoves
  BY <1>0, StepIsCalm
<1>2. TableIsMemory'
  BY <1>0, <1>1 DEF CalmMoves, Launched, Died, TableIsMemory
<1>3. CASE legacy # NoSnapshot
  <2>1. AnswersFiled' /\ RecordersFiled' /\ RowsFiled'
    BY <1>3, NothingYet DEF AnswersFiled, RecordersFiled, RowsFiled
  <2>2. OldFiled'
    <3>1. ~running
      BY <1>3 DEF MapMerging, BeforeLaunch
    <3>2. table' = table \/ table' = legacy.map
      BY <1>1, <3>1 DEF CalmMoves, Launched, Died
    <3> QED BY <1>0, <1>3, <3>2, OldRowsStay DEF OldFiled, OldWallets
  <2> QED BY <1>2, <2>1, <2>2 DEF AllFiled
<1>4. CASE legacy = NoSnapshot
  <2>0. ASSUME NEW i, i \in Ids(table) PROVE i \in Ids(table')
    BY <1>1, <1>4, <2>0, FiledStays
  <2>1. AnswersFiled'
    <3> SUFFICES ASSUME NEW c \in Caller, resolving'[c].at = "done"
                 PROVE  resolving'[c].id \in Ids(table')
      BY DEF AnswersFiled
    <3>1. CASE resolving'[c] = resolving[c]
      BY <1>0, <2>0, <3>1 DEF AnswersFiled
    <3>2. CASE resolving'[c] # resolving[c]
      <4>1. running /\ resolving'[c].id \in Ids(mapping')
        BY <3>2, NewAnswer
      <4>2. running'
        <5>1. ~running' => Die
          BY <1>0, <4>1, ExitIsDie
        <5>2. Die => resolving'[c] = Idle
          BY DEF Die, Exit
        <5> QED BY <5>1, <5>2 DEF Idle
      <4> QED BY <1>2, <4>1, <4>2 DEF TableIsMemory
    <3> QED BY <3>1, <3>2
  <2>2. RecordersFiled'
    <3> SUFFICES ASSUME NEW t \in Recorder, rec'[t].step = "write"
                 PROVE  rec'[t].key.id \in Ids(table')
      BY DEF RecordersFiled
    <3>1. t \in Caller
      BY DEF Recorder
    <3>2. rec'[t] = rec[t] \/ (resolving[t].at = "done" /\ rec'[t].key.id = resolving[t].id)
      BY NewWrite
    <3> QED BY <1>0, <2>0, <3>1, <3>2 DEF RecordersFiled, AnswersFiled
  <2>3. OldFiled'
    BY <1>0, <2>0, OldRowsStay DEF OldFiled
  <2>4. RowsFiled'
    <3> SUFFICES ASSUME NEW k \in Key, rows'[k] # NoRow PROVE k.id \in Ids(table')
      BY DEF RowsFiled
    <3>1. k.id \in Ids(table)
      <4>1. CASE rows[k] # NoRow
        BY <1>0, <4>1 DEF RowsFiled
      <4>2. ASSUME NEW t \in Recorder, rec[t].step = "write", rec[t].key = k PROVE k.id \in Ids(table)
        BY <1>0, <4>2 DEF RecordersFiled
      <4>3. ASSUME work.step = "migrate", NEW e \in work.left, e.key = k PROVE k.id \in Ids(table)
        BY <1>0, <4>3 DEF WorkTyped, OldFiled
      <4> QED BY <4>1, <4>2, <4>3, NewRow
    <3> QED BY <2>0, <3>1
  <2> QED BY <1>2, <2>1, <2>2, <2>3, <2>4 DEF AllFiled
<1> QED BY <1>3, <1>4

\* The inductive step.
LEMMA StepKeepsFiling ==
  ASSUME Typed, Owned, MapMerging, Filing, [SyncNext]_vars, Calm, loadFailures' = 0
  PROVE  Filing'
<1>1. writeFailures' = 0 => writeFailures = 0
  BY FailuresStay DEF Typed
<1> QED BY <1>1, StepKeepsUntouched, StepKeepsFiled DEF Filing

\* At the start only the older database has rows.
LEMMA InitFiling == SyncInit /\ OldWallets => Filing
<1> SUFFICES ASSUME SyncInit, OldWallets PROVE Filing
  OBVIOUS
<1>1. /\ ~persistenceDisabled /\ ~running /\ (\A c \in Caller : resolving[c].at # "done")
      /\ (\A k \in Key : rows[k] = NoRow) /\ \A t \in Recorder : rec[t].step # "write"
  BY DEF SyncInit, Init, Idle, NoCall
<1>2. oldRows \in SUBSET OldEntries
  BY DEF SyncInit
<1>3. OldFiled
  BY <1>2 DEF OldEntries, OldFiled
<1> QED BY <1>1, <1>3 DEF Filing, Untouched, AllFiled, TableIsMemory, AnswersFiled, RecordersFiled, RowsFiled

\* Every row is filed under a UUID that AddressMapTable gives to an address, so it can be
\* uploaded and deleted, as long as no database write failed: in every session of every
\* host that does not remove wallets, on a device that loads its table
\* (TRXAddressMapManager.id(for:), upsertTransactionsData).
THEOREM RowsStayOwned ==
  SyncSpec /\ OldWallets /\ [](OnlyGenerates /\ loadFailures = 0) => []RowsHaveOwners
<1>1. Typed /\ Owned /\ Merging /\ Filing /\ [SyncNext]_vars /\ Calm /\ Calm' => Filing'
  BY StepKeepsFiling DEF Merging, Calm
<1>2. Filing => RowsHaveOwners
  BY DEF Filing, AllFiled, RowsFiled, RowsHaveOwners
<1>3. SyncInit /\ OldWallets => Filing
  BY InitFiling
<1>4. OnlyGenerates /\ loadFailures = 0 <=> Calm
  BY DEF Calm
<1>5. Typed /\ Confirming /\ Owned /\ Merging /\ [SyncNext]_vars => Merging'
  BY StepKeepsMapMerging, StepKeepsMigrateHeld, StepKeepsMerged DEF Merging
<1> QED BY <1>1, <1>2, <1>3, <1>4, <1>5, InitMerging, InitOwned, StepKeepsOwned, InitConfirming,
           StepKeepsConfirming, TypedAlways, PTL DEF SyncSpec
=============================================================================
