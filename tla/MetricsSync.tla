----------------------------- MODULE MetricsSync -----------------------------
(***************************************************************************)
(* The statistics pipeline of Metrics/: recording into AssetSyncTable and  *)
(* TransactionSyncTable, the one-time migration of an older database, and  *)
(* the upload, acknowledgement and cleanup that TRXStatisticalUploadManager*)
(* runs on its serial queue, composed with the address map the rows are    *)
(* filed under (AddressMap).                                               *)
(*                                                                         *)
(* FMDatabaseQueue runs one block at a time, so every inDatabase { } is    *)
(* one step.  An asset row's value is its balances; a transaction row's    *)
(* is its count, which stands for the amounts and buckets summed with it.  *)
(* The host owns one data source object whose answers change (config).     *)
(*                                                                         *)
(* Definitions named Faulty... are seeded faults: the mutation runs put    *)
(* each in the place of the definition that follows it.                    *)
(***************************************************************************)
EXTENDS AddressMap

CONSTANTS
  Worker,        \* the serial metricsQueue, as a caller of id(for:)
  Chain,         \* environment keys
  Balances,      \* the balances hosts report
  Blank,         \* a balance that is the empty string
  NoRow,         \* the table has no row under a key
  NoRequest,     \* a free network slot
  Kinds,         \* what hosts record: "asset", "tx"
  OldVals,       \* values in the older database; empty: the app was not upgraded
  MaxOldRows,    \* bound: rows in the older database
  MaxDay,        \* bound: UTC days
  MaxRecords,    \* bound: recording calls
  MaxSwitches,   \* bound: times the data source changes its answers
  MaxQueue,      \* bound: blocks waiting on metricsQueue
  MaxFlight      \* bound: requests on the network

ASSUME SyncAssumption ==
  /\ Worker \in Caller
  /\ Kinds \subseteq {"asset", "tx"}
  /\ \A b \in Balances : DOMAIN b = {"token", "usd"}
  /\ NoRow \notin [val : Balances \cup [count : Nat], updated : BOOLEAN]
  /\ OldVals \subseteq Balances \cup [count : Nat \ {0}] /\ MaxOldRows \in Nat
  /\ MaxDay \in Nat \ {0} /\ MaxRecords \in Nat /\ MaxSwitches \in Nat
  /\ MaxQueue \in Nat \ {0} /\ MaxFlight \in Nat \ {0}

Recorder == Caller \ {Worker}
Day == 1 .. MaxDay
Slot == 1 .. MaxFlight
Key == [kind : Kinds, chain : Chain, id : Id, day : Day]
Value == Balances \cup [count : Nat]
Entry == [key : Key, val : Value]     \* a row as it is read and sent
OldRow == [key : Key, val : Value, updated : BOOLEAN]

VARIABLES
  rows,        \* the two tables
  migrated,    \* UserDefaults: the chains whose older database was merged
  oldRows,     \* the older database, which is kept
  config,      \* the data source's answers
  window,      \* history: its answers since metricsQueue last looked before a request
  today,
  rec,         \* each recorder's call in progress
  queue,       \* metricsQueue
  work,        \* the block metricsQueue is running
  network,     \* requests sent
  received,    \* the row values the server has received
  records, switches

hostVars == <<config, window, today, switches>>
workVars == <<queue, work>>
netVars  == <<network, received>>
dbVars   == <<rows, migrated, oldRows>>
syncVars == <<dbVars, hostVars, workVars, netVars, rec, records>>
vars == <<mapVars, syncVars>>

NoCall == [step |-> "none"]
Rest == [step |-> "none"]
Config == [addr : Addr, chain : Chain, collect : BOOLEAN, report : BOOLEAN]

\* The unreported rows of an upgraded app: "records that need to be uploaded"
\* (TRXMetricsDataSource line 41), of wallets it still had.
OldEntries ==
  {e \in [key : {k \in Key : k.id \in Ids(table) /\ k.day <= today}, val : OldVals,
          updated : {TRUE}] : e.key.kind = "tx" <=> "count" \in DOMAIN e.val}

SyncInit ==
  /\ Init
  /\ today \in Day
  /\ rows = [k \in Key |-> NoRow]
  /\ migrated = {}
  /\ oldRows \in {es \in SUBSET OldEntries :
                    /\ Cardinality(es) <= MaxOldRows
                    /\ \A e, f \in es : e.key = f.key => e = f}
  /\ config \in Config /\ window = {}
  /\ rec = [t \in Recorder |-> NoCall]
  /\ queue = <<>>
  /\ work = Rest
  /\ network = [s \in Slot |-> NoRequest]
  /\ received = [k \in Key |-> {}]
  /\ records = 0 /\ switches = 0

-----------------------------------------------------------------------------
\* A row the server has not confirmed.
Dirty(k) == rows[k] # NoRow /\ rows[k].updated
FaultyDirtyEntries(kind, chain, id) ==
  {[key |-> k, val |-> rows[k].val] :
     k \in {l \in Key : l.kind = kind /\ l.chain = chain /\ l.id = id /\ l.day = today /\ Dirty(l)}}
DirtyEntries(kind, chain, id) ==
  {[key |-> k, val |-> rows[k].val] :
     k \in {l \in Key : l.kind = kind /\ l.chain = chain /\ l.id = id /\ Dirty(l)}}

Put(k, val) == rows' = [rows EXCEPT ![k] = [val |-> val, updated |-> TRUE]]

\* Statement or commit failures roll the transaction back.
DBFails ==
  /\ WriteFails
  /\ UNCHANGED <<table, legacy, memoryVars, jobs, resolving, running, issued,
                 forgotten, requests, exits, loadFailures>>

-----------------------------------------------------------------------------
\* upsertTransactionsData, and makeCurrentAddressAssetSyncModel followed by
\* upsertAssetData: only the second checks isCollectionDisabled after id(for:).
BeginRecord(t) ==
  /\ rec[t] = NoCall
  /\ records < MaxRecords
  /\ records' = records + 1
  /\ \/ /\ "tx" \in Kinds
        /\ config.collect
        /\ rec' = [rec EXCEPT ![t] = [step |-> "id", kind |-> "tx"]]
     \/ /\ "asset" \in Kinds
        /\ \E b \in Balances :
             rec' = [rec EXCEPT ![t] = [step |-> "id", kind |-> "asset", val |-> b]]
  /\ Ask(t, config.addr)
  /\ UNCHANGED <<dbVars, hostVars, workVars, netVars>>

\* The UUID is back: the model gets its date and chain.
Stamp(t) ==
  /\ rec[t].step = "id"
  /\ Done(t)
  /\ LET k == [kind |-> rec[t].kind, chain |-> config.chain,
               id |-> resolving[t].id, day |-> today] IN
     rec' = [rec EXCEPT ![t] =
       IF rec[t].kind = "tx" THEN [step |-> "write", key |-> k]
       ELSE [step |-> "write", key |-> k, val |-> rec[t].val]]
  /\ UNCHANGED <<dbVars, hostVars, workVars, netVars, records>>

\* mutateTransactionSync with the transform of upsertTransactionsData.
CountAfter(k) == [count |-> IF rows[k] = NoRow THEN 1 ELSE rows[k].val.count + 1]

\* The balances upsertAssetSync_compareAndUpsert finds worth an update.
Differ(old, new) ==
  \/ old.token # Blank /\ new.token # Blank /\ old.token # new.token
  \/ new.usd # Blank /\ old.usd # new.usd

Write(t) ==
  LET k == rec[t].key IN
  /\ rec[t].step = "write"
  /\ rec' = [rec EXCEPT ![t] = NoCall]
  /\ \/ /\ k.kind = "tx"
        /\ Put(k, CountAfter(k))
        /\ UNCHANGED mapVars
     \/ /\ k.kind = "asset"
        /\ IF config.collect /\ (rows[k] = NoRow \/ Differ(rows[k].val, rec[t].val))
           THEN Put(k, rec[t].val)
           ELSE UNCHANGED rows
        /\ UNCHANGED mapVars
     \/ DBFails /\ UNCHANGED rows
  /\ UNCHANGED <<migrated, oldRows, hostVars, workVars, netVars, records>>

-----------------------------------------------------------------------------
\* uploadStatisticalData
Upload ==
  /\ running
  /\ config.collect
  /\ Len(queue) < MaxQueue
  /\ queue' = Append(queue, [kind |-> "upload"])
  /\ UNCHANGED <<mapVars, dbVars, hostVars, work, netVars, rec, records>>

StartUpload ==
  /\ work = Rest
  /\ queue # <<>> /\ Head(queue).kind = "upload"
  /\ queue' = Tail(queue)
  /\ work' = IF ~config.collect THEN Rest
             ELSE [step |-> "begin", addr |-> config.addr, chain |-> config.chain]
  /\ UNCHANGED <<mapVars, dbVars, hostVars, netVars, rec, records>>

\* migrateFromLegacyIfNeeded asks the data source for its chain again: it has none to
\* give only when collection is off.
BeginMigration ==
  /\ work.step = "begin"
  /\ \/ /\ config.chain \notin migrated
        /\ work' = [step |-> "migrate", addr |-> work.addr, chain |-> work.chain,
                    from |-> config.chain, ok |-> TRUE,
                    left |-> {e \in oldRows : e.key.chain = config.chain}]
     \/ /\ config.chain \in migrated \/ ~config.collect
        /\ work' = [work EXCEPT !.step = "check"]
  /\ UNCHANGED <<mapVars, dbVars, hostVars, queue, netVars, rec, records>>

\* Every row goes over whatever is there in a transaction of its own, the assets first;
\* the merge is done if all of them were committed.
FaultyAllSucceeded(sofar, ok) == ok
AllSucceeded(sofar, ok) == sofar /\ ok

MigrateRow ==
  /\ work.step = "migrate"
  /\ \E e \in work.left, ok \in BOOLEAN :
       /\ e.key.kind = "tx" => \A f \in work.left : f.key.kind = "tx"
       /\ \/ /\ ok
             /\ rows' = [rows EXCEPT ![e.key] = [val |-> e.val, updated |-> e.updated]]
             /\ UNCHANGED mapVars
          \/ ~ok /\ DBFails /\ UNCHANGED rows
       /\ work' = [work EXCEPT !.left = @ \ {e}, !.ok = AllSucceeded(@, ok)]
  /\ UNCHANGED <<migrated, oldRows, hostVars, queue, netVars, rec, records>>

FaultyMergedChain(w) == w.chain
MergedChain(w) == w.from

EndMigration ==
  /\ work.step = "migrate" /\ work.left = {}
  /\ migrated' = IF work.ok THEN migrated \cup {MergedChain(work)} ELSE migrated
  /\ work' = [step |-> "check", addr |-> work.addr, chain |-> work.chain]
  /\ UNCHANGED <<mapVars, rows, oldRows, hostVars, queue, netVars, rec, records>>

\* isCurrentUploadConfig
FaultyIsCurrentUploadConfig(w) == config.collect /\ config.report
isCurrentUploadConfig(w) ==
  /\ config.collect /\ config.report
  /\ config.chain = w.chain /\ config.addr = w.addr

CheckConfig ==
  /\ work.step = "check"
  /\ IF isCurrentUploadConfig(work)
     THEN /\ Ask(Worker, work.addr)
          /\ work' = [work EXCEPT !.step = "assets"]
     ELSE /\ work' = Rest
          /\ UNCHANGED mapVars
  /\ UNCHANGED <<dbVars, hostVars, queue, netVars, rec, records>>

\* uploadStatisticalDataToServer reads the two tables one after the other.
ReadAssets ==
  /\ work.step = "assets"
  /\ Done(Worker)
  /\ LET id == resolving[Worker].id IN
     work' = [step |-> "transactions", addr |-> work.addr, chain |-> work.chain,
              id |-> id, rows |-> DirtyEntries("asset", work.chain, id)]
  /\ UNCHANGED <<dbVars, hostVars, queue, netVars, rec, records>>

ReadTransactions ==
  /\ work.step = "transactions"
  /\ LET all == work.rows \cup DirtyEntries("tx", work.chain, work.id) IN
     work' = IF all = {} THEN Rest ELSE [work EXCEPT !.step = "send", !.rows = all]
  /\ UNCHANGED <<mapVars, dbVars, hostVars, queue, netVars, rec, records>>

\* uploadStatisticalDatabase checks the configuration again, and then calls the network:
\* the data source may change its answers in between.
CheckAgain ==
  /\ work.step = "send"
  /\ IF isCurrentUploadConfig(work)
     THEN work' = [work EXCEPT !.step = "call"] /\ window' = {config}
     ELSE work' = Rest /\ UNCHANGED window
  /\ UNCHANGED <<mapVars, dbVars, config, today, switches, queue, netVars, rec, records>>

Send ==
  /\ work.step = "call"
  /\ work' = Rest /\ window' = {}
  /\ \E s \in Slot :
       /\ network[s] = NoRequest
       /\ \A r \in 1 .. s - 1 : network[r] # NoRequest
       /\ network' = [network EXCEPT ![s] =
            [chain |-> work.chain, id |-> work.id, rows |-> work.rows,
             delivered |-> FALSE, awaited |-> TRUE]]
  /\ UNCHANGED <<mapVars, dbVars, config, today, switches, queue, received, rec, records>>

-----------------------------------------------------------------------------
\* The host's network: a request may arrive, and its answer may, in any order.
Receive(s) ==
  /\ network[s] # NoRequest
  /\ ~network[s].delivered
  /\ network' = IF network[s].awaited
                 THEN [network EXCEPT ![s].delivered = TRUE]
                 ELSE [network EXCEPT ![s] = NoRequest]
  /\ received' = [k \in Key |-> received[k] \cup
                    {e.val : e \in {f \in network[s].rows : f.key = k}}]
  /\ UNCHANGED <<mapVars, dbVars, hostVars, workVars, rec, records>>

\* The success callback, with isUploadSuccess: the rest goes back to metricsQueue.
Succeed(s) ==
  /\ network[s] # NoRequest
  /\ network[s].delivered /\ network[s].awaited
  /\ network' = [network EXCEPT ![s] = NoRequest]
  /\ queue' = Append(queue, [kind |-> "ack", chain |-> network[s].chain,
                             id |-> network[s].id, rows |-> network[s].rows])
  /\ UNCHANGED <<mapVars, dbVars, hostVars, work, received, rec, records>>

\* The failure callback, isUploadSuccess = false, or no answer at all.
Fail(s) ==
  /\ network[s] # NoRequest
  /\ network' = [network EXCEPT ![s] = NoRequest]
  /\ UNCHANGED <<mapVars, dbVars, hostVars, workVars, received, rec, records>>

StartAcknowledge ==
  /\ work = Rest
  /\ queue # <<>> /\ Head(queue).kind = "ack"
  /\ work' = [step |-> "ack", chain |-> Head(queue).chain, id |-> Head(queue).id,
              rows |-> Head(queue).rows]
  /\ queue' = Tail(queue)
  /\ UNCHANGED <<mapVars, dbVars, hostVars, netVars, rec, records>>

\* acknowledgeUploadedAsset, acknowledgeUploadedTransaction: the row is confirmed
\* only if it still is what was sent.
FaultyUnchangedSinceSent(e) == Dirty(e.key)
UnchangedSinceSent(e) == Dirty(e.key) /\ rows[e.key].val = e.val

Acknowledge ==
  /\ work.step = "ack"
  /\ \E e \in work.rows :
       /\ e.key.kind = "tx" => \A f \in work.rows : f.key.kind = "tx"
       /\ work' = IF work.rows = {e}
                  THEN [step |-> "clean", kind |-> "asset", chain |-> work.chain,
                        id |-> work.id]
                  ELSE [work EXCEPT !.rows = @ \ {e}]
       /\ \/ /\ rows' = IF UnchangedSinceSent(e)
                        THEN [rows EXCEPT ![e.key].updated = FALSE] ELSE rows
             /\ UNCHANGED mapVars
          \/ DBFails /\ UNCHANGED rows
  /\ UNCHANGED <<migrated, oldRows, hostVars, queue, netVars, rec, records>>

\* deleteAssetsBeforeToday, then deleteTransactionSyncBeforeToday.
FaultyPast(k) == k.day < today
Past(k) == k.day < today /\ ~Dirty(k)

Clean ==
  /\ work.step = "clean"
  /\ work' = IF work.kind = "asset" THEN [work EXCEPT !.kind = "tx"] ELSE Rest
  /\ \/ /\ rows' = [k \in Key |->
               IF /\ k.kind = work.kind /\ k.chain = work.chain /\ k.id = work.id
                  /\ Past(k)
               THEN NoRow ELSE rows[k]]
        /\ UNCHANGED mapVars
     \/ DBFails /\ UNCHANGED rows
  /\ UNCHANGED <<migrated, oldRows, hostVars, queue, netVars, rec, records>>

-----------------------------------------------------------------------------
\* The address map at work: a removal deletes the rows filed under its UUID in the
\* transaction that rewrites the table (saveAddressMappings).
FaultyPurge(gone) == rows' = [k \in Key |-> IF gone # {} THEN NoRow ELSE rows[k]]
Purge(gone) == rows' = [k \in Key |-> IF k.id \in gone THEN NoRow ELSE rows[k]]

Remap ==
  /\ \E gone \in SUBSET Removable :
       /\ Launch(gone) \/ RunRemove(gone) \/ RunReset(gone)
       /\ Purge(gone)
  /\ UNCHANGED <<migrated, oldRows, hostVars, workVars, netVars, rec, records>>

Map ==
  /\ \/ RunGenerate \/ GenerateMappings \/ RemoveMapping \/ ResetAllMappings
     \/ \E c \in Caller : LookUp(c) \/ Insert(c)
  /\ UNCHANGED syncVars

\* The process dies: the databases, UserDefaults and what is on the way to the
\* server stay, but nobody waits for an answer any more.
Die ==
  /\ Exit
  /\ rec' = [t \in Recorder |-> NoCall]
  /\ queue' = <<>>
  /\ work' = Rest /\ window' = {}
  /\ network' = [s \in Slot |-> IF network[s] = NoRequest \/ network[s].delivered
                                THEN NoRequest
                                ELSE [network[s] EXCEPT !.awaited = FALSE]]
  /\ UNCHANGED <<dbVars, config, today, switches, received, records>>

\* The UTC day ends.
NextDay ==
  /\ today < MaxDay
  /\ today' = today + 1
  /\ UNCHANGED <<mapVars, dbVars, config, window, switches, workVars, netVars, rec, records>>

\* The user switches the wallet or the network, or turns reporting on or off.
Reconfigure ==
  /\ switches < MaxSwitches
  /\ switches' = switches + 1
  /\ config' \in Config
  /\ window' = IF work.step = "call" THEN window \cup {config'} ELSE window
  /\ UNCHANGED <<mapVars, dbVars, today, workVars, netVars, rec, records>>

\* The steps metricsQueue takes once it has a block to run.
WorkerStep ==
  \/ StartUpload \/ BeginMigration \/ MigrateRow \/ EndMigration
  \/ CheckConfig \/ ReadAssets \/ ReadTransactions \/ CheckAgain \/ Send
  \/ StartAcknowledge \/ Acknowledge \/ Clean

SyncNext ==
  \/ \E t \in Recorder : BeginRecord(t) \/ Stamp(t) \/ Write(t)
  \/ Upload \/ WorkerStep
  \/ \E s \in Slot : Receive(s) \/ Succeed(s) \/ Fail(s)
  \/ Remap \/ Map \/ Die \/ NextDay \/ Reconfigure

SyncSpec == SyncInit /\ [][SyncNext]_vars

\* metricsQueue, the address map and the application are scheduled, the host keeps
\* asking for uploads, and a request sent again and again is delivered and answered.
SyncFairness ==
  /\ WF_vars(WorkerStep) /\ WF_vars(Map) /\ WF_vars(Remap) /\ WF_vars(Upload)
  /\ \A s \in Slot : SF_vars(Receive(s)) /\ SF_vars(Succeed(s)) /\ WF_vars(Fail(s))
  /\ WF_vars(NextDay)

FairSyncSpec == SyncSpec /\ SyncFairness

-----------------------------------------------------------------------------
\* Every variable stays in its range.
SyncTypeOK ==
  /\ MapTypeOK
  /\ rows \in [Key -> [val : Value, updated : BOOLEAN] \cup {NoRow}]
  /\ migrated \subseteq Chain /\ oldRows \subseteq OldRow
  /\ config \in Config /\ window \subseteq Config /\ today \in Day
  /\ rec \in [Recorder ->
       {NoCall} \cup [step : {"id"}, kind : {"tx"}]
       \cup [step : {"id"}, kind : {"asset"}, val : Balances]
       \cup [step : {"write"}, key : Key]
       \cup [step : {"write"}, key : Key, val : Balances]]
  /\ received \in [Key -> SUBSET Value]
  /\ \A s \in Slot : network[s] # NoRequest =>
       /\ network[s].chain \in Chain /\ network[s].id \in Id
       /\ network[s].rows \subseteq Entry
       /\ network[s].delivered \in BOOLEAN /\ network[s].awaited \in BOOLEAN

\* A row is confirmed only with the value the server has: an event recorded while
\* its request is on the wire keeps the row dirty, whatever the order in which
\* requests, answers, recordings and process deaths come (lines 317-338, 583-618).
AckedWasReceived ==
  \A k \in Key : rows[k] # NoRow /\ ~rows[k].updated => rows[k].val \in received[k]

\* Statistics leave the device's tables only after the server got them, or because
\* no address uses their UUID any more (lines 279-286, 545-552, 680-687).
DeletedWasReported ==
  [][\A k \in Key : rows[k] # NoRow /\ rows'[k] = NoRow =>
       rows[k].val \in received[k] \/ k.id \notin Ids(mapping')]_vars

\* Every row that leaves is of a wallet and a network that were selected together, with
\* reporting on, at some instant between the last look before the request and the
\* request itself, though the rows were read in earlier steps: a switch of wallet,
\* network or consent lets at most the request that had passed that look go out, and
\* no request carries rows of two wallets or networks (manager lines 201-222, view
\* model lines 20-27).
SendsAreCurrent ==
  [][\A s \in Slot : network[s] = NoRequest /\ network'[s] # NoRequest =>
       \E c \in window :
         /\ c.collect /\ c.report
         /\ \A e \in network'[s].rows :
              /\ e.key.chain = c.chain
              /\ mapping[c.addr] = e.key.id \/ c.addr \in forgotten]_vars

\* The value says at least what the older row said.
Covers(val, e) == e.key.kind = "tx" => val.count >= e.val.count

\* An older database counts as merged only when each of its rows reached the new
\* tables, through merges that fail between two rows, process deaths and merges that
\* start again over what was recorded since (lines 126-143): the row is there and, for
\* events, counts at least as many; or the server has received such a row; or no
\* address has its UUID any more, because the wallet was removed.
MergedIsKept ==
  \A e \in oldRows : e.key.chain \in migrated =>
    \/ rows[e.key] # NoRow /\ Covers(rows[e.key].val, e)
    \/ \E v \in received[e.key] : Covers(v, e)
    \/ e.key.id \notin Ids(table)

\* While no database write fails, every row is filed under a UUID AddressMapTable
\* still gives to an address, so it can be uploaded and deleted: "Persist before the UID becomes visible to metrics
\* writers" (TRXAddressMapManager line 95), and a removal drops "the metrics of
\* removedIds in the same transaction" (TRXMetricsDBManager line 638).
RowsHaveOwners ==
  writeFailures = 0 => \A k \in Key : rows[k] # NoRow => k.id \in Ids(table)

\* The key's wallet and network are selected, the wallet still has the UUID of the key,
\* and reporting is on.
Reportable(k) ==
  /\ config.collect /\ config.report
  /\ config.chain = k.chain /\ mapping[config.addr] = k.id

\* A row does not stay unreported for ever, through failed requests, lost answers,
\* failed writes, merges, restarts and switches, once its wallet stays selected under
\* the row's UUID with reporting on.  The premise fails for good only if the wallet is
\* left or removed, or if the UUID's own row could not be written before a restart.
EveryEventReported ==
  \A k \in Key : <>[]Reportable(k) => []<>~Dirty(k)
=============================================================================
