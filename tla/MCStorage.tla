------------------------------ MODULE MCStorage ------------------------------
(* What the program keeps across a crash, and the delivery built on it, in  *)
(* one instance: exactly-once effects over the fenced log, go-back-N retry, *)
(* the file-backed store, event-sourced actors with snapshots and backups,  *)
(* leader leases, and reminders with their log file. SQL and RocksDB        *)
(* adapters included. The components share no state: an initial state       *)
(* chooses the one that runs, and the variables v1, v2, ... are that        *)
(* component's; the leases have their own.                                  *)
EXTENDS Lease, Sequences

VARIABLE exercised  \* the component this behaviour runs
VARIABLES v1, v2, v3, v4, v5, v6, v7, v8, v9, v10, v11, v12  \* the variables of that component
VARIABLES rocksrem_kv, rocksrem_cp, rocksrem_faults

Idle == 0  \* a variable the component has no use for

Delivery == INSTANCE Delivery WITH
    Acts <- {"a1", "a2"}, Msgs <- 2, Fanout <- 1, LostFrames <- FALSE,
    MaxStarts <- 3, MaxSeq <- 3, MaxChan <- 2, MaxEvictions <- 1, store <- v1,
    stock <- v2, lane <- v3, todo <- v4, acked <- v5, starts <- v6, pending <- v1,
    next_seq <- v2, cursor <- v3, deferred <- v4, wire <- v5, acks <- v6,
    known <- v7, wm <- v8, got <- v9, evictions <- v10

Persistence == INSTANCE Persistence WITH
    BatchCells <- 3, MaxWrites <- 5, MaxFaults <- 2, disk <- v1, ram <- v2,
    state <- v3, woff <- v4, tokens <- v5, acked <- v6, img <- v7, writes <- v8,
    faultCount <- v9, path <- v10, mishaps <- v11, Owners <- {"o1", "o2"}, Every <- 2,
    MaxEvents <- 3, MaxTerms <- 3, table <- v1, act <- v2, history <- v3, backup <- v4, terms <- v5

Reminders == INSTANCE Reminders WITH
    Keys <- {"k1", "k2"}, Period <- 1, MaxTime <- 2, MaxEpoch <- 3, MaxFaults <- 2,
    RKeys <- {1, 2}, MaxRecords <- 4, MaxFailures <- 2, rows <- v1, by_key <- v2,
    index <- v3, ready <- v4, firing <- v5, up <- v6, now <- v7, epochs <- v8,
    faults <- v9, owed <- v10, silenced <- v11, missed <- v12, file <- v1, tail <- v2,
    table <- v3, mark <- v4, fd <- v5, told <- v6, loose <- v7, count <- v8,
    failures <- v9, path <- v10, off <- v11, mishaps <- v12

Adapters == INSTANCE Adapters WITH
    Actors <- {1, 2}, MaxOwner <- 2, RemKeys <- {1, 2}, MaxFaults <- 2, Conns <- {1, 2},
    MaxSeq <- 3, MaxSqlOwner <- 3, MaxSqlFaults <- 2, db <- v1, sql_db <- v1,
    conn <- v2, writer <- v3, tokens <- v4, sql_faults <- v5,
    kv <- rocksrem_kv, cp <- rocksrem_cp, faults <- rocksrem_faults

\* One component starts as it is constructed.
InitSum ==
    /\ Adapters!RocksRemInit
    /\ \/ /\ exercised = "lane" /\ Delivery!Init /\ v7 = Idle /\ v8 = Idle /\
             v9 = Idle /\ v10 = Idle /\ v11 = Idle /\ v12 = Idle
       \/ /\ exercised = "gbn" /\ Delivery!GbnInit /\ v11 = Idle /\ v12 = Idle
       \/ /\ exercised = "file" /\ Persistence!FileInit /\ v12 = Idle
       \/ /\ exercised = "es" /\ Persistence!EsInit /\ v6 = Idle /\ v7 = Idle /\
             v8 = Idle /\ v9 = Idle /\ v10 = Idle /\ v11 = Idle /\ v12 = Idle
       \/ /\ exercised = "rem" /\ Reminders!RemInit
       \/ /\ exercised = "remfile" /\ Reminders!RfInit
       \/ /\ exercised = "sql" /\ Adapters!SqlInit /\ v6 = Idle /\ v7 = Idle /\
             v8 = Idle /\ v9 = Idle /\ v10 = Idle /\ v11 = Idle /\ v12 = Idle
       \/ /\ exercised = "rocks" /\ Adapters!RocksInit /\ v2 = Idle /\
             v3 = Idle /\ v4 = Idle /\ v5 = Idle /\ v6 = Idle /\ v7 = Idle /\
             v8 = Idle /\ v9 = Idle /\ v10 = Idle /\ v11 = Idle /\ v12 = Idle
       \/ /\ exercised \in {"rocksrem", "lease"} /\ v1 = Idle /\ v2 = Idle /\ v3 = Idle /\
             v4 = Idle /\ v5 = Idle /\ v6 = Idle /\ v7 = Idle /\ v8 = Idle /\
             v9 = Idle /\ v10 = Idle /\ v11 = Idle /\ v12 = Idle
    /\ LeaseInit /\ (exercised # "lease" => rate = [n \in Clocks |-> 0])

LaneStep == /\ exercised = "lane" /\ Delivery!Next
            /\ UNCHANGED <<exercised, v7, v8, v9, v10, v11, v12, rocksrem_kv,
                            rocksrem_cp, rocksrem_faults>>
GbnStep == /\ exercised = "gbn" /\ Delivery!GbnNext
           /\ UNCHANGED <<exercised, v11, v12, rocksrem_kv, rocksrem_cp, rocksrem_faults>>
FileStep == /\ exercised = "file" /\ Persistence!FileNext
            /\ UNCHANGED <<exercised, v12, rocksrem_kv, rocksrem_cp, rocksrem_faults>>
EsStep == /\ exercised = "es" /\ Persistence!EsNext
          /\ UNCHANGED <<exercised, v6, v7, v8, v9, v10, v11, v12, rocksrem_kv,
                          rocksrem_cp, rocksrem_faults>>
RemStep == /\ exercised = "rem" /\ Reminders!RemNext
           /\ UNCHANGED <<exercised, rocksrem_kv, rocksrem_cp, rocksrem_faults>>
RemfileStep == /\ exercised = "remfile" /\ Reminders!RfNext
               /\ UNCHANGED <<exercised, rocksrem_kv, rocksrem_cp, rocksrem_faults>>
SqlStep == /\ exercised = "sql" /\ Adapters!SqlNext
           /\ UNCHANGED <<exercised, v6, v7, v8, v9, v10, v11, v12, rocksrem_kv,
                           rocksrem_cp, rocksrem_faults>>
RocksStep == /\ exercised = "rocks" /\ Adapters!RocksNext
             /\ UNCHANGED <<exercised, v2, v3, v4, v5, v6, v7, v8, v9, v10, v11, v12,
                             rocksrem_kv, rocksrem_cp, rocksrem_faults>>
RocksremStep == /\ exercised = "rocksrem" /\ Adapters!RocksRemNext
                /\ UNCHANGED <<exercised, v1, v2, v3, v4, v5, v6, v7, v8, v9, v10,
                                v11, v12>>

NextParts == LaneStep \/ GbnStep \/ FileStep \/ EsStep \/ RemStep \/
             RemfileStep \/ SqlStep \/ RocksStep \/ RocksremStep

partVars == <<exercised, v1, v2, v3, v4, v5, v6, v7, v8, v9, v10, v11, v12, rocksrem_kv,
              rocksrem_cp, rocksrem_faults>>

NextSum == \/ NextParts /\ UNCHANGED leaseVars
           \/ exercised = "lease" /\ LeaseNext /\ UNCHANGED partVars

allVars == <<partVars, leaseVars>>

SpecSum == InitSum /\ [][NextSum]_allVars

\* Every message has its effect once however often it is sent again, nothing is
\* said that is not durable, what is marked delivered had its effect, and the
\* mirror in memory is the log (Commit, is_duplicate, recover, pump). A resent
\* window is accepted in order and once, and what is acknowledged was delivered
\* (ReliableSender, ReliableReceiver).
DeliveredOnce ==
    /\ exercised = "lane" =>
           /\ Delivery!EffectOnce
           /\ Delivery!OutputDurable
           /\ Delivery!DeliveredHasEffect
           /\ Delivery!PendingMirrorsLog
    /\ exercised = "gbn" =>
           /\ Delivery!InOrderOnce
           /\ Delivery!AckedWasDelivered
           /\ Delivery!NeverStuckWhileKnown

\* What a file store acknowledged is there after every crash, torn write and
\* failed compaction, fencing tokens only grow, and the index in memory is what
\* a replay would give, but for the mishaps that AckedSurvives names. Recovery from snapshot and tail gives the history of
\* the one owner the store knows, and sealed records open again.
LogsRecover ==
    /\ exercised = "file" =>
           /\ Persistence!AckedSurvives
           /\ Persistence!TokensGrow
           /\ Persistence!IndexIsReplay
    /\ exercised = "es" =>
           /\ Persistence!RecoversHistory
           /\ Persistence!OwnerIsCurrent
           /\ Persistence!SealedRecordsOpen

\* No two owners hold one token although several processes share the SQLite
\* database; on RocksDB an actor's log holds its own events only and its
\* snapshot covers no event it does not have; and the reminder scan meets the
\* rows in due order (begin, max_seq, due_from_be).
AdaptersKeepLogs ==
    /\ exercised = "sql" => Adapters!TokensUnique
    /\ exercised = "rocks" =>
           /\ Adapters!LogsAreDisjoint
           /\ Adapters!SnapshotsCovered
    /\ exercised = "rocksrem" => Adapters!LoadsInDueOrder

\* A reminder that is owed is in the durable table and, while the process is
\* up, in the schedule, through faults of the store, crashes and calls from its
\* own callback; one whose cancellation succeeded stays out, and none fires
\* early (tick, Drain, cancel). What an open() that failed to load left out is
\* excepted. The log file replays to the rows that were confirmed, but for the
\* mishaps that RowsSurvive names.
RemindersOwed ==
    /\ exercised = "rem" =>
           /\ Reminders!OwedIsDurable
           /\ Reminders!OwedIsScheduled
           /\ Reminders!CancelledStaysOut
           /\ Reminders!NeverEarly
    /\ exercised = "remfile" => Reminders!RowsSurvive

\* The RocksDB reminder store does what the table of rows does, also when the
\* lookup of the old due time fails; and a call on the SQLite store changes its
\* rows as a whole or not at all (put, Tx).
CallsAreWhole ==
    /\ Adapters!ImplementsRows
    /\ [][/\ exercised = "sql" => Adapters!WholeCall]_allVars

=============================================================================
