------------------------------ MODULE Adapters -------------------------------
(* The store adapters: over RocksDB the storage seam and the reminder table, *)
(* each in a database of its own, and over SQLite the storage seam.          *)
EXTENDS StateStore, TLC, Integers, Sequences, FiniteSets

(* The byte-string keys of the RocksDB adapters and the order in which the  *)
(* database keeps them. A 64-bit word of eight bytes is a word of two       *)
(* digits in base 2 here: width enough for a carry, a sign bit and a        *)
(* largest value.                                                           *)

Words == 0..3

u64_be(v) == <<v \div 2, v % 2>>

get_u64_be_raw(k, at) == 2 * k[at] + k[at + 1]

\* The bytewise comparator: lexicographic, a proper prefix first.
Before(a, b) ==
    \E n \in 1..Len(b) :
        /\ \A i \in 1..(n - 1) : i <= Len(a) /\ a[i] = b[i]
        /\ n > Len(a) \/ a[n] < b[n]

\* Iterator::SeekForPrev: the last key at or before hi; {} when not Valid().
SeekForPrev(keys, hi) ==
    LET at == {k \in keys : ~Before(hi, k)}
    IN  {k \in at : \A j \in at : ~Before(k, j)}

\* The keys from lo on in the order of the iterator, as far as Goes holds.
Scan(keys, lo, Goes(_)) ==
    LET from == {k \in keys : ~Before(k, lo)}
        run == {k \in from : \A j \in from : Before(j, k) \/ j = k => Goes(j)}
        Nth(n) == CHOOSE k \in run : Cardinality({j \in run : Before(j, k)}) = n - 1
    IN  [n \in 1..Cardinality(run) |-> Nth(n)]

-----------------------------------------------------------------------------
(* The RocksDB adapter of the storage seam (adapters/rocksdb_store.hpp).    *)
(* All actors share one key space: "E" + actor + seq holds an event, "M" +  *)
(* actor the owner, "S" + actor the snapshot. The tail of a log is found by *)
(* a backward seek. A call holds mu_; its reads may fail, its one write     *)
(* batch is applied whole or not at all.                                    *)

CONSTANTS Actors,   \* actor ids, words
          MaxOwner  \* bound: fencing tokens issued

VARIABLES db    \* key -> value

E == 1    \* the tags, in the order of their bytes
M == 2
S == 3

mkey(a) == <<M>> \o u64_be(a)
skey(a) == <<S>> \o u64_be(a)
ekey(a, seq) == <<E>> \o u64_be(a) \o u64_be(seq)

RocksInit == db = [k \in {} |-> 0]

\* Get: NotFound is an owner of 0 and no snapshot.
owner_of(a) == IF mkey(a) \in DOMAIN db THEN db[mkey(a)] ELSE 0
load_snapshot(a) == IF skey(a) \in DOMAIN db THEN db[skey(a)] ELSE NoSnapshot

\* The last key at or below prefix + FF..FF, if it is an event of this actor.
max_seq(a) ==
    LET prefix == <<E>> \o u64_be(a)
        at == SeekForPrev(DOMAIN db, prefix \o <<1, 1>>)
    IN  IF \E k \in at : Len(k) = 5 /\ SubSeq(k, 1, 3) = prefix
        THEN get_u64_be_raw(CHOOSE k \in at : TRUE, 4) ELSE 0

read_events(a, from) ==
    LET prefix == <<E>> \o u64_be(a)
        ks == Scan(DOMAIN db, ekey(a, from),
                   LAMBDA k : Len(k) >= 3 /\ SubSeq(k, 1, 3) = prefix)
    IN  [i \in DOMAIN ks |-> [seq |-> get_u64_be_raw(ks[i], 4)]]

\* Put or WriteBatch; a failed write leaves the database as it was.
Write(kvs) == db' = kvs @@ db

AcquireFence(a) == /\ owner_of(a) < MaxOwner
                   /\ Write(mkey(a) :> owner_of(a) + 1)

AppendBatch(a) ==
    \E tok \in 1..MaxOwner, s \in Words \ {0}, n \in {1, 2} :
        /\ s + n - 1 \in Words
        /\ tok >= owner_of(a) /\ s > max_seq(a)
        /\ Write([k \in {ekey(a, s + i) : i \in 0..(n - 1)} |-> "event"])

SaveSnapshot(a) ==
    \E tok \in 1..MaxOwner, through \in Words :
        /\ tok >= owner_of(a) /\ through <= max_seq(a)
        /\ through >= load_snapshot(a).through
        /\ Write(skey(a) :> [fence |-> tok, through |-> through, state |-> <<>>])

RocksNext == \E a \in Actors : AcquireFence(a) \/ AppendBatch(a) \/ SaveSnapshot(a)

RocksSpec == RocksInit /\ [][RocksNext]_db

-----------------------------------------------------------------------------

\* What the database holds for an actor, read off the set of its keys.
SeqsOf(a) == {s \in Words : ekey(a, s) \in DOMAIN db}

\* Whatever other actors' keys lie around it, an actor's log reads back whole and
\* ascending, and the seek finds its tail (max_seq, read_log).
LogsAreDisjoint ==
    \A a \in Actors :
        LET log == read_events(a, 0) IN
        /\ max_seq(a) = Max({0} \cup SeqsOf(a))
        /\ {log[i].seq : i \in DOMAIN log} = SeqsOf(a)
        /\ Increasing(EmptyEntry, log)

\* A snapshot never runs ahead of the events of its own actor: a recovery that
\* starts above it would skip events not written yet (save_snapshot).
SnapshotsCovered ==
    \A a \in Actors : load_snapshot(a).through <= Max({0} \cup SeqsOf(a))

-----------------------------------------------------------------------------
(* The RocksDB reminder store (adapters/rocksdb_reminder_store.hpp). The    *)
(* due time is part of a row's key ("R" + due + reminder), so that a scan   *)
(* meets the rows in due order; "I" + reminder remembers the due time under *)
(* which the row is filed, and a re-arm deletes the old row with the batch  *)
(* that writes the new one. A lookup or a write may fail, and the store may *)
(* be closed and opened again.                                              *)

CONSTANTS RemKeys,    \* reminder keys, words
          MaxFaults   \* bound: failed lookups and reopenings

VARIABLES kv,      \* key -> value
          cp,      \* checkpoint_
          faults

rocksRemVars == <<kv, cp, faults>>

Dues == -2..1    \* the signed values of a word
Buckets == 0..1

C == 1    \* the tags, in the order of their bytes
I == 2
R == 3

\* A word with its top bit flipped, so that negative dues sort first.
due_be(due) == u64_be((due + 4 + 2) % 4)

\* Undoes the flip.
due_from_be(k, at) ==
    LET v == (get_u64_be_raw(k, at) + 2) % 4 IN IF v >= 2 THEN v - 4 ELSE v

rkey(k, due) == <<R>> \o due_be(due) \o u64_be(k)
ikey(k) == <<I>> \o u64_be(k)

RocksRemInit == kv = [k \in {} |-> 0] /\ cp = -1 /\ faults = 0

Fault == faults < MaxFaults /\ faults' = faults + 1

Without(keys) == [k \in DOMAIN kv \ keys |-> kv[k]]

\* The key under which the index says that the row is filed, if there is one.
lookup_due(k) == IF ikey(k) \in DOMAIN kv
                 THEN {rkey(k, due_from_be(kv[ikey(k)], 1))} ELSE {}

Put_LookupIgnored(k, due) ==
    /\ \/ kv' = (rkey(k, due) :> "row") @@ (ikey(k) :> due_be(due)) @@ Without(lookup_due(k))
          /\ UNCHANGED faults
       \/ /\ Fault
          /\ kv' = (rkey(k, due) :> "row") @@ (ikey(k) :> due_be(due)) @@ kv
    /\ UNCHANGED cp

Put(k, due) ==
    /\ \/ /\ kv' = (rkey(k, due) :> "row") @@ (ikey(k) :> due_be(due)) @@ Without(lookup_due(k))
          /\ UNCHANGED faults
       \/ Fault /\ UNCHANGED kv    \* the lookup or the write fails
    /\ UNCHANGED cp

Remove(k) ==
    /\ \/ /\ kv' = Without(lookup_due(k) \cup {ikey(k)})
          /\ UNCHANGED faults
       \/ Fault /\ UNCHANGED kv
    /\ UNCHANGED cp

\* The durable write first, then the value in memory.
Checkpoint(b) ==
    \/ kv' = (<<C>> :> b) @@ kv /\ cp' = b /\ UNCHANGED faults
    \/ Fault /\ UNCHANGED <<kv, cp>>

load_checkpoint == IF <<C>> \in DOMAIN kv THEN kv[<<C>>] ELSE -1

\* A Get that fails is taken for a key that is not there.
Reopen == Fault /\ cp' \in {load_checkpoint, -1} /\ UNCHANGED kv

\* The rows as the scan over "R" meets them.
load_all ==
    LET ks == Scan(DOMAIN kv, <<R>>, LAMBDA k : k[1] = R)
    IN  [i \in DOMAIN ks |-> [due |-> due_from_be(ks[i], 2), key |-> get_u64_be_raw(ks[i], 4)]]

RocksRemNext == \/ \E k \in RemKeys, due \in Dues : Put(k, due)
                \/ \E k \in RemKeys : Remove(k)
                \/ \E b \in Buckets : Checkpoint(b)
                \/ Reopen

RocksRemSpec == RocksRemInit /\ [][RocksRemNext]_rocksRemVars

-----------------------------------------------------------------------------

Filed == {[due |-> due_from_be(k, 2), key |-> get_u64_be_raw(k, 4)] :
              k \in {k \in DOMAIN kv : k[1] = R}}

Rows == INSTANCE ReminderRows WITH rows <- Filed, mark <- load_checkpoint, known <- cp

\* The key-value layout implements the table: a reload finds one row per live
\* reminder, with the due time it was last armed for, whatever was re-armed,
\* removed or failed in between. The durable checkpoint is the last one that was
\* confirmed, and the one in memory is that or, after an opening that could not
\* read it and until the next checkpoint, none (put, remove, due_from_be, checkpoint).
ImplementsRows == Rows!RowsSpec

\* A reload meets the reminders in the order in which they are due, every row
\* once and negative times first (load_all; the service rebuilds its index in that order).
LoadsInDueOrder ==
    /\ Filed = {load_all[i] : i \in DOMAIN load_all}
    /\ \A i, j \in DOMAIN load_all : i < j => load_all[i].due <= load_all[j].due

-----------------------------------------------------------------------------
(* The SQLite adapter of the storage seam (adapters/sqlite_store.hpp).      *)
(* Several processes may open one database, each through one connection     *)
(* whose calls mu_ serialises.  A call is a transaction that takes the      *)
(* write lock when it begins (BEGIN IMMEDIATE), reads the owner and the     *)
(* tail, checks, and inserts row by row; Tx rolls back whatever did not     *)
(* commit.  Any statement may fail and a process may crash between two.     *)
(* The module follows the rows of one actor.                                *)

CONSTANTS Conns,     \* the connections, one per process
          MaxSeq,    \* bound: the highest sequence number a caller uses
          MaxSqlOwner,  \* bound: fencing tokens issued
          MaxSqlFaults  \* bound: failed statements and crashes

VARIABLES sql_db,      \* the committed rows of meta, events and snapshots
          conn,    \* conn[c]: the call under way, and the token its process holds
          writer,  \* the connections inside a write transaction
          tokens,  \* history: the tokens acquire_fence returned
          sql_faults

sqlVars == <<sql_db, conn, writer, tokens, sql_faults>>

\* max_seq and snapshot_through are read from the rows, not kept.
sql_max_seq(d) == Max({0} \cup {d.events[i] : i \in DOMAIN d.events})

NoCall == [op |-> "none", tok |-> 0, arg |-> <<>>, left |-> <<>>,
           work |-> [owner |-> 0, events |-> <<>>, snap |-> NoSnapshot]]

SqlInit == /\ sql_db = NoCall.work /\ writer = {} /\ tokens = <<>> /\ sql_faults = 0
           /\ conn = [c \in Conns |-> [token |-> 0, call |-> NoCall]]

-----------------------------------------------------------------------------
(* Tx: begin takes the lock or the call fails with nothing done.            *)

Locked(c) == conn[c].call.op # "none"

begin_Deferred(c, call) ==
    /\ ~Locked(c)
    /\ conn' = [conn EXCEPT ![c].call = [call EXCEPT !.work = sql_db]]
    /\ writer' = writer \cup {c}
    /\ UNCHANGED <<sql_db, tokens, sql_faults>>

begin(c, call) ==
    /\ ~Locked(c) /\ writer = {}
    /\ conn' = [conn EXCEPT ![c].call = [call EXCEPT !.work = sql_db]]
    /\ writer' = {c}
    /\ UNCHANGED <<sql_db, tokens, sql_faults>>

\* ~Tx: the uncommitted rows are gone and the lock is free.
rolled_back(c) == /\ conn' = [conn EXCEPT ![c].call = NoCall]
                  /\ writer' = writer \ {c}

Call(op, tok, arg, left) == [NoCall EXCEPT !.op = op, !.tok = tok, !.arg = arg, !.left = left]

acquire_fence_begin(c) ==
    /\ sql_db.owner < MaxSqlOwner /\ begin(c, Call("fence", 0, <<>>, <<>>))

\* A caller may hold a token that was superseded, or none.
append_begin(c) ==
    \E batch \in {<<s>> : s \in 1..MaxSeq} \cup {<<s, s + 1>> : s \in 1..(MaxSeq - 1)} :
        begin(c, Call("append", conn[c].token, batch, batch))

save_begin(c) ==
    \E through \in 0..MaxSeq : begin(c, Call("save", conn[c].token, <<through>>, <<through>>))

-----------------------------------------------------------------------------
(* The checks and the writes of a call, on the rows the transaction sees.   *)

is_fenced(call) == call.tok = 0 \/ call.tok < call.work.owner

accepted(call) ==
    CASE call.op = "append" ->
             /\ ~is_fenced(call)
             /\ \A i \in DOMAIN call.arg :
                    call.arg[i] > (IF i = 1 THEN sql_max_seq(call.work) ELSE call.arg[i - 1])
      [] call.op = "save" ->
             /\ ~is_fenced(call)
             /\ call.arg[1] \in call.work.snap.through..sql_max_seq(call.work)
      [] OTHER -> TRUE

\* The checks come before the first row is written.
Reject(c) ==
    /\ Locked(c) /\ conn[c].call.left = conn[c].call.arg
    /\ ~accepted(conn[c].call)
    /\ rolled_back(c) /\ UNCHANGED <<sql_db, tokens, sql_faults>>

\* One INSERT of the batch, or the upsert of the snapshot or the owner row.
InsertRow(c) ==
    LET call == conn[c].call IN
    /\ Locked(c) /\ (call.left = call.arg => accepted(call))
    /\ \/ /\ call.op = "append" /\ call.left # <<>>
          /\ conn' = [conn EXCEPT ![c].call.left = Tail(@),
                                  ![c].call.work.events = Append(@, Head(call.left))]
       \/ /\ call.op = "save" /\ call.left # <<>>
          /\ conn' = [conn EXCEPT ![c].call.left = <<>>,
                         ![c].call.work.snap = [fence |-> call.tok, through |-> call.arg[1], state |-> <<>>]]
       \/ /\ call.op = "fence" /\ call.work.owner = sql_db.owner
          /\ conn' = [conn EXCEPT ![c].call.work.owner = @ + 1]
    /\ UNCHANGED <<sql_db, writer, tokens, sql_faults>>

Written(call) == call.left = <<>> /\ (call.op = "fence" => call.work.owner > sql_db.owner)

COMMIT(c) ==
    LET call == conn[c].call IN
    /\ Locked(c) /\ Written(call)
    /\ sql_db' = call.work
    /\ writer' = writer \ {c}
    /\ IF call.op = "fence"
       THEN /\ tokens' = Append(tokens, sql_db'.owner)
            /\ conn' = [conn EXCEPT ![c] = [token |-> sql_db'.owner, call |-> NoCall]]
       ELSE /\ conn' = [conn EXCEPT ![c].call = NoCall]
            /\ UNCHANGED tokens
    /\ UNCHANGED sql_faults

\* A statement, or COMMIT itself, fails: the call returns an error, ~Tx rolls back.
StatementFails(c) ==
    /\ Locked(c) /\ sql_faults < MaxSqlFaults /\ sql_faults' = sql_faults + 1
    /\ rolled_back(c) /\ UNCHANGED <<sql_db, tokens>>

\* The process dies; SQLite rolls its journal back before the next writer.
Crash(c) ==
    /\ conn[c].token # 0 \/ Locked(c)
    /\ sql_faults < MaxSqlFaults /\ sql_faults' = sql_faults + 1
    /\ conn' = [conn EXCEPT ![c] = [token |-> 0, call |-> NoCall]]
    /\ writer' = writer \ {c}
    /\ UNCHANGED <<sql_db, tokens>>

SqlNext == \E c \in Conns :
    \/ acquire_fence_begin(c) \/ append_begin(c) \/ save_begin(c)
    \/ Reject(c) \/ InsertRow(c) \/ COMMIT(c) \/ StatementFails(c) \/ Crash(c)

SqlSpec == SqlInit /\ [][SqlNext]_sqlVars

-----------------------------------------------------------------------------

\* The committed rows as an Entry of the storage seam.
entry == [owner |-> sql_db.owner, last_seq |-> sql_max_seq(sql_db), snapshot |-> sql_db.snap,
          log |-> [i \in DOMAIN sql_db.events |-> [seq |-> sql_db.events[i]]]]

Records(s) == [i \in DOMAIN s |-> [seq |-> s[i]]]

WholeCall == entry' # entry => \E c \in Conns :
    LET call == conn[c].call IN
    \/ call.op = "fence" /\ entry' = acquire_fence(entry)
    \/ /\ call.op = "append" /\ append_ok(entry, call.tok, Records(call.arg))
       /\ entry' = append_batch(entry, call.tok, Records(call.arg))
    \/ /\ call.op = "save" /\ save_ok(entry, call.tok, call.arg[1])
       /\ entry' = save_snapshot(entry, call.tok, call.arg[1], <<>>)

\* Every change of the database is one whole operation of the seam, allowed by
\* the owner and the tail at that moment: no half batch, no write of a superseded
\* owner, whatever fails and however the processes interleave (Tx, append_batch).
CallsAreAtomic == [][WholeCall]_entry

\* No token is given to two activations: a failed or crashed acquire_fence that
\* is retried, and another process that acquires at the same time, get new ones.
TokensUnique == \A i, j \in DOMAIN tokens : i < j => tokens[i] < tokens[j]
=============================================================================
