------------------------------ MODULE Reminders ------------------------------
(* The reminder service (ReminderService, core/reminder_service.hpp) over a *)
(* durable table of rows: registration, cancellation, the index by bucket,  *)
(* the ready segment that tick() drains under a budget, and what the fire   *)
(* callback may call while tick() is in the middle of an item. A store call *)
(* may fail, and the process may crash between any two of them. Wall time   *)
(* is counted in buckets.                                                   *)
EXTENDS Naturals, Sequences, FiniteSets

CONSTANTS
    Keys,       \* reminder keys (actor and name)
    Period,     \* period in buckets of a periodic reminder
    MaxTime,    \* bound: buckets of wall time
    MaxEpoch,   \* bound: index entries made
    MaxFaults   \* bound: crashes and failed store calls

VARIABLES
    rows,    \* the durable rows: [key, due, period]
    by_key,  \* by_key_: the live rows with the epoch of their last index entry
    index,   \* index_: entries [key, epoch, bucket]
    ready,   \* ready_: entries [key, epoch] pulled and not drained yet
    firing,  \* the item tick() is firing: {} or {[key, epoch, due, period]}
    up, now, epochs, faults,
    owed,    \* occurrences <<key, due>> the caller was promised and not given
    silenced, \* keys whose cancellation succeeded
    missed   \* keys owed when open() could not load the rows, not registered since

remVars == <<rows, by_key, index, ready, firing, up, now, epochs, faults, owed, silenced, missed>>
service == <<by_key, index, ready, epochs>>

RemInit == /\ rows = {} /\ by_key = {} /\ index = {} /\ ready = {} /\ firing = {}
           /\ up = FALSE /\ now = 0 /\ epochs = 0 /\ faults = 0
           /\ owed = {} /\ silenced = {} /\ missed = {}

OfKey(S, k) == {x \in S : x.key = k}
put(row) == rows' = (rows \ OfKey(rows, row.key)) \cup {row}

\* A fresh epoch takes every older index or ready entry of the key out of force.
insert_index(row) ==
    /\ epochs < MaxEpoch /\ epochs' = epochs + 1
    /\ by_key' = (by_key \ OfKey(by_key, row.key))
                 \cup {[key |-> row.key, due |-> row.due, period |-> row.period, epoch |-> epochs + 1]}
    /\ index' = index \cup {[key |-> row.key, epoch |-> epochs + 1, bucket |-> row.due]}

StoreFails == faults < MaxFaults /\ faults' = faults + 1

\* open(): every durable row is indexed anew; or load_all() fails, open() returns
\* without a word and the service runs on an empty index.
LoadFails ==
    /\ StoreFails
    /\ by_key' = {} /\ index' = {} /\ missed' = {o[1] : o \in owed}
    /\ UNCHANGED epochs

open ==
    /\ ~up /\ up' = TRUE
    /\ \/ LoadFails
       \/ \E order \in [1..Cardinality(rows) -> rows] :
          /\ \A i, j \in DOMAIN order : i # j => order[i] # order[j]
          /\ epochs + Cardinality(rows) <= MaxEpoch
          /\ epochs' = epochs + Cardinality(rows)
          /\ by_key' = {[key |-> order[i].key, due |-> order[i].due,
                         period |-> order[i].period, epoch |-> epochs + i] : i \in DOMAIN order}
          /\ index' = {[key |-> order[i].key, epoch |-> epochs + i,
                        bucket |-> order[i].due] : i \in DOMAIN order}
          /\ missed' = {} /\ UNCHANGED faults
    /\ ready' = {}
    /\ UNCHANGED <<rows, firing, now, owed, silenced>>

Crash == /\ up /\ StoreFails
         /\ up' = FALSE /\ firing' = {}
         /\ by_key' = {} /\ index' = {} /\ ready' = {} /\ missed' = {}
         /\ UNCHANGED <<rows, now, epochs, owed, silenced>>

-----------------------------------------------------------------------------
(* Calls of the application, also from inside the fire callback.            *)

RemindAt(k) ==
    /\ up
    /\ \E due \in now..(now + 1), period \in {0, Period} :
          LET row == [key |-> k, due |-> due, period |-> period] IN
          \/ /\ put(row) /\ insert_index(row)
             /\ owed' = {o \in owed : o[1] # k} \cup {<<k, due>>}
             /\ silenced' = silenced \ {k} /\ missed' = missed \ {k}
             /\ UNCHANGED <<ready, firing, up, now, faults>>
          \/ /\ StoreFails
             /\ UNCHANGED <<rows, service, firing, up, now, owed, silenced, missed>>

\* The in-memory entry goes first, so a failed store call leaves the reminder
\* silent in this process and durable for the next.
Cancel(k) ==
    /\ up /\ k \notin silenced /\ OfKey(rows, k) # {}
    /\ by_key' = by_key \ OfKey(by_key, k)
    /\ \/ /\ rows' = rows \ OfKey(rows, k)
          /\ silenced' = silenced \cup {k}
          /\ UNCHANGED faults
       \/ StoreFails /\ UNCHANGED <<rows, silenced>>
    /\ owed' = {o \in owed : o[1] # k}
    /\ UNCHANGED <<index, ready, firing, up, now, epochs, missed>>

-----------------------------------------------------------------------------
(* tick() *)

PullDue ==
    /\ up /\ firing = {}
    /\ \E t \in now..MaxTime :
          LET due == {e \in index : e.bucket <= t} IN
          /\ now' = t /\ (t > now \/ due # {})
          /\ index' = index \ due
          /\ ready' = ready \cup {[key |-> e.key, epoch |-> e.epoch] : e \in due}
    /\ UNCHANGED <<rows, by_key, firing, up, epochs, faults, owed, silenced, missed>>

\* One item of the ready segment: superseded entries are skipped, others fire.
Current(i) == {l \in by_key : l.key = i.key /\ l.epoch = i.epoch}

SameRow(l) == [key |-> l.key, due |-> l.due, period |-> l.period]

Drain_Eager ==
    /\ up /\ firing = {}
    /\ \E i \in ready :
          /\ ready' = ready \ {i}
          /\ firing' = Current(i)
          /\ rows' = rows \ {SameRow(l) : l \in Current(i)}
    /\ UNCHANGED <<by_key, index, up, now, epochs, faults, owed, silenced, missed>>

Drain ==
    /\ up /\ firing = {}
    /\ \E i \in ready :
          /\ ready' = ready \ {i}
          /\ firing' = Current(i)
    /\ UNCHANGED <<rows, by_key, index, up, now, epochs, faults, owed, silenced, missed>>

\* After the callback: a row that was cancelled or registered again meanwhile is
\* left alone; a periodic one is advanced, a one-shot one removed, and either is
\* tried again when the store refuses.
Superseded(l) == l \notin by_key
Advanced(l) == [key |-> l.key, due |-> l.due + Period, period |-> l.period]

Settle ==
    /\ up /\ firing # {} /\ firing' = {}
    /\ \E l \in firing :
          \/ /\ Superseded(l)
             /\ UNCHANGED <<rows, service, faults, owed>>
          \/ /\ ~Superseded(l) /\ l.period > 0
             /\ put(Advanced(l)) /\ insert_index(Advanced(l))
             /\ owed' = (owed \ {<<l.key, l.due>>}) \cup {<<l.key, l.due + Period>>}
             /\ UNCHANGED <<ready, faults>>
          \/ /\ ~Superseded(l) /\ l.period = 0
             /\ rows' = rows \ OfKey(rows, l.key)
             /\ by_key' = by_key \ {l}
             /\ owed' = owed \ {<<l.key, l.due>>}
             /\ UNCHANGED <<index, ready, epochs, faults>>
          \/ /\ ~Superseded(l) /\ StoreFails
             /\ insert_index(SameRow(l))
             /\ UNCHANGED <<rows, ready, owed>>
    /\ UNCHANGED <<up, now, silenced, missed>>

RemNext == \/ open \/ Crash \/ PullDue \/ Drain \/ Settle
           \/ \E k \in Keys : RemindAt(k) \/ Cancel(k)

RemSpec == RemInit /\ [][RemNext]_remVars

-----------------------------------------------------------------------------
(* No reminder that was promised and whose handler has not returned can be *)
(* lost by a crash: its occurrence is the one in the durable row (the row   *)
(* is advanced only after the fire).                                        *)
OwedIsDurable ==
    \A o \in owed : \E r \in rows : r.key = o[1] /\ r.due = o[2]

(* While the service runs, every promised occurrence is still scheduled:    *)
(* an entry of its current epoch waits in the index or in the ready         *)
(* segment, whatever the callback registered or cancelled and whichever     *)
(* store calls failed. What an open() that could not load the rows left out *)
(* is missed until it is registered again or the service opens again, and   *)
(* nothing else is.                                                         *)
OwedIsScheduled ==
    up => \A o \in owed : o[1] \in missed \/ \E l \in by_key :
             /\ l.key = o[1] /\ l.due = o[2]
             /\ \/ \E e \in index : e.key = l.key /\ e.epoch = l.epoch
                \/ \E i \in ready : i.key = l.key /\ i.epoch = l.epoch
                \/ l \in firing

(* No reminder fires before the bucket it was last registered for: an entry *)
(* that a later registration superseded is skipped.                         *)
NeverEarly == \A l \in firing : l.due <= now

(* A reminder whose cancellation succeeded is not brought back, not even by *)
(* an item that was being fired when it was cancelled.                      *)
CancelledStaysOut == \A k \in silenced : OfKey(rows, k) = {} /\ OfKey(by_key, k) = {}

-----------------------------------------------------------------------------
(* The durable reminder table (FileReminderStore): an append-only file of   *)
(* checksummed put, remove and checkpoint records, replayed at start,       *)
(* truncated back when an append fails and rewritten by compact().  A call  *)
(* on the file may fail, also after it had its effect.                      *)

CONSTANTS
    RKeys,       \* reminder keys
    MaxRecords,  \* bound: records appended
    MaxFailures  \* bound: failed system calls and crashes

VARIABLES
    file,   \* the intact records of the file fd_ is on
    path,   \* those of the file path_ names, when that is another
    tail,   \* what follows them: "none", "torn", or an intact record nobody confirmed
    table,  \* rows_: table[k] is the due time of k, 0 without a row
    mark,   \* checkpoint_
    off,    \* write_off_, in records: where a failed append is cut back to
    fd,     \* "open", "astray" (on a file that was replaced), "refused" (fd_
            \* invalid) or "down" (no process)
    told,   \* the table as the callers know it
    loose,  \* the record of the last call that failed, if it may still be in the file
    count, failures,
    mishaps \* history: "unlinked", the process ended or gave up astray; "overcut", a
            \* cut at a write_off_ that was not brought up to date; "misread", read in
            \* part at the start; "uncut", a torn tail stayed

rfVars == <<file, path, tail, table, mark, off, fd, told, loose, count, failures, mishaps>>

NoRecord == [kind |-> "none", key |-> 0, due |-> 0]
Record(kind, k, due) == [kind |-> kind, key |-> k, due |-> due]

apply(t, r) == CASE r.kind = "put" -> [t EXCEPT ![r.key] = r.due]
                 [] r.kind = "remove" -> [t EXCEPT ![r.key] = 0]
                 [] OTHER -> t

NoRows == [k \in RKeys |-> 0]
replay(f) == LET at[i \in 0..Len(f)] == IF i = 0 THEN NoRows ELSE apply(at[i - 1], f[i])
             IN at[Len(f)]

RfInit == /\ file = <<>> /\ tail = NoRecord /\ table = NoRows /\ mark = 0 /\ fd = "down"
          /\ told = NoRows /\ loose = NoRecord /\ count = 0 /\ failures = 0
        /\ path = <<>> /\ off = 0 /\ mishaps = {}

Torn == Record("torn", 0, 0)
Whole(r) == r \notin {NoRecord, Torn}
FileWithTail == IF Whole(tail) THEN Append(file, tail) ELSE file

Failing == failures < MaxFailures /\ failures' = failures + 1
Mishap(m) == mishaps' = mishaps \cup {m}

\* file_size(): when it fails write_off_ stays what it was, 0 after an opening.
Measured(f, before) == \/ off' = Len(f) /\ UNCHANGED failures
                       \/ off' = before /\ Failing

\* The constructor: replay keeps an intact tail and cuts a torn one off. The cut
\* may fail; or the file is read in part, and what is read may be cut as well.
ReadWhole == /\ file' = FileWithTail /\ tail' = NoRecord /\ table' = replay(FileWithTail)
             /\ Measured(FileWithTail, 0) /\ UNCHANGED mishaps
CutFails == /\ tail = Torn /\ Failing /\ Mishap("uncut")
            /\ table' = replay(file) /\ off' = Len(file) /\ UNCHANGED <<file, tail>>
ReadInPart == /\ Failing /\ Mishap("misread")
              /\ \E n \in 0..(Len(FileWithTail) - 1) :
                    LET part == SubSeq(FileWithTail, 1, n)
                    IN table' = replay(part) /\ file' \in {part, FileWithTail}
              /\ tail' = NoRecord /\ off' = Len(file')

Start ==
    /\ fd = "down" /\ fd' = "open"
    /\ ReadWhole \/ CutFails \/ ReadInPart
    /\ told' = IF Whole(tail) THEN apply(told, tail) ELSE told
    /\ loose' = NoRecord
    /\ UNCHANGED <<path, mark, count>>

\* A record behind a torn one is not read again.
Appended(r) ==
    /\ fd \in {"open", "astray"} /\ count < MaxRecords /\ count' = count + 1
    /\ file' = IF tail = Torn THEN file ELSE Append(file, r)
    /\ Measured(file', off)
    /\ table' = apply(table, r) /\ told' = apply(told, r)
    /\ mark' = IF r.kind = "checkpoint" THEN r.due ELSE mark
    /\ UNCHANGED <<path, tail, fd, loose, mishaps>>

\* The write or the flush fails: the file path_ names is cut to write_off_, or the
\* store stops taking records with the rest of this one in place.
CutBack == /\ file' = SubSeq(file, 1, off) /\ UNCHANGED <<path, tail, fd, loose>>
           /\ IF off < Len(file) THEN Mishap("overcut") ELSE UNCHANGED mishaps
GiveUp(r) == /\ fd' = "refused" /\ loose' = r
             /\ tail' \in IF tail = Torn THEN {Torn} ELSE {NoRecord, Torn, r}
             /\ UNCHANGED <<file, path, mishaps>>
AppendFails(r) ==
    /\ count < MaxRecords /\ count' = count + 1 /\ Failing
    /\ \/ fd = "open" /\ (CutBack \/ GiveUp(r))
       \/ /\ fd = "astray"   \* the cut is at an offset of the other file
          /\ \E n \in 0..Len(path) : path' = SubSeq(path, 1, n)
          /\ UNCHANGED <<file, tail, fd, loose, mishaps>>
       \/ /\ fd = "astray" /\ fd' = "refused" /\ Mishap("unlinked")
          /\ file' = path /\ path' = <<>> /\ tail' = NoRecord /\ UNCHANGED loose
    /\ UNCHANGED <<table, mark, off, told>>

Put(k) == \E due \in 1..2 : \/ Appended(Record("put", k, due)) \/ AppendFails(Record("put", k, due))
Remove(k) == /\ table[k] # 0
             /\ \/ Appended(Record("remove", k, 0)) \/ AppendFails(Record("remove", k, 0))
Checkpoint == Appended(Record("checkpoint", 0, mark + 1))

\* The process dies in the middle of an append, or astray: the next one finds the
\* file path_ names, or the old one when the machine died before the directory
\* was flushed.
Die(k) ==
    /\ fd # "down" /\ fd' = "down" /\ Failing
    /\ LET r == Record("put", k, 1) IN
       \/ /\ fd = "open" /\ tail = NoRecord
          /\ loose' = r /\ tail' \in {NoRecord, Torn, r} /\ UNCHANGED <<file, mishaps>>
       \/ /\ fd = "astray" /\ Mishap("unlinked")
          /\ file' \in {path, file} /\ UNCHANGED <<loose, tail>>
       \/ /\ fd = "refused" \/ (fd = "open" /\ tail # NoRecord)
          /\ UNCHANGED <<file, loose, tail, mishaps>>
    /\ path' = <<>>
    /\ UNCHANGED <<table, mark, off, told, count>>

\* compact(): the live rows and the checkpoint, renamed over the old file.
live_rows == {k \in RKeys : table[k] # 0}

Rewritten ==
    LET place[S \in SUBSET live_rows] ==
            IF S = {} THEN <<>>
            ELSE LET k == CHOOSE k \in S : TRUE
                 IN Append(place[S \ {k}], Record("put", k, table[k]))
    IN Append(place[live_rows], Record("checkpoint", 0, mark))

\* Before the rename a failure changes nothing. The rename may do its work and
\* the flush of the directory fail: fd_ stays on the old file. Or the reopen fails.
Compact ==
    /\ fd \in {"open", "astray"} /\ count < MaxRecords /\ count' = count + 1
    /\ \/ /\ file' = Rewritten /\ tail' = NoRecord /\ path' = <<>> /\ fd' = "open"
          /\ Measured(Rewritten, 0)
       \/ /\ Failing /\ path' = Rewritten /\ fd' = "astray" /\ UNCHANGED <<file, tail, off>>
       \/ /\ Failing /\ file' = Rewritten /\ tail' = NoRecord /\ path' = <<>> /\ fd' = "refused"
          /\ UNCHANGED off
    /\ UNCHANGED <<table, mark, told, loose, mishaps>>

RfNext == \/ Start \/ Checkpoint \/ Compact
          \/ \E k \in RKeys : Put(k) \/ Remove(k) \/ Die(k)

RfSpec == RfInit /\ [][RfNext]_rfVars

-----------------------------------------------------------------------------
(* Whatever append failed and whenever the process died, the rows of the    *)
(* next start are those the callers were told, or those with the one call   *)
(* that was never answered: here, the replay of the file the store is on.   *)
(* Four mishaps end that, and nothing short of them does: a process that    *)
(* ends or gives up after a rename that failed late, a failed append after  *)
(* a failed file_size(), and at the start a read error or a failed cut.     *)
RowsSurvive ==
    mishaps = {} => replay(FileWithTail) \in {told, apply(told, loose)}
=============================================================================
