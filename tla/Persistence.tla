----------------------------- MODULE Persistence ------------------------------
(***************************************************************************)
(* What an actor keeps across a crash: the append-only file under the       *)
(* storage seam, and the event-sourced actor above it.  The two share no    *)
(* state; each has its own variables and next-state relation.               *)
(***************************************************************************)
EXTENDS StateStore, FiniteSets

(***************************************************************************)
(* The crash-durable store of one actor (core/file_store.hpp): an           *)
(* append-only file of checksummed records, replayed into RAM when it is    *)
(* opened.  A record occupies a few cells; a write that fails or a crash    *)
(* may leave any prefix of them beyond write_off, and the next write there  *)
(* may be a shorter record.  A record's checksum holds exactly when all its *)
(* cells are those of one write.  Compaction replaces the file by a rename, *)
(* which may take effect and report a failure; a backup image can be        *)
(* restored into an empty directory.                                        *)
(***************************************************************************)

CONSTANTS
    BatchCells,  \* cells of a batch record; the others have two
    MaxWrites,   \* bound: records written
    MaxFaults    \* bound: failed system calls and crashes

VARIABLES
    disk,    \* the file e.fd is on: cells [w |-> write, part |-> i, rec |-> record]
    path,    \* the file the name leads to: another one after a rename that failed late
    ram,     \* the actor's Entry while the store is open
    state,   \* "closed", "open", "corrupt" (damage found), "refused" (no descriptor
             \* after a compaction) or "blank" (opened without a descriptor)
    woff,    \* write_off, in cells
    tokens,  \* every fence token handed out, in order
    acked,   \* what the callers were told is durable, as an Entry
    img,     \* the last backup image, a set with at most one Entry
    writes, faultCount,
    mishaps  \* history: "covered", a write over the front of a longer failed one;
             \* "unlinked", the process ended with e.fd on a file no name leads to;
             \* "misread", the file was read in part when it was opened

fileVars == <<disk, path, ram, state, woff, tokens, acked, img, writes, faultCount, mishaps>>

FenceRec(tok) == [kind |-> "fence", tok |-> tok, seqs |-> <<>>]
SnapRec(tok, through) == [kind |-> "snapshot", tok |-> tok, seqs |-> <<through>>]
BatchRec(seqs) == [kind |-> "batch", tok |-> 0, seqs |-> seqs]

Size(rec) == IF rec.kind = "batch" THEN BatchCells ELSE 2
Cells(w, rec) == [i \in 1..Size(rec) |-> [w |-> w, part |-> i, rec |-> rec]]

\* pwrite of the cells at an offset: what follows them in the file stays.
overlay(off, cells) ==
    SubSeq(disk, 1, off) \o cells \o SubSeq(disk, off + Len(cells) + 1, Len(disk))

FileInit ==
    /\ disk = <<>> /\ path = <<>> /\ ram = EmptyEntry /\ state = "closed" /\ woff = 0
    /\ tokens = <<>> /\ acked = EmptyEntry /\ img = {} /\ writes = 0 /\ faultCount = 0
    /\ mishaps = {}

-----------------------------------------------------------------------------
(* replay *)

Events(seqs) == [i \in 1..Len(seqs) |-> [seq |-> seqs[i]]]

apply_ok(e, rec) == rec.kind = "batch" => Increasing(e, Events(rec.seqs))
apply_record(e, rec) ==
    CASE rec.kind = "fence" -> [e EXCEPT !.owner = rec.tok]
      [] rec.kind = "snapshot" ->
            [e EXCEPT !.snapshot = [fence |-> rec.tok, through |-> rec.seqs[1], state |-> <<>>],
                      !.last_seq = Max({@, rec.seqs[1]})]
      [] OTHER -> [e EXCEPT !.log = @ \o Events(rec.seqs),
                            !.last_seq = rec.seqs[Len(rec.seqs)]]

Intact(d, i) == /\ d[i].part = 1 /\ i + Size(d[i].rec) - 1 <= Len(d)
                /\ \A k \in 1..Size(d[i].rec) : d[i + k - 1].w = d[i].w /\ d[i + k - 1].part = k
\* Does the length in the header at cell i reach the end of the file?
PastEnd(d, i) == i + Size(d[i].rec) - 1 >= Len(d)

\* The entry, the cell after the last good record, and why the scan stopped: a
\* "torn" tail, "damaged" cells, or "midway", a cell from the middle of an
\* overwritten record, whose bytes give an arbitrary length.
replay(d) ==
    LET scan[i \in 1..(Len(d) + 1)] ==
            IF i = 1 THEN [e |-> EmptyEntry, at |-> 1, stop |-> "no"]
            ELSE LET p == scan[i - 1] IN
                 IF p.stop # "no" \/ p.at # i - 1 THEN p
                 ELSE IF Intact(d, p.at) /\ apply_ok(p.e, d[p.at].rec)
                      THEN [p EXCEPT !.e = apply_record(@, d[p.at].rec),
                                     !.at = @ + Size(d[p.at].rec)]
                      ELSE [p EXCEPT !.stop = IF d[p.at].part # 1 THEN "midway"
                                              ELSE IF ~Intact(d, p.at) /\ PastEnd(d, p.at) THEN "torn"
                                              ELSE "damaged"]
    IN scan[Len(d) + 1]

Faults(n) == faultCount + n <= MaxFaults /\ faultCount' = faultCount + n

\* entry(): the first use after a start reads the file up to its end, or up to a
\* failed read, and cuts a torn tail off; the cut may fail, and nobody looks.
ReadAndReplay ==
    \E n \in 0..Len(path), damage, cut \in BOOLEAN :
        LET r == replay(SubSeq(path, 1, n))
            corrupt == r.stop = "damaged" \/ damage
            torn == ~corrupt /\ r.at <= n
        IN /\ damage => r.stop = "midway"
           /\ cut \/ torn
           /\ Faults((IF n < Len(path) THEN 1 ELSE 0) + (IF cut THEN 0 ELSE 1))
           /\ mishaps' = IF n < Len(path) THEN mishaps \cup {"misread"} ELSE mishaps
           /\ state' = IF corrupt THEN "corrupt" ELSE "open"
           /\ ram' = r.e /\ woff' = IF corrupt THEN n ELSE r.at - 1
           /\ disk' = IF torn /\ cut THEN SubSeq(path, 1, r.at - 1) ELSE path
           /\ path' = disk'

\* Without a descriptor the entry stays empty: reads find no actor, writes fail.
OpenFails == Faults(1) /\ state' = "blank" /\ UNCHANGED <<disk, path, ram, woff, mishaps>>

Open == /\ state = "closed" /\ (ReadAndReplay \/ OpenFails)
        /\ UNCHANGED <<tokens, acked, img, writes>>

\* The process dies: the next one opens what the name leads to.  When the
\* machine dies with it, a rename not yet flushed is undone.
Crash ==
    /\ state # "closed" /\ Faults(1)
    /\ \E f \in {path, disk} :
          /\ disk' = f /\ path' = f
          /\ mishaps' = IF f = disk THEN mishaps ELSE mishaps \cup {"unlinked"}
    /\ state' = "closed" /\ ram' = EmptyEntry /\ woff' = 0
    /\ UNCHANGED <<tokens, acked, img, writes>>

-----------------------------------------------------------------------------
(* durable_append: the cells are written and flushed, then write_off moves;  *)
(* or the write fails after some of them and nothing moves.  What an earlier *)
(* failed write left beyond the last cell stays.                             *)

Written(cells) ==
    /\ writes < MaxWrites /\ writes' = writes + 1
    /\ disk' = overlay(woff, cells)
    /\ path' = IF path = disk THEN disk' ELSE path
    /\ mishaps' = IF cells # <<>> /\ Len(disk) > woff + Len(cells)
                  THEN mishaps \cup {"covered"} ELSE mishaps

Appended(rec, e) ==
    /\ Written(Cells(writes, rec))
    /\ woff' = woff + Size(rec)
    /\ ram' = e
    /\ UNCHANGED <<state, img, faultCount>>

AppendFails(rec) ==
    /\ Faults(1)
    /\ \E n \in 0..Size(rec) : Written(SubSeq(Cells(writes, rec), 1, n))
    /\ UNCHANGED <<ram, state, woff, tokens, acked, img>>

FenceOf(e) == FenceRec(e.owner + 1)
AcquireFence ==
    /\ state = "open"
    /\ \/ /\ Appended(FenceOf(ram), acquire_fence(ram))
          /\ acked' = acquire_fence(acked)
          /\ tokens' = Append(tokens, ram.owner + 1)
       \/ AppendFails(FenceOf(ram))

\* A writer presents a token it was given: its batch is refused when a later
\* owner exists or when its sequence numbers are not above the tail.
AppendBatch ==
    /\ state = "open"
    /\ \E i \in 1..Len(tokens), n \in 1..2 :
          LET seqs == [k \in 1..n |-> ram.last_seq + k]
              rec == BatchRec(seqs)
          IN /\ append_ok(ram, tokens[i], Events(seqs))
             /\ \/ /\ Appended(rec, append_batch(ram, tokens[i], Events(seqs)))
                   /\ acked' = append_batch(acked, tokens[i], Events(seqs))
                   /\ UNCHANGED tokens
                \/ AppendFails(rec)

SaveSnapshot ==
    /\ state = "open"
    /\ \E i \in 1..Len(tokens), through \in 1..ram.last_seq :
          /\ save_ok(ram, tokens[i], through) /\ through > ram.snapshot.through
          /\ \/ /\ Appended(SnapRec(tokens[i], through), save_snapshot(ram, tokens[i], through, <<>>))
                /\ acked' = save_snapshot(acked, tokens[i], through, <<>>)
                /\ UNCHANGED tokens
             \/ AppendFails(SnapRec(tokens[i], through))

Compacted_LogFirst(e) ==
    LET rest == SelectSeq(e.log, LAMBDA r : r.seq > e.snapshot.through)
    IN Cells(writes, FenceRec(e.owner))
       \o (IF rest = <<>> THEN <<>> ELSE Cells(writes, BatchRec([i \in 1..Len(rest) |-> rest[i].seq])))

\* The compacted file: the owner, the snapshot and what it does not subsume.
Compacted(e) ==
    LET rest == SelectSeq(e.log, LAMBDA r : r.seq > e.snapshot.through)
    IN Cells(writes, FenceRec(e.owner)) \o Cells(writes, SnapRec(e.snapshot.fence, e.snapshot.through))
       \o IF rest = <<>> THEN <<>> ELSE Cells(writes, BatchRec([i \in 1..Len(rest) |-> rest[i].seq]))

\* truncate_log through the snapshot (what CompactEveryNEvents asks for): a
\* temporary file is flushed and renamed over the log, and opened; or the rename
\* does its work and only the flush of the directory fails, with e.fd left on
\* the old file; or the new file cannot be opened.  Before the rename a failure
\* changes nothing.
TruncateLog ==
    /\ state = "open" /\ writes < MaxWrites
    /\ \E i \in 1..Len(tokens) :
          LET e == truncate_log(ram, tokens[i], ram.snapshot.through)
          IN /\ truncate_ok(ram, tokens[i], ram.snapshot.through) /\ e # ram
             /\ writes' = writes + 1 /\ path' = Compacted(ram)
             /\ \/ /\ disk' = path' /\ woff' = Len(path') /\ ram' = e
                   /\ acked' = truncate_log(acked, tokens[i], ram.snapshot.through)
                   /\ UNCHANGED <<state, faultCount>>
                \/ Faults(1) /\ UNCHANGED <<disk, woff, ram, acked, state>>
                \/ /\ Faults(1) /\ disk' = path' /\ state' = "refused"
                   /\ UNCHANGED <<woff, ram, acked>>
    /\ UNCHANGED <<tokens, img, mishaps>>

-----------------------------------------------------------------------------
(* Backup and restore *)

SnapshotTo == /\ state = "open" /\ img = {} /\ ram.owner > 0
              /\ img' = {ram}
              /\ UNCHANGED <<disk, path, ram, state, woff, tokens, acked, writes, faultCount, mishaps>>

\* The files of the old store are gone; an empty directory gets the image under
\* an epoch above every token of the image and the operator's floor, the last
\* token the old store is known to have issued.
Restored(e, ep) ==
    Cells(writes, FenceRec(ep))
    \o (IF e.log = <<>> THEN <<>>
        ELSE Cells(writes, BatchRec([i \in 1..Len(e.log) |-> e.log[i].seq])))
    \o (IF e.snapshot = NoSnapshot THEN <<>>
        ELSE Cells(writes, SnapRec(e.snapshot.fence, e.snapshot.through)))

LastToken == IF tokens = <<>> THEN 0 ELSE tokens[Len(tokens)]

RestoreFrom ==
    /\ state \in {"open", "corrupt", "refused"} /\ writes < MaxWrites /\ img # {}
    /\ \E e \in img :
          LET table == restore_from([id \in {0} |-> e], LastToken)
          IN /\ validate_backup([id \in {0} |-> e])
             /\ disk' = Restored(e, table[0].owner) /\ path' = disk' /\ woff' = Len(disk')
             /\ ram' = table[0] /\ acked' = table[0]
             /\ tokens' = Append(tokens, table[0].owner)
    /\ writes' = writes + 1 /\ img' = {} /\ state' = "open"
    /\ UNCHANGED <<faultCount, mishaps>>

FileNext == \/ Open \/ Crash \/ AcquireFence \/ AppendBatch \/ SaveSnapshot \/ TruncateLog
            \/ SnapshotTo \/ RestoreFrom

FileSpec == FileInit /\ [][FileNext]_fileVars

-----------------------------------------------------------------------------
Covers(e) ==
    /\ e.owner >= acked.owner
    /\ e.snapshot.through >= acked.snapshot.through
    /\ \A i \in 1..Len(acked.log) : acked.log[i].seq > e.snapshot.through =>
          \E j \in 1..Len(e.log) : e.log[j] = acked.log[i]

Untouched == mishaps \cap {"unlinked", "misread"} = {}

(* "An acknowledged write survives process exit": after any sequence of     *)
(* failed writes, crashes and compactions the store, and the file under it  *)
(* up to the first damage, hold every acknowledged event above the snapshot,*)
(* the acknowledged snapshot and an owner no older than the acknowledged    *)
(* one.  Two mishaps end that: a process that ended after a rename that     *)
(* failed late, and a read error at the opening.  A third, a write over the *)
(* front of a longer failed one, is the only way the file is found damaged: *)
(* then the store serves nothing, but the file still has it all.            *)
AckedSurvives ==
    /\ state = "corrupt" => "covered" \in mishaps
    /\ Untouched => /\ state = "open" => Covers(ram)
                    /\ path = disk => Covers(replay(path).e)

(* A fencing token is issued once, across restarts, failed writes and a     *)
(* restore from a backup that is older than the last token, unless one of   *)
(* the same two mishaps took the record of it away.                         *)
TokensGrow == Untouched => \A i, j \in 1..Len(tokens) : i < j => tokens[i] < tokens[j]

(* The RAM index the reads are served from is what a replay of the open     *)
(* file up to write_off would give, also on a file no name leads to.        *)
IndexIsReplay == state = "open" => replay(SubSeq(disk, 1, woff)).e = ram

-----------------------------------------------------------------------------
(***************************************************************************)
(* Event-sourced actors over the storage seam: the staging log of           *)
(* core/event_log.hpp, snapshots and recovery (core/snapshot.hpp), the      *)
(* encrypting store between them and the adapter (core/at_rest.hpp) and the *)
(* backup file (core/backup.hpp).  Two activations of one actor id can be   *)
(* alive at once, a new owner and one that does not know it was replaced.   *)
(* An actor's state is the sequence of the events applied to it.            *)
(***************************************************************************)

CONSTANTS
    Owners,     \* activations that may own the actor
    Every,      \* the cadence of CompactEveryNEvents
    MaxEvents,  \* bound: events committed
    MaxTerms    \* bound: ownership changes and restores

VARIABLES
    table,   \* the adapter's Entry of the actor; records are sealed
    act,     \* act[a]: the activation a and its EventLog
    history, \* every event acknowledged and not lost to a restore, in order
    backup,  \* the backup file, a set with at most one [image, history, intact]
    terms

esVars == <<table, act, history, backup, terms>>

\* seal_at_rest binds a record to its actor, kind, number and, for a snapshot,
\* to its fence; it opens only under the same context.
AtRest(kind, seq, fence) == [kind |-> kind, seq |-> seq, fence |-> fence]
seal_event(seq, ev) == [seq |-> seq, ev |-> ev, ctx |-> AtRest("event", seq, 0)]
open_event(r) == r.ctx = AtRest("event", r.seq, 0)

seal_snapshot(tok, through, plain) ==
    <<[ctx |-> AtRest("snapshot", through, tok), plain |-> plain]>>
open_snapshot(s) == s.state[1].ctx = AtRest("snapshot", s.through, s.fence)

Idle == [pc |-> "none", fence |-> 0, next |-> 1, snap |-> 0, staged |-> 0, state |-> <<>>]

EsInit == /\ table = EmptyEntry /\ act = [a \in Owners |-> Idle]
          /\ history = <<>> /\ backup = {} /\ terms = 0

-----------------------------------------------------------------------------
(* Activation: the fence first, then recovery.                              *)

Acquire(a) ==
    /\ act[a].pc = "none" /\ terms < MaxTerms /\ terms' = terms + 1
    /\ table' = acquire_fence(table)
    /\ act' = [act EXCEPT ![a] = [Idle EXCEPT !.pc = "fenced", !.fence = table.owner + 1]]
    /\ UNCHANGED <<history, backup>>

\* recover_event_sourced: the snapshot's state, then the tail above it in order.
Recovered(e) ==
    LET base == IF e.snapshot = NoSnapshot THEN <<>> ELSE e.snapshot.state[1].plain
        tail == read_log(e, e.snapshot.through + 1)
    IN [state |-> base \o [i \in 1..Len(tail) |-> tail[i].ev],
        last |-> IF tail = <<>> THEN e.snapshot.through ELSE tail[Len(tail)].seq]

CanOpen(e) == /\ e.snapshot # NoSnapshot => open_snapshot(e.snapshot)
              /\ \A i \in 1..Len(e.log) : open_event(e.log[i])

Recover(a) ==
    /\ act[a].pc = "fenced"
    /\ LET r == Recovered(table) IN
       act' = [act EXCEPT ![a].pc = IF CanOpen(table) THEN "live" ELSE "failed",
                          ![a].state = r.state, ![a].next = r.last + 1,
                          ![a].snap = table.snapshot.through]
    /\ UNCHANGED <<table, history, backup, terms>>

OwnerCrash(a) ==
    /\ act[a].pc # "none" /\ act' = [act EXCEPT ![a] = Idle]
    /\ UNCHANGED <<table, history, backup, terms>>

\* A handler stages events and commits them: the whole batch or nothing, the
\* counter moves and the events are applied only when the store took them.
Stage(a) ==
    /\ act[a].pc = "live" /\ act[a].staged < 2 /\ Len(history) + act[a].staged < MaxEvents
    /\ act' = [act EXCEPT ![a].staged = @ + 1]
    /\ UNCHANGED <<table, history, backup, terms>>

NewEvents(a) == [i \in 1..act[a].staged |-> <<a, act[a].fence, act[a].next + i - 1>>]
Batch(a) == [i \in 1..act[a].staged |->
                seal_event(act[a].next + i - 1, NewEvents(a)[i])]

commit(a) ==
    /\ act[a].pc = "live" /\ act[a].staged > 0
    /\ IF append_ok(table, act[a].fence, Batch(a))
       THEN /\ table' = append_batch(table, act[a].fence, Batch(a))
            /\ history' = history \o NewEvents(a)
            /\ act' = [act EXCEPT ![a].next = @ + act[a].staged, ![a].staged = 0,
                                  ![a].state = @ \o NewEvents(a)]
       ELSE /\ act' = [act EXCEPT ![a].staged = 0]   \* rollback()
            /\ UNCHANGED <<table, history>>
    /\ UNCHANGED <<backup, terms>>

\* compact_if_due: the snapshot first; the truncation is a store call of its own.
Compact(a) ==
    /\ act[a].pc = "live" /\ act[a].staged = 0
    /\ act[a].next - 1 - act[a].snap >= Every
    /\ LET last == act[a].next - 1
           sealed == seal_snapshot(act[a].fence, last, act[a].state)
       IN IF save_ok(table, act[a].fence, last)
          THEN /\ table' = save_snapshot(table, act[a].fence, last, sealed)
               /\ act' = [act EXCEPT ![a].snap = last, ![a].pc = "truncating"]
          ELSE UNCHANGED <<table, act>>
    /\ UNCHANGED <<history, backup, terms>>

Through(a) == act[a].snap
Truncate(a) ==
    /\ act[a].pc = "truncating"
    /\ table' = truncate_log(table, act[a].fence, Through(a))
    /\ act' = [act EXCEPT ![a].pc = "live"]
    /\ UNCHANGED <<history, backup, terms>>

-----------------------------------------------------------------------------
(* The backup file: an image behind a checksum, written beside the old one  *)
(* and renamed.                                                             *)
encode_backup(e) == [image |-> snapshot_to([id \in {0} |-> e]), history |-> history, intact |-> TRUE]
decode_backup(f) == f.intact /\ validate_backup(f.image)

SnapshotToFile ==
    /\ terms < MaxTerms /\ table.owner > 0 /\ backup = {}
    /\ backup' = {encode_backup(table)}
    /\ UNCHANGED <<table, act, history, terms>>

Damage == /\ \E f \in backup : f.intact
          /\ backup' = {[f EXCEPT !.intact = FALSE] : f \in backup}
          /\ UNCHANGED <<table, act, history, terms>>

\* The store is lost and rebuilt from the file; activations of the lost store
\* may still be running.
RestoreFromFile ==
    /\ terms < MaxTerms /\ terms' = terms + 1
    /\ \E f \in backup :
          /\ decode_backup(f)
          /\ table' = restore_from(f.image, table.owner)[0]
          /\ history' = f.history
    /\ backup' = {}
    /\ UNCHANGED act

EsNext ==
    \/ \E a \in Owners : Acquire(a) \/ Recover(a) \/ OwnerCrash(a) \/ Stage(a) \/ commit(a)
                         \/ Compact(a) \/ Truncate(a)
    \/ SnapshotToFile \/ Damage \/ RestoreFromFile

EsSpec == EsInit /\ [][EsNext]_esVars

-----------------------------------------------------------------------------
(* Whatever the crashes, takeovers, compactions and restores, recovery from *)
(* the store gives back exactly the acknowledged events, each once and in   *)
(* order (the log and the snapshot together neither lose nor double one).   *)
RecoversHistory == Recovered(table).state = history

(* The owner of the latest fence is never behind: its state in memory is    *)
(* the acknowledged history, so what it decides next is decided on it.      *)
OwnerIsCurrent ==
    \A a \in Owners :
        act[a].pc \in {"live", "truncating"} /\ act[a].fence = table.owner
            => act[a].state = history

(* Everything the adapter holds opens again under the context it is read    *)
(* with, after takeovers and restores changed the owner.                    *)
SealedRecordsOpen == CanOpen(table)

=============================================================================
