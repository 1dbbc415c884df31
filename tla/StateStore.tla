----------------------------- MODULE StateStore ------------------------------
(***************************************************************************)
(* The storage seam of persistence.hpp as its reference adapter            *)
(* InMemoryStore keeps it: per actor a fencing owner, the highest commit   *)
(* sequence, the latest snapshot and an append-only log.  Every operation  *)
(* holds the store's mutex, so each is one function on the actor's Entry.  *)
(* The adapters over SQLite and RocksDB make the same checks inside one    *)
(* transaction.                                                            *)
(***************************************************************************)
EXTENDS Naturals, Sequences, FiniteSetsExt

NoSnapshot == [fence |-> 0, through |-> 0, state |-> <<>>]  \* std::nullopt

EmptyEntry == [owner |-> 0, last_seq |-> 0, snapshot |-> NoSnapshot, log |-> <<>>]

\* The new owner's token: strictly above every token issued before.
acquire_fence(e) == [e EXCEPT !.owner = @ + 1]

\* A token of 0 was never issued, a smaller one belongs to a superseded writer.
fenced(e, tok) == tok = 0 \/ tok < e.owner

\* Are the sequence numbers of the batch strictly increasing from the tail on?
Increasing(e, batch) ==
    \A i \in 1..Len(batch) :
        batch[i].seq > (IF i = 1 THEN e.last_seq ELSE batch[i - 1].seq)

append_ok(e, tok, batch) == ~fenced(e, tok) /\ Increasing(e, batch)

\* Appends every record or none.
append_batch(e, tok, batch) ==
    IF append_ok(e, tok, batch) /\ batch # <<>>
    THEN [e EXCEPT !.log = @ \o batch, !.last_seq = batch[Len(batch)].seq]
    ELSE e

save_ok(e, tok, through) == ~fenced(e, tok) /\ through \in e.snapshot.through..e.last_seq

save_snapshot(e, tok, through, state) ==
    IF save_ok(e, tok, through)
    THEN [e EXCEPT !.snapshot = [fence |-> tok, through |-> through, state |-> state]]
    ELSE e

read_log(e, from) == SelectSeq(e.log, LAMBDA r : r.seq >= from)

truncate_ok(e, tok, through) == ~fenced(e, tok) /\ e.snapshot # NoSnapshot /\ through <= e.snapshot.through

truncate_log(e, tok, through) ==
    IF truncate_ok(e, tok, through) THEN [e EXCEPT !.log = read_log(e, through + 1)] ELSE e

-----------------------------------------------------------------------------
(* Backup and restore.  An image is the table of the store at one cut.     *)

snapshot_to(table) == table

\* One above every token of the image and the operator's floor.
restore_epoch(img, floor) ==
    1 + Max({floor} \cup {img[id].owner : id \in DOMAIN img}
                    \cup {img[id].snapshot.fence : id \in DOMAIN img})

validate_backup(img) ==
    \A id \in DOMAIN img :
        /\ Increasing([img[id] EXCEPT !.last_seq = 0], img[id].log)
        /\ \A i \in 1..Len(img[id].log) : img[id].log[i].seq <= img[id].last_seq
        /\ img[id].snapshot.through <= img[id].last_seq

\* Into a fresh store: every actor is fenced at the new epoch.
restore_from(img, floor) == [id \in DOMAIN img |-> [img[id] EXCEPT !.owner = restore_epoch(img, floor)]]
=============================================================================
