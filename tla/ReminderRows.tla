----------------------------- MODULE ReminderRows -----------------------------
(***************************************************************************)
(* The durable reminder table as the SQLite adapter keeps it                *)
(* (adapters/sqlite_reminder_store.hpp): one row per reminder key, one      *)
(* checkpoint cell, every call a single statement that is done or fails.    *)
(* The checkpoint is read once, when the store is opened, and that read     *)
(* cannot say that it failed.                                               *)
(* It is the contract that the other reminder stores are held to.           *)
(***************************************************************************)
EXTENDS Integers

CONSTANTS RemKeys,  \* ReminderKey: actor and name
          Dues,     \* scheduled_due_ns
          Buckets

VARIABLES rows,   \* the rows of the table, [key, due]
          mark,   \* rem_meta, -1 = no row
          known   \* checkpoint_, what checkpoint_bucket() answers

RowsInit == rows = {} /\ mark = -1 /\ known = -1

\* INSERT ... ON CONFLICT DO UPDATE: replaces, never duplicates.
put(k, due) == /\ rows' = {r \in rows : r.key # k} \cup {[key |-> k, due |-> due]}
               /\ UNCHANGED <<mark, known>>

remove(k) == rows' = {r \in rows : r.key # k} /\ UNCHANGED <<mark, known>>

checkpoint(b) == mark' = b /\ known' = b /\ UNCHANGED rows

\* The store is opened again: no row and a failed read are both -1.
reopen == known' \in {mark, -1} /\ UNCHANGED <<rows, mark>>

RowsNext == \/ \E k \in RemKeys, due \in Dues : put(k, due)
            \/ \E k \in RemKeys : remove(k)
            \/ \E b \in Buckets : checkpoint(b)
            \/ reopen

RowsSpec == RowsInit /\ [][RowsNext]_<<rows, mark, known>>
=============================================================================
