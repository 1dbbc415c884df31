----------------------------- MODULE MessagePool -----------------------------
(* The cells messages live in (detail/message_pool.hpp, envelope_pool.hpp and  *)
(* the DualReclaimSink of core/actor_ref.hpp): partitions with a mutex and a   *)
(* free list, a magazine per thread in front of each, refilled in batches from *)
(* the thread's own partition, from a sibling, or by growing; a cell goes back *)
(* to the magazine of the partition that owns its storage, on whichever thread *)
(* drained the message.  Messages with an envelope come from a second pool.    *)
(* Free lists and magazines are sets: which free cell is handed out next does  *)
(* not matter here.                                                            *)
EXTENDS Naturals, FiniteSets

CONSTANTS Threads,
          Parts,      \* partitions_, numbered from 0
          Slots,      \* magazines of a thread; slot_for(p) is p % Slots
          KCap,       \* LocalCache::kCap
          Batch,      \* kRefillBatch and kReturnBatch
          MaxCells,   \* bound on the plain cells ever built
          RacingEnd   \* TRUE: the pool may be destroyed while a thread flushes

VARIABLES home,       \* Cell::home of the cells built so far
          free,       \* free list of each partition
          mag,        \* [bound, cells] of each thread and slot
          flight,     \* plain cells that carry a message
          at,         \* what each thread is doing
          live,       \* the pool, and the partitions that still exist
          env,        \* [free, flight] of the EnvelopePool
          touched     \* cells written while linking a magazine back

poolVars == <<home, free, mag, flight, at, live, env, touched>>

Partitions == 0 .. Parts - 1
Lane(t) == t % Parts
SlotFor(p) == p % Slots
none == Parts
Idle == [op |-> "idle", p |-> none, sl |-> 0]
Built == DOMAIN home
EnvCells == {MaxCells + 1, MaxCells + 2}

PoolInit ==
    /\ home = [c \in {1, 2} |-> c % Parts]
    /\ free = [p \in Partitions |-> {c \in {1, 2} : home[c] = p}]
    /\ mag = [t \in Threads |-> [s \in 0 .. Slots - 1 |-> [bound |-> none, cells |-> {}]]]
    /\ flight = {}
    /\ at = [t \in Threads |-> Idle]
    /\ live = [pool |-> TRUE, parts |-> Partitions]
    /\ env = [free |-> EnvCells, flight |-> {}]
    /\ touched = {}

Min(a, b) == IF a < b THEN a ELSE b
\* take_locked: up to a batch of q's free cells.
Taken(q) == {S \in SUBSET free[q] : Cardinality(S) = Min(Batch, Cardinality(free[q]))}
Mag(t, p) == mag[t][SlotFor(p)]
-----------------------------------------------------------------------------
(* Binding a magazine.                                                         *)

\* local_cache_for: the slot's magazine for p; one bound to another partition
\* is flushed to that partition first (the pool is alive: it is being used).
local_cache_for(t, p) ==
    LET lc == Mag(t, p)
    IN  IF lc.bound = p THEN [mags |-> mag, frees |-> free]
        ELSE [mags |-> [mag EXCEPT ![t][SlotFor(p)] = [bound |-> p, cells |-> {}]],
              frees |-> IF lc.bound = none THEN free ELSE [free EXCEPT ![lc.bound] = @ \cup lc.cells]]
-----------------------------------------------------------------------------
(* acquire.                                                                    *)

\* The magazine of the thread's lane is bound; a cell is popped if it has one.
Acquire(t) ==
    /\ live.pool /\ at[t] = Idle
    /\ LET p == Lane(t)  lc == local_cache_for(t, p)  have == lc.mags[t][SlotFor(p)].cells
       IN  /\ free' = lc.frees
           /\ IF have = {} THEN at' = [at EXCEPT ![t] = [Idle EXCEPT !.op = "refill"]]
                                /\ mag' = lc.mags /\ UNCHANGED flight
              ELSE \E c \in have : /\ flight' = flight \cup {c} /\ UNCHANGED at
                                   /\ mag' = [lc.mags EXCEPT ![t][SlotFor(p)].cells = @ \ {c}]
    /\ UNCHANGED <<home, live, env, touched>>

\* refill, first the own partition under its lock; the popped cell is taken
\* from the batch at once.
Refilled(t, q, S, c) ==
    /\ free' = [free EXCEPT ![q] = @ \ S]
    /\ mag' = [mag EXCEPT ![t][SlotFor(Lane(t))].cells = S \ {c}]
    /\ flight' = flight \cup {c}
    /\ at' = [at EXCEPT ![t] = Idle]
    /\ UNCHANGED <<home, live, env, touched>>

RefillOwn(t) ==
    /\ at[t].op = "refill" /\ free[Lane(t)] # {}
    /\ \E S \in Taken(Lane(t)) : \E c \in S : Refilled(t, Lane(t), S, c)

RefillNone(t) ==
    /\ at[t].op = "refill" /\ free[Lane(t)] = {} /\ at' = [at EXCEPT ![t].op = "steal"]
    /\ UNCHANGED <<home, free, mag, flight, live, env, touched>>

\* A sibling, with try_lock; the stolen batch sits in the magazine of the own
\* partition and keeps its home.
Steal(t) ==
    /\ at[t].op = "steal"
    /\ \E q \in Partitions \ {Lane(t)} : \E S \in Taken(q) : \E c \in S : Refilled(t, q, S, c)

\* No sibling had cells or its lock free: one cell is grown outside the locks.
Grow(t) ==
    /\ at[t].op = "steal" /\ Cardinality(Built) < MaxCells
    /\ LET fresh == Cardinality(Built) + 1
       IN  /\ home' = [d \in Built \cup {fresh} |-> IF d = fresh THEN Lane(t) ELSE home[d]]
           /\ flight' = flight \cup {fresh}
           /\ at' = [at EXCEPT ![t] = Idle]
    /\ UNCHANGED <<free, mag, live, env, touched>>
-----------------------------------------------------------------------------
(* reclaim.                                                                    *)

\* flush_partial: a batch of a full magazine is spliced back to its partition.
flush_partial(b, t, p) ==
    {[mags |-> [b.mags EXCEPT ![t][SlotFor(p)].cells = @ \ S], frees |-> [b.frees EXCEPT ![p] = @ \cup S]] :
     S \in {T \in SUBSET b.mags[t][SlotFor(p)].cells : Cardinality(T) = Batch}}

\* MessagePool::reclaim, on the thread that drained the message.
Reclaim(t, c) ==
    LET p == home[c]  lc == local_cache_for(t, p)
    IN  /\ \E r \in IF Cardinality(lc.mags[t][SlotFor(p)].cells) = KCap
                    THEN flush_partial(lc, t, p) ELSE {lc} :
              /\ mag' = [r.mags EXCEPT ![t][SlotFor(p)].cells = @ \cup {c}]
              /\ free' = r.frees
        /\ UNCHANGED <<home, at, live, touched>>

\* EnvelopePool: one mutex, one free list.
AcquireEnvelope(t) ==
    /\ live.pool /\ at[t] = Idle
    /\ \E e \in env.free : env' = [free |-> env.free \ {e}, flight |-> env.flight \cup {e}]
    /\ UNCHANGED <<home, free, mag, flight, at, live, touched>>

\* DualReclaimSink::thunk: the flag of the descriptor names the pool the cell
\* of a finished message goes back to.
reclaim(t) ==
    /\ live.pool /\ at[t] = Idle
    /\ \/ \E c \in flight : /\ Reclaim(t, c) /\ flight' = flight \ {c} /\ UNCHANGED env
       \/ \E e \in env.flight :
            /\ env' = [free |-> env.free \cup {e}, flight |-> env.flight \ {e}]
            /\ UNCHANGED <<home, free, mag, flight, at, live, touched>>
-----------------------------------------------------------------------------
(* Quiescing a thread, and the end of the pool.                                *)

\* flush_all_locked: the token pins the partition, or the cells are forfeited.
\* Reached from flush_thread_local_caches and from a thread's exit.
flush_all_locked(t, s) ==
    IF mag[t][s].bound \in live.parts
    THEN at' = [at EXCEPT ![t] = [op |-> "link", p |-> mag[t][s].bound, sl |-> s]] /\ UNCHANGED mag
    ELSE mag' = [mag EXCEPT ![t][s] = [bound |-> none, cells |-> {}]] /\ UNCHANGED at

Flush(t) ==
    /\ at[t] = Idle
    /\ \E s \in 0 .. Slots - 1 : mag[t][s].bound # none /\ mag[t][s].cells # {} /\ flush_all_locked(t, s)
    /\ UNCHANGED <<home, free, flight, live, env, touched>>

\* The cells are linked under the partition's lock, and the pin goes.
Link(t) ==
    /\ at[t].op = "link"
    /\ LET p == at[t].p  cs == mag[t][at[t].sl].cells
       IN  /\ free' = [free EXCEPT ![p] = @ \cup cs]
           /\ touched' = {[cell |-> c, dead |-> home[c] \notin live.parts] : c \in cs}
           /\ mag' = [mag EXCEPT ![t][at[t].sl].cells = {}]
           /\ at' = [at EXCEPT ![t] = Idle]
           /\ live' = IF live.pool \/ \E u \in Threads \ {t} : at[u].op = "link" /\ at[u].p = p THEN live
                      ELSE [live EXCEPT !.parts = @ \ {p}]
    /\ UNCHANGED <<home, flight, env>>

\* The pool is destroyed once no message is out; a partition some flush has
\* pinned stays, the others and their cells go.
Destroy ==
    /\ live.pool /\ flight = {} /\ env.flight = {}
    /\ \A t \in Threads : at[t] = Idle \/ (RacingEnd /\ at[t].op = "link")
    /\ live' = [pool |-> FALSE, parts |-> {at[t].p : t \in {u \in Threads : at[u].op = "link"}}]
    /\ UNCHANGED <<home, free, mag, flight, at, env, touched>>

Gone == ~live.pool /\ (\A t \in Threads : at[t] = Idle /\ \A s \in 0 .. Slots - 1 : mag[t][s].cells = {})
        /\ UNCHANGED poolVars
PoolNext == \/ \E t \in Threads : \/ Acquire(t) \/ RefillOwn(t) \/ RefillNone(t) \/ Steal(t) \/ Grow(t)
                                  \/ AcquireEnvelope(t) \/ reclaim(t) \/ Flush(t) \/ Link(t)
            \/ Destroy \/ Gone
-----------------------------------------------------------------------------
Magazines == Threads \X (0 .. Slots - 1)
InMag(c) == {m \in Magazines : c \in mag[m[1]][m[2]].cells}
InFree(c) == {p \in Partitions : c \in free[p]}

\* While the pool lives every cell built is in exactly one place: it carries a
\* message, or it is in one magazine of one thread, or on one free list.  Two
\* places would give one cell to two messages; none is a leak that makes the
\* pre-sized pool grow.
CellsInOnePlace ==
    live.pool =>
        \A c \in Built : Cardinality(InMag(c)) + Cardinality(InFree(c)) + (IF c \in flight THEN 1 ELSE 0) = 1

\* Linking a magazine back writes only cells whose storage still exists, though
\* the pool may have been destroyed since the magazine was filled.
NoDeadTouch == \A w \in touched : ~w.dead
=============================================================================
