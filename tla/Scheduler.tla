------------------------------ MODULE Scheduler ------------------------------
(***************************************************************************)
(* The engine's scheduling loop (core/engine.hpp): the workers that scan   *)
(* the shards, the drain-owner slot of each shard, parking and the         *)
(* targeted wakeup, the backstop thread that only ticks the timer wheels,  *)
(* cooperative drain-owner eviction, and stop().                           *)
(*                                                                         *)
(* The run-queue is RunQueue<UniformFIFO>: one intrusive MPSC lane, here   *)
(* the sequence of its nodes from head_ to tail_, where an entry whose     *)
(* predecessor link is not stored yet is named by the thread enqueuing it. *)
(* What an activation does while it runs is in module Activation; here its *)
(* handlers may schedule others and it may yield.  A wheel tick may fire a *)
(* timer, which schedules an activation on the same shard from the thread  *)
(* that ticks.  A worker visits the shards in any order: the scan order    *)
(* (own shards first) is locality only.                                    *)
(***************************************************************************)
EXTENDS Naturals, Sequences, FiniteSets, SequencesExt

CONSTANTS Workers,    \* worker threads
          Shards,
          Producers,  \* threads that schedule activations from outside
          Backstop,   \* the backstop thread (and kBackstopOwner)
          None,       \* kNoOwner
          Stub,       \* the lane's sentinel
          Item,       \* a linked entry
          SpinsOut,   \* can a producer stay mid-publish for busy_spin_limit spins
          MayStop,    \* is stop() called
          Steal,      \* drain_owner_steal_probe_limit # 0
          MaxPosts,   \* bound: activations scheduled over a behaviour
          MaxGen      \* bound: eviction requests over a behaviour

Threads == Workers \cup Producers \cup {Backstop}

ASSUME ThreadsAssumption == /\ Backstop \notin Workers \cup Producers
                            /\ Workers \cap Producers = {}
                            /\ None \notin Threads
                            /\ Stub # Item /\ Stub \notin Threads /\ Item \notin Threads
\* EngineConfig: a worker_count of 0 is made 1 (Engine's constructor).
ASSUME WorkersAssumption == Workers # {}
ASSUME BoundsAssumption == /\ SpinsOut \in BOOLEAN /\ MayStop \in BOOLEAN /\ Steal \in BOOLEAN
                           /\ MaxPosts \in Nat /\ MaxGen \in Nat

VARIABLES lane,      \* the nodes of each shard's run-queue, head_ first, tail_ last
          owner,     \* drain_owner of each shard
          idle,      \* idle_mask_
          bumped,    \* did wake_seq move since the worker read it in park()
          pc,        \* where each worker and the backstop are
          at,        \* the shard each of them is at
          todo,      \* shards still to visit in the scan or rescan
          processed, \* this drain session ran something
          final,     \* the worker is in the confirming scan of a shutdown
          epc,       \* where each thread is in schedule_and_wake
          target,    \* the shard it schedules on, or the worker it wakes
          posts,     \* activations scheduled so far
          req,       \* evict_request of each shard, 0 is none
          ack,       \* evict_ack of each shard
          gen,       \* next_gen of each shard
          myreq,     \* the request a worker posted, or is acknowledging
          seen,      \* the owner a contender saw
          moved,     \* did that owner's progress move during the probe
          stopping,  \* stopping_
          towake     \* workers wake_all has still to bump

evict == <<req, ack, gen, myreq, seen, moved>>
enq == <<epc, target, posts>>
stopvars == <<stopping, towake>>
vars == <<lane, owner, idle, bumped, pc, at, todo, processed, final, enq, evict, stopvars>>

Init == /\ lane = [s \in Shards |-> <<Stub>>]
        /\ owner = [s \in Shards |-> None]
        /\ idle = {}
        /\ bumped = [w \in Workers |-> FALSE]
        /\ pc = [t \in Workers \cup {Backstop} |-> IF t = Backstop THEN "sleep" ELSE "scan"]
        /\ at = [t \in Workers \cup {Backstop} |-> None]
        /\ todo = [t \in Workers \cup {Backstop} |-> IF t = Backstop THEN {} ELSE Shards]
        /\ processed = [w \in Workers |-> FALSE]
        /\ final = [w \in Workers |-> FALSE]
        /\ epc = [t \in Threads |-> "no"]
        /\ target = [t \in Threads |-> None]
        /\ posts = 0
        /\ req = [s \in Shards |-> 0]
        /\ ack = [s \in Shards |-> 0]
        /\ gen = [s \in Shards |-> 1]
        /\ myreq = [w \in Workers |-> 0]
        /\ seen = [w \in Workers |-> None]
        /\ moved = [w \in Workers |-> FALSE]
        /\ stopping = FALSE
        /\ towake = {}

Linked(n) == n \notin Threads

\* The probe: tail_ != &stub_.
has_work(s) == Last(lane[s]) # Stub

\* What it stands for.
Queued(s) == \E i \in 1..Len(lane[s]) : lane[s][i] # Stub

\* A thread inside schedule_and_wake does nothing else.
Goto(t, from, to) == pc[t] = from /\ epc[t] = "no" /\ pc' = [pc EXCEPT ![t] = to]

-----------------------------------------------------------------------------
(* schedule_and_wake, by any thread: enqueue in two steps, then wake_one.  *)

ScheduleOn(t, s) ==
    /\ epc[t] = "no" /\ posts < MaxPosts
    /\ epc' = [epc EXCEPT ![t] = "link"]
    /\ target' = [target EXCEPT ![t] = s]
    /\ posts' = posts + 1
    /\ lane' = [lane EXCEPT ![s] = Append(@, t)]

Post(p, s) ==
    /\ ~stopping
    /\ ScheduleOn(p, s)
    /\ UNCHANGED <<owner, idle, bumped, pc, at, todo, processed, final, evict, stopvars>>

EnqueueLink(t) ==
    /\ epc[t] = "link"
    /\ epc' = [epc EXCEPT ![t] = "wake"]
    /\ lane' = [lane EXCEPT ![target[t]] = ReplaceAll(@, t, Item)]
    /\ UNCHANGED <<owner, idle, bumped, pc, at, todo, processed, final, target, posts, evict,
                   stopvars>>

\* wake_seq moves; only a worker that has read it in park() can tell.
Bump(w) ==
    bumped' = [bumped EXCEPT ![w] = @ \/ pc[w] \in {"rescan", "retract", "sleep"}]

\* wake_one: take one idle worker out of the mask, if there is any.
WakePick(t) ==
    /\ epc[t] = "wake"
    /\ \/ /\ idle = {}
          /\ epc' = [epc EXCEPT ![t] = "no"]
          /\ target' = [target EXCEPT ![t] = None]
          /\ idle' = idle
       \/ \E w \in idle : /\ idle' = idle \ {w}
                          /\ epc' = [epc EXCEPT ![t] = "bump"]
                          /\ target' = [target EXCEPT ![t] = w]
    /\ UNCHANGED <<lane, owner, bumped, pc, at, todo, processed, final, posts, evict, stopvars>>

WakeBump(t) ==
    /\ epc[t] = "bump"
    /\ Bump(target[t])
    /\ epc' = [epc EXCEPT ![t] = "no"]
    /\ target' = [target EXCEPT ![t] = None]
    /\ UNCHANGED <<lane, owner, idle, pc, at, todo, processed, final, posts, evict, stopvars>>

-----------------------------------------------------------------------------
(* worker_loop and scan_and_run.                                           *)

\* The visit to a shard ended with try_drain_shard_with_steal returning
\* processed[w]: a productive session restarts the scan (SelectItem reset
\* todo), another one goes on to the next shard.
NextShard(w, from) ==
    /\ Goto(w, from, "scan")
    /\ todo' = [todo EXCEPT ![w] = @ \ {at[w]}]
    /\ at' = [at EXCEPT ![w] = None]
    /\ seen' = [seen EXCEPT ![w] = None]
    /\ moved' = [moved EXCEPT ![w] = FALSE]
    /\ myreq' = [myreq EXCEPT ![w] = 0]
    /\ UNCHANGED <<lane, owner, idle, bumped, processed, final, enq, req, ack, gen, stopvars>>

\* The return of try_drain_shard, as part of the action that ends a session.
SessionEnds(w) ==
    /\ at' = [at EXCEPT ![w] = IF processed[w] THEN None ELSE @]
    /\ seen' = [seen EXCEPT ![w] = IF processed[w] THEN None ELSE @]
    /\ processed' = [processed EXCEPT ![w] = FALSE]

AfterSession(w) == IF processed[w] THEN "scan" ELSE "missed"

\* Visit the next shard: the drain-owner CAS of try_drain_shard.
VisitShard(w, s) ==
    /\ s \in todo[w]
    /\ Goto(w, "scan", IF owner[s] = None THEN "top" ELSE "missed")
    /\ owner' = [owner EXCEPT ![s] = IF @ = None THEN w ELSE @]
    /\ at' = [at EXCEPT ![w] = s]
    /\ UNCHANGED <<lane, idle, bumped, todo, processed, final, enq, evict, stopvars>>

\* The visit ran nothing and no eviction is attempted: on to the next shard.
SkipShard(w) == NextShard(w, "missed")

\* The scan found nothing anywhere: confirm and exit, or get ready to park.
ScanFoundNothing(w) ==
    /\ todo[w] = {}
    /\ \/ /\ stopping /\ ~final[w]
          /\ Goto(w, "scan", "scan")
          /\ todo' = [todo EXCEPT ![w] = Shards]
          /\ final' = [final EXCEPT ![w] = TRUE]
       \/ /\ stopping /\ final[w]
          /\ Goto(w, "scan", "exited")
          /\ UNCHANGED <<todo, final>>
       \/ /\ ~stopping
          /\ Goto(w, "scan", "spin")
          /\ UNCHANGED <<todo, final>>
    /\ UNCHANGED <<lane, owner, idle, bumped, at, processed, enq, evict, stopvars>>

\* pre_park_spin: work or a stop is seen in time ...
SpinSeesWork(w) ==
    /\ Goto(w, "spin", "scan")
    /\ stopping \/ \E s \in Shards : has_work(s)
    /\ todo' = [todo EXCEPT ![w] = Shards]
    /\ UNCHANGED <<lane, owner, idle, bumped, at, processed, final, enq, evict, stopvars>>

\* Mutant: no rescan between the announcement and the sleep.
AnnounceIdle_NoRescan(w) ==
    /\ Goto(w, "spin", "sleep")
    /\ idle' = idle \cup {w}
    /\ UNCHANGED <<lane, owner, bumped, at, todo, processed, final, enq, evict, stopvars>>

\* ... or not: park() reads wake_seq and announces idle, then rescans every
\* run-queue tail, then sleeps.
AnnounceIdle(w) ==
    /\ Goto(w, "spin", "rescan")
    /\ idle' = idle \cup {w}
    /\ todo' = [todo EXCEPT ![w] = Shards]
    /\ UNCHANGED <<lane, owner, bumped, at, processed, final, enq, evict, stopvars>>

RescanShard(w, s) ==
    /\ s \in todo[w]
    /\ Goto(w, "rescan", IF has_work(s) THEN "retract" ELSE "rescan")
    /\ todo' = [todo EXCEPT ![w] = IF has_work(s) THEN {} ELSE @ \ {s}]
    /\ UNCHANGED <<lane, owner, idle, bumped, at, processed, final, enq, evict, stopvars>>

\* Mutant: park() does not look at stopping_.
RescanDone_NoStop(w) ==
    /\ todo[w] = {}
    /\ Goto(w, "rescan", "sleep")
    /\ UNCHANGED <<lane, owner, idle, bumped, at, todo, processed, final, enq, evict, stopvars>>

RescanDone(w) ==
    /\ todo[w] = {}
    /\ Goto(w, "rescan", IF stopping THEN "retract" ELSE "sleep")
    /\ UNCHANGED <<lane, owner, idle, bumped, at, todo, processed, final, enq, evict, stopvars>>

\* Found work after all, or woken: clear the idle bit and scan again.
LeavePark(w) ==
    /\ pc[w] = "retract" \/ (pc[w] = "sleep" /\ bumped[w])
    /\ Goto(w, pc[w], "scan")
    /\ idle' = idle \ {w}
    /\ bumped' = [bumped EXCEPT ![w] = FALSE]
    /\ todo' = [todo EXCEPT ![w] = Shards]
    /\ UNCHANGED <<lane, owner, at, processed, final, enq, evict, stopvars>>

-----------------------------------------------------------------------------
(* try_drain_shard and drain_run_queue.                                    *)

\* The eviction checkpoint, strictly between activations.
Checkpoint(w) ==
    /\ Goto(w, "top", IF Steal /\ req[at[w]] # 0 THEN "vacate" ELSE "select")
    /\ myreq' = [myreq EXCEPT ![w] = IF Steal THEN req[at[w]] ELSE 0]
    /\ UNCHANGED <<lane, owner, idle, bumped, at, todo, processed, final, enq, req, ack, gen,
                   seen, moved, stopvars>>

\* select() is try_pop.  First it skips a leading stub with a linked successor.
SkipStub(q) == IF Head(q) = Stub /\ Len(q) > 1 /\ Linked(q[2]) THEN Tail(q) ELSE q

\* It returned an item: the activation leaves the queue and runs, and the
\* scan will start again after this session.
RunItem(w) ==
    /\ processed' = [processed EXCEPT ![w] = TRUE]
    /\ todo' = [todo EXCEPT ![w] = Shards]
    /\ final' = [final EXCEPT ![w] = FALSE]

SelectItem(w) ==
    /\ Goto(w, "select", "run")
    /\ LET q == SkipStub(lane[at[w]]) IN
         /\ Head(q) # Stub /\ Len(q) > 1 /\ Linked(q[2])
         /\ lane' = [lane EXCEPT ![at[w]] = Tail(q)]
    /\ RunItem(w)
    /\ UNCHANGED <<owner, idle, bumped, at, enq, evict, stopvars>>

SelectEmpty(w) ==
    /\ Goto(w, "select", "wheel")
    /\ lane[at[w]] = <<Stub>>
    /\ UNCHANGED <<lane, owner, idle, bumped, at, todo, processed, final, enq, evict, stopvars>>

\* Busy: spin, back through the eviction checkpoint, or give up.
SelectBusy(w) ==
    /\ \/ Goto(w, "select", "top")
       \/ SpinsOut /\ Goto(w, "select", "wheel")
    /\ LET q == SkipStub(lane[at[w]]) IN
         /\ Len(q) > 1 /\ ~Linked(q[2])
         /\ lane' = [lane EXCEPT ![at[w]] = q]
    /\ UNCHANGED <<owner, idle, bumped, at, todo, processed, final, enq, evict, stopvars>>

\* A single node in the lane: re-arm the stub behind it ...
SelectSingle(w) ==
    /\ Goto(w, "select", "rearm")
    /\ LET q == SkipStub(lane[at[w]]) IN
         /\ Head(q) # Stub /\ Len(q) = 1
         /\ lane' = [lane EXCEPT ![at[w]] = q]
    /\ UNCHANGED <<owner, idle, bumped, at, todo, processed, final, enq, evict, stopvars>>

\* ... and behind whatever was enqueued in between ...
RearmStub(w) ==
    /\ Goto(w, "rearm", "reload")
    /\ lane' = [lane EXCEPT ![at[w]] = Append(@, Stub)]
    /\ UNCHANGED <<owner, idle, bumped, at, todo, processed, final, enq, evict, stopvars>>

\* ... and read the front node's link again.
ReloadItem(w) ==
    /\ Goto(w, "reload", "run")
    /\ Linked(lane[at[w]][2])
    /\ lane' = [lane EXCEPT ![at[w]] = Tail(@)]
    /\ RunItem(w)
    /\ UNCHANGED <<owner, idle, bumped, at, enq, evict, stopvars>>

ReloadBusy(w) ==
    /\ \/ Goto(w, "reload", "top")
       \/ SpinsOut /\ Goto(w, "reload", "wheel")
    /\ ~Linked(lane[at[w]][2])
    /\ UNCHANGED <<lane, owner, idle, bumped, at, todo, processed, final, enq, evict, stopvars>>

\* A handler posts to another activation.
HandlerPosts(w, s) ==
    /\ pc[w] = "run"
    /\ ScheduleOn(w, s)
    /\ UNCHANGED <<owner, idle, bumped, pc, at, todo, processed, final, evict, stopvars>>

\* run_activation_impl returns and the owner's progress counter moves.  The
\* activation is done with, or it yields and goes back on its own run-queue
\* with no wakeup, the worker being awake.
RunDone(w) ==
    /\ Goto(w, "run", "top")
    /\ \/ UNCHANGED <<lane, posts>>
       \/ /\ posts < MaxPosts
          /\ posts' = posts + 1
          /\ lane' = [lane EXCEPT ![at[w]] = Append(@, Item)]
    /\ moved' = [v \in Workers |-> moved[v] \/ (pc[v] = "probing" /\ at[v] = at[w])]
    /\ UNCHANGED <<owner, idle, bumped, at, todo, processed, final, epc, target, req, ack,
                   gen, myreq, seen, stopvars>>

\* advance_wheel fires a timer; also by the backstop.
WheelFires(t) ==
    /\ pc[t] = "wheel"
    /\ ScheduleOn(t, at[t])
    /\ UNCHANGED <<owner, idle, bumped, pc, at, todo, processed, final, evict, stopvars>>

\* The drain-owner close-out: release, clear a late request, probe, re-CAS.
ReleaseDrain(w) ==
    /\ Goto(w, "wheel", IF Steal THEN "clear" ELSE "probe")
    /\ owner' = [owner EXCEPT ![at[w]] = None]
    /\ UNCHANGED <<lane, idle, bumped, at, todo, processed, final, enq, evict, stopvars>>

ClearRequest(w) ==
    /\ Goto(w, "clear", "probe")
    /\ req' = [req EXCEPT ![at[w]] = 0]
    /\ UNCHANGED <<lane, owner, idle, bumped, at, todo, processed, final, enq, ack, gen, myreq,
                   seen, moved, stopvars>>

ProbeFindsWork(w) ==
    /\ Goto(w, "probe", "recas")
    /\ has_work(at[w])
    /\ UNCHANGED <<lane, owner, idle, bumped, at, todo, processed, final, enq, evict, stopvars>>

ProbeFindsNone(w) ==
    /\ Goto(w, "probe", AfterSession(w))
    /\ ~has_work(at[w])
    /\ SessionEnds(w)
    /\ UNCHANGED <<lane, owner, idle, bumped, todo, final, enq, req, ack, gen, myreq, moved,
                   stopvars>>

RetakeDrain(w) ==
    /\ Goto(w, "recas", "top")
    /\ owner[at[w]] = None
    /\ owner' = [owner EXCEPT ![at[w]] = w]
    /\ UNCHANGED <<lane, idle, bumped, at, todo, processed, final, enq, evict, stopvars>>

\* Another worker grabbed the drain and will handle the work.
RetakeFails(w) ==
    /\ Goto(w, "recas", AfterSession(w))
    /\ owner[at[w]] # None
    /\ SessionEnds(w)
    /\ UNCHANGED <<lane, owner, idle, bumped, todo, final, enq, req, ack, gen, myreq, moved,
                   stopvars>>

\* cooperative_evict: release, then clear the request, then acknowledge it.
Vacate(w) ==
    /\ Goto(w, "vacate", "vacated")
    /\ owner' = [owner EXCEPT ![at[w]] = None]
    /\ UNCHANGED <<lane, idle, bumped, at, todo, processed, final, enq, evict, stopvars>>

VacateClear(w) ==
    /\ Goto(w, "vacated", "acknowledge")
    /\ req' = [req EXCEPT ![at[w]] = 0]
    /\ UNCHANGED <<lane, owner, idle, bumped, at, todo, processed, final, enq, ack, gen, myreq,
                   seen, moved, stopvars>>

VacateAck(w) ==
    /\ Goto(w, "acknowledge", AfterSession(w))
    /\ ack' = [ack EXCEPT ![at[w]] = myreq[w]]
    /\ myreq' = [myreq EXCEPT ![w] = 0]
    /\ SessionEnds(w)
    /\ UNCHANGED <<lane, owner, idle, bumped, todo, final, enq, req, gen, moved, stopvars>>

-----------------------------------------------------------------------------
(* try_drain_shard_with_steal, the contender's half.  The miss streak is   *)
(* abstracted: any miss may be the one that reaches the threshold.         *)

\* Look at the owner and start the progress probe.
StealProbe(w) ==
    /\ Steal
    /\ Goto(w, "missed", "probing")
    /\ seen[w] = None /\ owner[at[w]] \in Workers
    /\ seen' = [seen EXCEPT ![w] = owner[at[w]]]
    /\ UNCHANGED <<lane, owner, idle, bumped, at, todo, processed, final, enq, req, ack, gen,
                   myreq, moved, stopvars>>

\* The owner made progress or changed: leave it alone.
StealBackOff(w) ==
    /\ pc[w] = "probing"
    /\ moved[w] \/ owner[at[w]] # seen[w] \/ gen[at[w]] > MaxGen
    /\ NextShard(w, "probing")

\* No progress: draw a generation ...
StealRequest(w) ==
    /\ Goto(w, "probing", "asking")
    /\ ~moved[w] /\ owner[at[w]] = seen[w] /\ gen[at[w]] <= MaxGen
    /\ gen' = [gen EXCEPT ![at[w]] = @ + 1]
    /\ myreq' = [myreq EXCEPT ![w] = gen[at[w]]]
    /\ UNCHANGED <<lane, owner, idle, bumped, at, todo, processed, final, enq, req, ack, seen,
                   moved, stopvars>>

\* ... and ask the owner, once, to vacate ...
StealPost(w) ==
    /\ Goto(w, "asking", "awaiting")
    /\ req[at[w]] = 0
    /\ req' = [req EXCEPT ![at[w]] = myreq[w]]
    /\ UNCHANGED <<lane, owner, idle, bumped, at, todo, processed, final, enq, ack, gen, myreq,
                   seen, moved, stopvars>>

\* ... unless another contender already has a request in flight.
StealRefused(w) ==
    /\ pc[w] = "asking"
    /\ req[at[w]] # 0
    /\ NextShard(w, "asking")

\* Mutant: the contender takes the slot without the CAS once it is acknowledged.
StealTake_Force(w) ==
    /\ Goto(w, "awaiting", "top")
    /\ ack[at[w]] = myreq[w] \/ owner[at[w]] = None
    /\ owner' = [owner EXCEPT ![at[w]] = w]
    /\ myreq' = [myreq EXCEPT ![w] = 0]
    /\ moved' = [moved EXCEPT ![w] = FALSE]
    /\ UNCHANGED <<lane, idle, bumped, at, todo, processed, final, enq, req, ack, gen, seen,
                   stopvars>>

\* Acknowledged, or the slot is free: the ordinary CAS decides who drains.
StealTake(w) ==
    /\ Goto(w, "awaiting", "top")
    /\ owner[at[w]] = None
    /\ owner' = [owner EXCEPT ![at[w]] = w]
    /\ myreq' = [myreq EXCEPT ![w] = 0]
    /\ moved' = [moved EXCEPT ![w] = FALSE]
    /\ UNCHANGED <<lane, idle, bumped, at, todo, processed, final, enq, req, ack, gen, seen,
                   stopvars>>

\* The CAS lost to somebody else, or the ack spin ran out: "skip, never block".
StealTimeout(w) == NextShard(w, "awaiting")

-----------------------------------------------------------------------------
(* The backstop thread and stop().                                         *)

\* A round over all shards begins, unless the engine is stopping.
BackstopRound ==
    /\ Goto(Backstop, "sleep", IF stopping THEN "exited" ELSE "round")
    /\ todo' = [todo EXCEPT ![Backstop] = IF stopping THEN {} ELSE Shards]
    /\ UNCHANGED <<lane, owner, idle, bumped, at, processed, final, enq, evict, stopvars>>

\* backstop_tick_shard: take the drain slot if it is free ...
BackstopVisit(s) ==
    /\ s \in todo[Backstop]
    /\ Goto(Backstop, "round", "wheel")
    /\ owner[s] = None
    /\ owner' = [owner EXCEPT ![s] = Backstop]
    /\ at' = [at EXCEPT ![Backstop] = s]
    /\ todo' = [todo EXCEPT ![Backstop] = @ \ {s}]
    /\ UNCHANGED <<lane, idle, bumped, processed, final, enq, evict, stopvars>>

\* ... skip the shard if it is not ...
BackstopSkip(s) ==
    /\ s \in todo[Backstop]
    /\ Goto(Backstop, "round", "round")
    /\ owner[s] # None
    /\ todo' = [todo EXCEPT ![Backstop] = @ \ {s}]
    /\ UNCHANGED <<lane, owner, idle, bumped, at, processed, final, enq, evict, stopvars>>

\* ... tick the wheel and release; the run-queue is not looked at.
BackstopRelease ==
    /\ Goto(Backstop, "wheel", "round")
    /\ owner' = [owner EXCEPT ![at[Backstop]] = None]
    /\ at' = [at EXCEPT ![Backstop] = None]
    /\ UNCHANGED <<lane, idle, bumped, todo, processed, final, enq, evict, stopvars>>

BackstopSleep ==
    /\ todo[Backstop] = {}
    /\ Goto(Backstop, "round", "sleep")
    /\ UNCHANGED <<lane, owner, idle, bumped, at, todo, processed, final, enq, evict, stopvars>>

\* stop(): set the flag, then bump every worker.  Callers have finished
\* posting; handlers and timers may still be at it.
Stop ==
    /\ MayStop /\ ~stopping
    /\ \A p \in Producers : epc[p] = "no"
    /\ stopping' = TRUE
    /\ towake' = Workers
    /\ UNCHANGED <<lane, owner, idle, bumped, pc, at, todo, processed, final, enq, evict>>

WakeAll(w) ==
    /\ w \in towake
    /\ towake' = towake \ {w}
    /\ Bump(w)
    /\ UNCHANGED <<lane, owner, idle, pc, at, todo, processed, final, enq, evict, stopping>>

EnqueueStep(t) == EnqueueLink(t) \/ WakePick(t) \/ WakeBump(t)

WorkerStep(w) ==
    \/ \E s \in Shards : VisitShard(w, s) \/ RescanShard(w, s)
    \/ SkipShard(w) \/ ScanFoundNothing(w) \/ SpinSeesWork(w)
    \/ AnnounceIdle(w) \/ RescanDone(w) \/ LeavePark(w)
    \/ Checkpoint(w) \/ SelectItem(w) \/ SelectEmpty(w) \/ SelectBusy(w) \/ SelectSingle(w)
    \/ RearmStub(w) \/ ReloadItem(w) \/ ReloadBusy(w) \/ RunDone(w)
    \/ ReleaseDrain(w) \/ ClearRequest(w) \/ ProbeFindsWork(w) \/ ProbeFindsNone(w)
    \/ RetakeDrain(w) \/ RetakeFails(w)
    \/ Vacate(w) \/ VacateClear(w) \/ VacateAck(w)
    \/ StealProbe(w) \/ StealBackOff(w) \/ StealRequest(w) \/ StealPost(w)
    \/ StealRefused(w) \/ StealTake(w) \/ StealTimeout(w)

BackstopStep == \/ \E s \in Shards : BackstopVisit(s) \/ BackstopSkip(s)
                \/ BackstopRound \/ BackstopRelease \/ BackstopSleep

Next == \/ \E p \in Producers, s \in Shards : Post(p, s)
        \/ \E t \in Threads : EnqueueStep(t)
        \/ \E w \in Workers : WorkerStep(w) \/ WheelFires(w) \/ WakeAll(w)
        \/ \E w \in Workers, s \in Shards : HandlerPosts(w, s)
        \/ BackstopStep \/ WheelFires(Backstop)
        \/ Stop

Spec == Init /\ [][Next]_vars

\* Every thread is scheduled; nobody has to post or stop.  The backstop's
\* rounds are idle_tick_ms apart, ages for a worker that scans: it cannot
\* meet every visit of every worker with the slot in its hands.  Untimed,
\* that is: any number of rounds, then quiet.
Fairness == /\ \A t \in Threads : WF_vars(EnqueueStep(t))
            /\ \A w \in Workers : WF_vars(WorkerStep(w)) /\ WF_vars(WakeAll(w))
            /\ WF_vars(BackstopStep /\ (pc[Backstop] # "sleep" \/ stopping))
            /\ <>[](pc[Backstop] \in {"sleep", "exited"})

FairSpec == Spec /\ Fairness
-----------------------------------------------------------------------------

WorkerPCs == {"scan", "missed", "spin", "rescan", "retract", "sleep", "exited", "top",
              "select", "rearm", "reload", "run", "wheel", "clear", "probe", "recas", "vacate",
              "vacated", "acknowledge", "probing", "asking", "awaiting"}

\* The state of the workers, of the shards and of the eviction handshake has
\* its types; a contender never takes the backstop's slot for a worker's
\* (try_drain_shard_with_steal).
TypeOK == /\ lane \in [Shards -> Seq(Threads \cup {Stub, Item})]
          /\ owner \in [Shards -> Workers \cup {Backstop, None}]
          /\ idle \subseteq Workers
          /\ bumped \in [Workers -> BOOLEAN]
          /\ pc \in [Workers \cup {Backstop} -> WorkerPCs \cup {"round"}]
          /\ at \in [Workers \cup {Backstop} -> Shards \cup {None}]
          /\ todo \in [Workers \cup {Backstop} -> SUBSET Shards]
          /\ processed \in [Workers -> BOOLEAN]
          /\ final \in [Workers -> BOOLEAN]
          /\ epc \in [Threads -> {"no", "link", "wake", "bump"}]
          /\ target \in [Threads -> Shards \cup Workers \cup {None}]
          /\ posts \in 0..MaxPosts
          /\ req \in [Shards -> Nat] /\ ack \in [Shards -> Nat] /\ gen \in [Shards -> Nat]
          /\ myreq \in [Workers -> Nat]
          /\ seen \in [Workers -> Workers \cup {None}]
          /\ moved \in [Workers -> BOOLEAN]
          /\ stopping \in BOOLEAN
          /\ towake \subseteq Workers

\* Threads that touch the single-consumer side of their shard's run-queue or
\* its timer wheel.
DrainPCs == {"top", "select", "rearm", "reload", "run", "wheel", "vacate"}

\* Those structures are "never touched by two threads at once in any
\* interleaving" (engine.hpp, cooperative_evict): whoever is inside a drain
\* session owns the slot, also when it was handed over by an eviction.
DrainExclusive ==
    \A t \in Workers \cup {Backstop} : pc[t] \in DrainPCs => owner[at[t]] = t

\* No lost wakeup: when every worker sleeps unwoken, no shard has work that
\* nobody is about to announce (park's announce-then-rescan against
\* schedule_and_wake's enqueue-then-look).
SleepersHaveNoWork ==
    (\A w \in Workers : pc[w] = "sleep" /\ ~bumped[w])
      => \/ \A s \in Shards : ~Queued(s)
         \/ \E t \in Threads : epc[t] \in {"link", "wake", "bump"}

\* The rendezvous itself, whatever the probe stands for: a shard whose tail
\* is off the stub is never left to sleeping workers that nobody will wake.
SleepersSawNoTail ==
    (\A w \in Workers : pc[w] = "sleep" /\ ~bumped[w])
      => \/ \A s \in Shards : ~has_work(s)
         \/ \E t \in Threads : epc[t] \in {"link", "wake", "bump"}

\* The scheduling loop through every hand-over of a shard's drain slot (worker,
\* contender, backstop: StealTake, the release and the acknowledgement): one
\* thread at a time holds it, and whoever went to sleep saw every tail that had
\* moved by then (announce, re-scan, sleep).
SchedulerSafe == TypeOK /\ DrainExclusive /\ SleepersSawNoTail
=============================================================================
