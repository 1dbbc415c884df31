------------------------------ MODULE MCQueues -------------------------------
(* The shared structures of the core, in one instance: an actor's mailbox   *)
(* with a few producers and a small set of descriptors, a shard's run-queue *)
(* with four activations spread over three bands, or the message pool with  *)
(* the magazines of two threads.  They share no state; an initial state     *)
(* chooses which of the three is exercised and the others stay as they were *)
(* constructed.                                                             *)
EXTENDS Mailbox, TLC

CONSTANTS a, b, c, d, K, M

\* One activation in the top band, one in the middle, two in the last.
ThreeBands == (a :> 0) @@ (b :> 1) @@ (c :> 2) @@ (d :> 2)

VARIABLES lane, unlinked, pitem, spc, mask, band, sawbusy, turn, cursor, rstatus, taken, waits,
          home, free, mag, flight, at, live, env, touched,
          exercised  \* "mailbox", "runqueue" or "pool"

RQ == INSTANCE RunQueue WITH Acts <- {a, b, c, d}, Band <- ThreeBands, status <- rstatus

ASSUME RunQueueConstants == RQ!BandsAssumption /\ RQ!StubAssumption

MessagePool == INSTANCE MessagePool WITH
    Threads <- {0, 1}, Parts <- 2, Slots <- 1, KCap <- 2, Batch <- 2, MaxCells <- 3,
    RacingEnd <- FALSE

rqvars == <<lane, unlinked, pitem, spc, mask, band, sawbusy, turn, cursor, rstatus, taken, waits>>
poolvars == <<home, free, mag, flight, at, live, env, touched>>

InitQueues == Init /\ RQ!Init /\ MessagePool!PoolInit /\ exercised \in {"mailbox", "runqueue", "pool"}

\* Only the bound on the cells keeps a thread from growing one.
HeldByBound == /\ Cardinality(DOMAIN home) = 3 /\ \E t \in {0, 1} : at[t].op = "steal"
               /\ UNCHANGED poolvars

NextQueues == /\ \/ exercised = "mailbox" /\ Next /\ UNCHANGED <<rqvars, poolvars>>
                 \/ exercised = "runqueue" /\ RQ!Next /\ UNCHANGED <<vars, poolvars>>
                 \/ exercised = "pool" /\ (MessagePool!PoolNext \/ HeldByBound) /\ UNCHANGED <<vars, rqvars>>
              /\ UNCHANGED exercised

\* Only the mailbox has a liveness property, so only its threads are fair.
SpecQueues == InitQueues /\ [][NextQueues]_<<vars, rqvars, poolvars, exercised>> /\ Fairness

\* The mailbox's intrusive chain reaches from head_ to tail_ over links that are
\* written or in a producer's hands, and the tail-only probe is exact where the
\* close-out asks it (link_push, try_dequeue, probe_has_work).  Every lane of the
\* run-queue keeps one stub and each activation once (ActivationMpsc::try_pop),
\* and RotatingReserve passes no visible band over K * M times in a row
\* (BandedRunQueue::select).  A pooled cell is in exactly one place, and no dead
\* pool is touched (acquire, release, the flush at thread exit).
QueuesWellFormed ==
    /\ TypeOK /\ ChainReachesTail /\ ProbeCompleteAfterEmpty
    /\ RQ!TypeOK /\ RQ!LanesWellFormed /\ RQ!StarvationBound
    /\ MessagePool!CellsInOnePlace /\ MessagePool!NoDeadTouch

\* Whatever is interleaved the structures stay well formed, and what a producer
\* published is eventually handed out, although a descriptor is reused as soon
\* as it is (try_dequeue and the owner that keeps draining).
QueuesDeliver == []QueuesWellFormed /\ EventuallyDequeued
=============================================================================
