----------------------------- MODULE MCRuntime -----------------------------
(* The scheduling loop with cooperative eviction, one Reentrant activation    *)
(* and one Sequential one, on small instances.  They share no state; an       *)
(* initial state chooses the one that runs, and v1, v2, ... are the variables *)
(* of the activation.  MCRuntime.cfg checks what never happens in the loop    *)
(* and the reentrant lane; MCRuntime_live.cfg what must eventually happen in  *)
(* the loop and the sequential one, each under its own fairness.              *)
EXTENDS Scheduler, TLC

CONSTANTS quiescer, sibling,         \* the messages of an activation
          p1, p2, w, c1, c2, deact   \* the threads of the sequential one

VARIABLE exercised  \* the machine whose steps this behaviour takes
VARIABLES v1, v2, v3, v4, v5, v6, v7, v8, v9, v10, v11, v12, v13, v14

Idle == 0  \* a variable the machine has no use for

Re == INSTANCE Reentrant WITH
    Producers <- {"p"}, Carriers <- {"c"}, Monitors <- {"w"},
    Msgs <- {quiescer, sibling}, Quiescers <- {quiescer},
    Faulty <- {sibling}, Stubborn <- {}, Cap <- 2, Budget <- 1, MaxAwaits <- 3,
    Policies <- {"Restart", "Stop"}, RestartLimits <- {1}, MaxPauses <- 1,
    MaxStops <- 1, exec <- v1, queue <- v2, runq <- v3, pc <- v4, item <- v5,
    remaining <- v6, rc <- v7, guard <- v8, awaits <- v9, mst <- v10,
    pauses <- v11, stops <- v12

Act == INSTANCE Activation WITH
    Producers <- {p1, p2}, Workers <- {w}, Carriers <- {c1, c2}, Msgs <- {sibling},
    Deact <- deact, Budget <- 1, MaxAwaits <- 3, Decisions <- {"Resume"},
    exec <- v1, queue <- v2, runq <- v3, pc <- v4, item <- v5, remaining <- v6,
    retire <- v7, token <- v8, frame <- v9, parked <- v10, awaits <- v11,
    stopped <- v12, mst <- v13, reclaims <- v14

actVars == <<v1, v2, v3, v4, v5, v6, v7, v8, v9, v10, v11, v12, v13, v14>>
allVars == <<exercised, vars, actVars>>

InitScheduler ==
    /\ exercised = "scheduler" /\ Init
    /\ v1 = Idle /\ v2 = Idle /\ v3 = Idle /\ v4 = Idle /\ v5 = Idle /\ v6 = Idle
    /\ v7 = Idle /\ v8 = Idle /\ v9 = Idle /\ v10 = Idle /\ v11 = Idle
    /\ v12 = Idle /\ v13 = Idle /\ v14 = Idle
InitReentrant == exercised = "reentrant" /\ Init /\ Re!Init /\ v13 = Idle /\ v14 = Idle
InitSequential == exercised = "sequential" /\ Init /\ Act!Init

SchedulerDoes(A) == exercised = "scheduler" /\ A /\ UNCHANGED <<exercised, actVars>>
ReentrantStep == exercised = "reentrant" /\ Re!Next /\ UNCHANGED <<exercised, v13, v14, vars>>
SequentialDoes(A) == exercised = "sequential" /\ A /\ UNCHANGED <<exercised, vars>>
\* Only the reentrant activation may come to rest: its actor was stopped.
ReentrantRests == exercised = "reentrant" /\ UNCHANGED allVars

NextRuntime == SchedulerDoes(Next) \/ ReentrantStep \/ ReentrantRests

SpecRuntime == (InitScheduler \/ InitReentrant) /\ [][NextRuntime]_allVars

NextLive == SchedulerDoes(Next) \/ SequentialDoes(Act!Next)

\* The fairness of Scheduler!Fairness and of Activation!Fairness.
SpecLive ==
    /\ InitScheduler \/ InitSequential
    /\ [][NextLive]_allVars
    /\ \A t \in Threads : WF_allVars(SchedulerDoes(EnqueueStep(t)))
    /\ \A t \in Workers : WF_allVars(SchedulerDoes(WorkerStep(t))) /\ WF_allVars(SchedulerDoes(WakeAll(t)))
    /\ WF_allVars(SchedulerDoes(BackstopStep /\ (pc[Backstop] # "sleep" \/ stopping)))
    /\ <>[](pc[Backstop] \in {"sleep", "exited"})
    /\ \A t \in {p1, p2} : WF_allVars(SequentialDoes(Act!PostStep(t)))
    /\ WF_allVars(SequentialDoes(Act!WorkerStep(w)))
    /\ \A t \in {c1, c2} : WF_allVars(SequentialDoes(Act!CarrierStep(t)))

\* Workers are alike, and so are shards.
Symmetry == Permutations(Workers) \cup Permutations(Shards)
-----------------------------------------------------------------------------
\* One reentrant lane (core/activation.hpp), paused, resumed and stopped at any
\* time: every frame in flight is in exactly one place; the frame with the guard
\* is the only one and the gate stays shut; a restart episode keeps the gate shut
\* until the last sibling has left; and a frame made ready on a parked lane has
\* somebody who brings it back.
LaneSafe == exercised = "reentrant" => Re!ReentrantSafe

InScheduler == exercised = "scheduler"

\* Work is taken up. In the scheduling loop a queued activation is run by
\* somebody, as long as threads run and no producer stalls, unless the engine
\* stops; in an activation a posted message is settled: handled, dead-lettered,
\* or reclaimed as a tombstone, also when it races a park, a close-out or an
\* eviction (worker_loop, park, wake; drain_step, close_out).
WorkIsTakenUp ==
    \A s \in Shards : (IF InScheduler THEN Queued(s) ELSE v13[sibling] = "queued")
                      ~> (IF InScheduler THEN ~Queued(s) \/ stopping ELSE v14[sibling] = 1)

\* An end that was asked for is reached: stop() brings every worker and the
\* backstop out of its loop, and a passivation that was posted is taken by the
\* drain (stop; post_passivate).
EndsAreReached ==
    (IF InScheduler THEN stopping ELSE v8)
    ~> (IF InScheduler THEN \A t \in Workers \cup {Backstop} : pc[t] = "exited" ELSE ~v8)
=============================================================================
