------------------------------ MODULE Reentrant ------------------------------
(***************************************************************************)
(* The lane of a reentrant activation (activation.hpp, 015): handlers in   *)
(* flight, carriers that complete their awaits, the admission gate with    *)
(* quiescence, and what a fault does to the handlers in flight (007).      *)
(*                                                                         *)
(* `rc` is the struct ReCore with the supervision fields.  The operators   *)
(* on it keep the names of the member functions and take and give such a   *)
(* record; a step of the lane applies one of them.  This is sound because  *)
(* nobody else touches `live`, `waiter` or the supervision fields, and the *)
(* others meet the lane only at `suspended` and `ready` (under the mutex), *)
(* at `actions` and at the Open/Paused edge of the seal.                   *)
(*                                                                         *)
(* One lane thread stands for all workers: a shard's drain slot lets one   *)
(* of them at a time run its activations (DrainExclusive of Scheduler).    *)
(* A frame is named by its message.                                        *)
(***************************************************************************)
EXTENDS Naturals, Sequences, FiniteSets, Functions

CONSTANTS Producers,    \* threads that post
          Carriers,     \* threads on which awaits operations complete
          Monitors,     \* watchdog and administration threads
          Msgs,         \* message descriptors, each posted at most once
          Quiescers,    \* messages whose handler may call quiesce()
          Faulty,       \* messages whose handler may throw
          Stubborn,     \* messages whose handler may await after it was told to stop
          None,         \* nullptr
          Cap,          \* MaxConcurrency<N>
          Budget,       \* dispatches per drain_step
          Policies,     \* supervision directives, one of them configured
          RestartLimits,\* values of max_restarts, one of them configured
          MaxAwaits,    \* bound on the co_awaits of all handlers together
          MaxPauses,    \* bound on pause_admission calls
          MaxStops      \* bound on request_stop calls

Lane == "lane"
Outside == Producers \cup Carriers \cup Monitors
Threads == Outside \cup {Lane}

ASSUME OutsideDisjoint == /\ Lane \notin Outside
                          /\ Producers \cap Carriers = {}
                          /\ Producers \cap Monitors = {}
                          /\ Carriers \cap Monitors = {}
ASSUME MsgsAssumption == /\ None \notin Msgs
                         /\ Quiescers \subseteq Msgs
                         /\ Faulty \subseteq Msgs
                         /\ Stubborn \subseteq Msgs
ASSUME LimitsAssumption == /\ Cap \in Nat \ {0}
                           /\ Budget \in Nat \ {0}
                           /\ RestartLimits \subseteq Nat
                           /\ MaxAwaits \in Nat
                           /\ MaxPauses \in Nat
                           /\ MaxStops \in Nat
ASSUME PoliciesAssumption == Policies \subseteq {"Resume", "Restart", "Stop", "Escalate"}

VARIABLES exec,       \* ExecStateCell::s_
          queue,      \* the mailbox, in exchange order
          runq,       \* run-queue entries for this activation
          pc,         \* where each thread is
          item,       \* the message each thread works on
          remaining,  \* drain_step_reentrant's local
          rc,         \* *rc_ and the supervision state
          guard,      \* the frame that holds a QuiescenceGuard
          awaits,     \* co_awaits so far
          mst,        \* what became of each message
          pauses,     \* pause_admission calls so far
          stops       \* request_stop calls so far

vars == <<exec, queue, runq, pc, item, remaining, rc, guard, awaits, mst, pauses, stops>>

Init == /\ exec = "Idle"
        /\ queue = <<>>
        /\ runq = 0
        /\ pc = [t \in Threads |-> "idle"]
        /\ item = [t \in Threads |-> None]
        /\ remaining = 0
        /\ \E p \in Policies, n \in RestartLimits :
              rc = [live |-> {}, suspended |-> <<>>, ready |-> <<>>, waiter |-> None,
                    seal |-> "Open", armed |-> FALSE, actions |-> {}, told |-> {},
                    restarting |-> FALSE, stopped |-> FALSE, count |-> 0,
                    decision |-> p, max_restarts |-> n]
        /\ guard = None
        /\ awaits = 0
        /\ mst = [m \in Msgs |-> "new"]
        /\ pauses = 0
        /\ stops = 0

\* Every place a thread can be at.
PCs == {"idle", "link", "load", "cas", "schedule", "readmit", "readmit_only", "escalate",
        "acts", "ready", "admitted", "resumed", "gate", "pending", "decide", "park", "probe",
        "probe_ready", "reacquire", "yield", "relinquish", "probe_idle", "reacquire_idle"}

Goto(t, from, to) == pc[t] = from /\ pc' = [pc EXCEPT ![t] = to]

Cas(t, from, expected, desired, won, lost) ==
    /\ Goto(t, from, IF exec = expected THEN won ELSE lost)
    /\ exec' = IF exec = expected THEN desired ELSE exec

bounds == <<pauses, stops>>
handlers == <<guard, awaits, mst>>

-----------------------------------------------------------------------------
(* Member functions of the lane, as functions on the record.               *)

\* Tell every frame in flight to stop and hand the suspended ones back.
fire_cancel_all(c) == [c EXCEPT !.told = @ \cup c.live,
                                !.ready = @ \o c.suspended,
                                !.suspended = <<>>]

remove_live(c, f) == [c EXCEPT !.live = @ \ {f}, !.told = @ \ {f}]

\* When the waiter is the only frame left, it resumes on the lane.
maybe_resume_waiter(c) ==
    IF c.seal # "Open" /\ c.waiter # None /\ c.live = {c.waiter}
    THEN [c EXCEPT !.waiter = None, !.ready = Append(@, c.waiter)]
    ELSE c

release_seal(c) == [c EXCEPT !.seal = "Open", !.armed = FALSE]

\* The last frame of a restart episode left: rebuild the actor, reopen.
finish_restart_if_drained(c) ==
    IF c.restarting /\ c.live = {}
    THEN [c EXCEPT !.restarting = FALSE, !.seal = "Open", !.armed = FALSE]
    ELSE c

\* Stop is not undone; posts to come are dead-lettered by admit.
do_stop(c) == [c EXCEPT !.stopped = TRUE, !.restarting = FALSE, !.told = @ \cup c.live]

\* Charge the restart budget; refill tells that a new window has begun.
charge_restart(c, refill) == [c EXCEPT !.count = IF refill THEN 1 ELSE @ + 1]

\* quiesce(Cancel), and the rebuild once the siblings are gone.  An episode in
\* progress absorbs the fault; an exhausted budget escalates, that is stops.
do_restart_reentrant(c, refill) ==
    LET d == charge_restart(c, refill) IN
    IF c.restarting THEN c
    ELSE IF d.count > c.max_restarts THEN do_stop(d)
    ELSE finish_restart_if_drained(
           fire_cancel_all([d EXCEPT !.restarting = TRUE, !.seal = "Cancelling"]))

complete_and_remove(c, f) ==
    finish_restart_if_drained(maybe_resume_waiter(remove_live(c, f)))

on_fault_reentrant(c, f, refill) ==
    LET d == remove_live(c, f) IN
    finish_restart_if_drained(
        CASE c.decision = "Resume" -> d
          [] c.decision = "Restart" -> do_restart_reentrant(d, refill)
          [] c.decision \in {"Stop", "Escalate"} -> do_stop(d))

\* Mutant: the escalation seals but does not hand the suspended frames back.
apply_lane_actions_SealOnly(c) ==
    LET d == [c EXCEPT !.actions = {},
                       !.told = IF "StopAll" \in c.actions THEN @ \cup c.live ELSE @]
    IN IF "EscalateCancel" \in c.actions /\ c.seal = "Draining"
       THEN [d EXCEPT !.seal = "Cancelling"]
       ELSE d

\* The signals raised off the lane: stop everybody, Drain becomes Cancel.
apply_lane_actions(c) ==
    LET d == [c EXCEPT !.actions = {},
                       !.told = IF "StopAll" \in c.actions THEN @ \cup c.live ELSE @]
    IN IF "EscalateCancel" \in c.actions /\ c.seal = "Draining"
       THEN fire_cancel_all([d EXCEPT !.seal = "Cancelling"])
       ELSE d

\* Seal the gate, as a handler of the actor asks for it.
begin_quiesce(c, mode) ==
    IF mode = "Cancel" THEN fire_cancel_all([c EXCEPT !.seal = "Cancelling"])
                       ELSE [c EXCEPT !.seal = "Draining"]

\* Mutant: the calling frame is not counted among those in flight.
no_siblings_OffByOne(c) == Cardinality(c.live) - 1 <= 1

\* begin_quiesce's answer: the calling frame is itself in flight.
no_siblings(c) == Cardinality(c.live) <= 1

-----------------------------------------------------------------------------
(* Producers.                                                              *)

Unlinked == {item[p] : p \in {q \in Producers : pc[q] = "link"}}

PostExchange(p, m) ==
    /\ Goto(p, "idle", "link")
    /\ mst[m] = "new"
    /\ mst' = [mst EXCEPT ![m] = "queued"]
    /\ item' = [item EXCEPT ![p] = m]
    /\ queue' = Append(queue, m)
    /\ UNCHANGED <<exec, runq, remaining, rc, guard, awaits, bounds>>

PostLink(p) ==
    /\ Goto(p, "link", "load")
    /\ item' = [item EXCEPT ![p] = None]
    /\ UNCHANGED <<exec, queue, runq, remaining, rc, handlers, bounds>>

\* notify_enqueued_fast: only Idle is woken, Parked is left to the carriers.
WakeLoad(p) ==
    /\ Goto(p, "load", IF exec = "Idle" THEN "cas" ELSE "idle")
    /\ UNCHANGED <<exec, queue, runq, item, remaining, rc, handlers, bounds>>

WakeCas(p) ==
    /\ Cas(p, "cas", "Idle", "Scheduled", "schedule", "idle")
    /\ UNCHANGED <<queue, runq, item, remaining, rc, handlers, bounds>>

Schedule(t) ==
    /\ Goto(t, "schedule", "idle")
    /\ runq' = runq + 1
    /\ UNCHANGED <<exec, queue, item, remaining, rc, handlers, bounds>>

\* MessageHandle::cancel: a queued message becomes a tombstone.
Cancel(m) ==
    /\ mst[m] = "queued"
    /\ mst' = [mst EXCEPT ![m] = "cancelled"]
    /\ UNCHANGED <<exec, queue, runq, pc, item, remaining, rc, guard, awaits, bounds>>

-----------------------------------------------------------------------------
(* Carriers and monitors.                                                  *)

\* complete_one, under the mutex: the oldest suspended frame becomes ready.
CompleteOne(t) ==
    /\ Goto(t, "idle", "readmit")
    /\ rc.suspended # <<>>
    /\ rc' = [rc EXCEPT !.suspended = Tail(@), !.ready = Append(@, Head(rc.suspended))]
    /\ UNCHANGED <<exec, queue, runq, item, remaining, handlers, bounds>>

\* readmit_from_parked: the winner enqueues the activation.
Readmit(t) ==
    /\ Cas(t, "readmit", "Parked", "Scheduled", "schedule", "idle")
    /\ UNCHANGED <<queue, runq, item, remaining, rc, handlers, bounds>>

\* poll_quiesce_watchdog past the deadline of a Drain: two loads, ...
PollWatchdog(t) ==
    /\ Goto(t, "idle", "escalate")
    /\ rc.seal = "Draining" /\ rc.armed
    /\ UNCHANGED <<exec, queue, runq, item, remaining, rc, handlers, bounds>>

\* ... the signal, and then the re-admit.
RaiseEscalate(t) ==
    /\ Goto(t, "escalate", "readmit")
    /\ rc' = [rc EXCEPT !.actions = @ \cup {"EscalateCancel"}]
    /\ UNCHANGED <<exec, queue, runq, item, remaining, handlers, bounds>>

pause_admission ==
    /\ pauses < MaxPauses
    /\ pauses' = pauses + 1
    /\ rc' = [rc EXCEPT !.seal = IF @ = "Open" THEN "Paused" ELSE @]
    /\ UNCHANGED <<exec, queue, runq, pc, item, remaining, handlers, stops>>

resume_admission ==
    /\ rc.seal = "Paused"
    /\ rc' = [rc EXCEPT !.seal = "Open"]
    /\ UNCHANGED <<exec, queue, runq, pc, item, remaining, handlers, bounds>>

\* request_stop: the signal ...
RequestStop(t) ==
    /\ Goto(t, "idle", "readmit_only")
    /\ stops < MaxStops
    /\ stops' = stops + 1
    /\ rc' = [rc EXCEPT !.actions = @ \cup {"StopAll"}]
    /\ UNCHANGED <<exec, queue, runq, item, remaining, handlers, pauses>>

\* ... and a re-admit whose answer, the duty to enqueue, is dropped.
ReadmitOnly(t) ==
    /\ Cas(t, "readmit_only", "Parked", "Scheduled", "idle", "idle")
    /\ UNCHANGED <<queue, runq, item, remaining, rc, handlers, bounds>>

-----------------------------------------------------------------------------
(* The lane: drain_step_reentrant.                                         *)

TryAcquire ==
    /\ Goto(Lane, "idle", "acts")
    /\ runq > 0 /\ exec = "Scheduled"
    /\ runq' = runq - 1
    /\ exec' = "Running"
    /\ remaining' = Budget
    /\ UNCHANGED <<queue, item, rc, handlers, bounds>>

LaneActions ==
    /\ Goto(Lane, "acts", "ready")
    /\ rc' = apply_lane_actions(rc)
    /\ UNCHANGED <<exec, queue, runq, item, remaining, handlers, bounds>>

\* drain_ready: pop a frame and resume it; the waiter resumes to its guard.
ResumeReady ==
    /\ Goto(Lane, "ready", "resumed")
    /\ rc.ready # <<>>
    /\ LET f == Head(rc.ready) IN
         /\ item' = [item EXCEPT ![Lane] = f]
         /\ guard' = IF mst[f] = "waiting" THEN f ELSE guard
         /\ mst' = IF mst[f] = "waiting" THEN [mst EXCEPT ![f] = "live"] ELSE mst
    /\ rc' = [rc EXCEPT !.ready = Tail(@)]
    /\ UNCHANGED <<exec, queue, runq, remaining, awaits, bounds>>

ReadyDrained ==
    /\ Goto(Lane, "ready", "gate")
    /\ rc.ready = <<>>
    /\ UNCHANGED <<exec, queue, runq, item, remaining, rc, handlers, bounds>>

Admissible == rc.seal = "Open" /\ Cardinality(rc.live) < Cap

CanTake == queue # <<>> /\ Head(queue) \notin Unlinked

\* BudgetExhausted, or Busy.
GiveUpTurn ==
    /\ Goto(Lane, "gate", "yield")
    /\ Admissible
    /\ remaining = 0 \/ Unlinked # {}
    /\ UNCHANGED <<exec, queue, runq, item, remaining, rc, handlers, bounds>>

\* admit, no dispatch: a tombstone, or any message of a stopped actor.
AdmitNothing ==
    /\ Goto(Lane, "gate", "acts")
    /\ Admissible /\ remaining > 0 /\ CanTake
    /\ rc.stopped \/ mst[Head(queue)] = "cancelled"
    /\ mst' = [mst EXCEPT ![Head(queue)] = IF @ = "cancelled" THEN "freed" ELSE "dead"]
    /\ queue' = Tail(queue)
    /\ remaining' = remaining - 1
    /\ UNCHANGED <<exec, runq, item, rc, guard, awaits, bounds>>

\* admit: the frame is in flight before its handler starts.
Admit ==
    /\ Goto(Lane, "gate", "admitted")
    /\ Admissible /\ remaining > 0 /\ CanTake
    /\ ~rc.stopped /\ mst[Head(queue)] = "queued"
    /\ mst' = [mst EXCEPT ![Head(queue)] = "live"]
    /\ item' = [item EXCEPT ![Lane] = Head(queue)]
    /\ rc' = [rc EXCEPT !.live = @ \cup {Head(queue)}]
    /\ queue' = Tail(queue)
    /\ remaining' = remaining - 1
    /\ UNCHANGED <<exec, runq, guard, awaits, bounds>>

\* Sealed, at the cap, or Empty.
NoAdmission ==
    /\ Goto(Lane, "gate", "pending")
    /\ ~Admissible \/ (remaining > 0 /\ queue = <<>>)
    /\ UNCHANGED <<exec, queue, runq, item, remaining, rc, handlers, bounds>>

PendingReady ==
    /\ Goto(Lane, "pending", IF rc.ready # <<>> THEN "acts" ELSE "decide")
    /\ UNCHANGED <<exec, queue, runq, item, remaining, rc, handlers, bounds>>

\* Quiescent and open: DrainedEmpty.  Otherwise the lane parks.
Decide ==
    /\ Goto(Lane, "decide", IF rc.live = {} /\ rc.seal = "Open" THEN "relinquish" ELSE "park")
    /\ UNCHANGED <<exec, queue, runq, item, remaining, rc, handlers, bounds>>

ParkSc ==
    /\ Goto(Lane, "park", "probe")
    /\ exec' = "Parked"
    /\ UNCHANGED <<queue, runq, item, remaining, rc, handlers, bounds>>

ProbeAdmittable ==
    /\ Goto(Lane, "probe", IF Admissible /\ queue # <<>> THEN "reacquire" ELSE "probe_ready")
    /\ UNCHANGED <<exec, queue, runq, item, remaining, rc, handlers, bounds>>

ProbeReady ==
    /\ Goto(Lane, "probe_ready", IF rc.ready # <<>> THEN "reacquire" ELSE "idle")
    /\ UNCHANGED <<exec, queue, runq, item, remaining, rc, handlers, bounds>>

\* reacquire_from_parked, or Suspended: somebody else will run the lane.
ReacquireParked ==
    /\ Cas(Lane, "reacquire", "Parked", "Running", "acts", "idle")
    /\ UNCHANGED <<queue, runq, item, remaining, rc, handlers, bounds>>

YieldToScheduled ==
    /\ Goto(Lane, "yield", "schedule")
    /\ exec' = "Scheduled"
    /\ UNCHANGED <<queue, runq, item, remaining, rc, handlers, bounds>>

\* close_out: store Idle, probe the mailbox, try to get the lane back.
ReleaseToIdle ==
    /\ Goto(Lane, "relinquish", "probe_idle")
    /\ exec' = "Idle"
    /\ UNCHANGED <<queue, runq, item, remaining, rc, handlers, bounds>>

ProbeIdle ==
    /\ Goto(Lane, "probe_idle", IF queue = <<>> THEN "idle" ELSE "reacquire_idle")
    /\ UNCHANGED <<exec, queue, runq, item, remaining, rc, handlers, bounds>>

ReacquireIdle ==
    /\ Cas(Lane, "reacquire_idle", "Idle", "Running", "acts", "idle")
    /\ remaining' = IF exec = "Idle" THEN Budget ELSE remaining
    /\ UNCHANGED <<queue, runq, item, rc, handlers, bounds>>

-----------------------------------------------------------------------------
(* What the handler on the lane may do.  Afterwards admit goes on with the *)
(* drain loop, drain_ready with the next ready frame.                      *)

HandlerLeaves == /\ pc[Lane] \in {"admitted", "resumed"}
                 /\ pc' = [pc EXCEPT ![Lane] = IF @ = "admitted" THEN "acts" ELSE "ready"]
                 /\ item' = [item EXCEPT ![Lane] = None]

\* A guard that is still held when the frame goes is destroyed with it.
AfterGuard(f) == IF guard = f THEN release_seal(rc) ELSE rc

\* QuiescenceGuard::release, or the end of the guard's scope in mid-handler:
\* the gate opens, also in a restart episode, and the handler goes on.
ReleaseGuard ==
    /\ pc[Lane] \in {"admitted", "resumed"}
    /\ guard # None /\ guard = item[Lane]
    /\ rc' = release_seal(rc)
    /\ guard' = None
    /\ UNCHANGED <<exec, queue, runq, pc, item, remaining, awaits, mst, bounds>>

HandlerReturn ==
    LET f == item[Lane] IN
    /\ HandlerLeaves
    /\ rc' = complete_and_remove(AfterGuard(f), f)
    /\ guard' = IF guard = f THEN None ELSE guard
    /\ mst' = [mst EXCEPT ![f] = "done"]
    /\ UNCHANGED <<exec, queue, runq, remaining, awaits, bounds>>

HandlerFault ==
    LET f == item[Lane] IN
    /\ HandlerLeaves
    /\ f \in Faulty
    /\ \E refill \in BOOLEAN : rc' = on_fault_reentrant(AfterGuard(f), f, refill)
    /\ guard' = IF guard = f THEN None ELSE guard
    /\ mst' = [mst EXCEPT ![f] = "dead"]
    /\ UNCHANGED <<exec, queue, runq, remaining, awaits, bounds>>

\* The handler on the lane begins a co_await.
Awaits == awaits < MaxAwaits /\ awaits' = awaits + 1

\* co_await async_suspend(), or any other awaitable, also under the guard.  Only
\* a stubborn handler does so once its stop_token fired.
HandlerSuspend ==
    LET f == item[Lane] IN
    /\ HandlerLeaves
    /\ Awaits
    /\ f \in rc.told => f \in Stubborn
    /\ rc' = [rc EXCEPT !.suspended = Append(@, f)]
    /\ UNCHANGED <<exec, queue, runq, remaining, guard, mst, bounds>>

\* co_await quiesce(mode, deadline): at once with no sibling in flight, else
\* as the one waiter frame.  A handler holds one guard at a time.
HandlerQuiesce(mode, deadline) ==
    LET f == item[Lane]
        c == begin_quiesce([rc EXCEPT !.armed = @ \/ (mode = "Drain" /\ deadline)], mode)
    IN
    /\ f \in Quiescers /\ guard # f
    /\ Awaits
    /\ IF no_siblings(c)
       THEN /\ pc[Lane] \in {"admitted", "resumed"}
            /\ rc' = c
            /\ guard' = f
            /\ UNCHANGED <<pc, item, mst>>
       ELSE /\ HandlerLeaves
            /\ rc' = [c EXCEPT !.waiter = f]
            /\ mst' = [mst EXCEPT ![f] = "waiting"]
            /\ UNCHANGED guard
    /\ UNCHANGED <<exec, queue, runq, remaining, bounds>>

-----------------------------------------------------------------------------

PostStep(p) == PostLink(p) \/ WakeLoad(p) \/ WakeCas(p) \/ Schedule(p)

CarrierStep(t) == Readmit(t) \/ Schedule(t)

MonitorStep(t) == RaiseEscalate(t) \/ Readmit(t) \/ Schedule(t)

HandlerStep == \/ HandlerReturn \/ HandlerFault \/ HandlerSuspend \/ ReleaseGuard
               \/ \E mode \in {"Drain", "Cancel"}, deadline \in BOOLEAN :
                     HandlerQuiesce(mode, deadline)

LaneStep == \/ TryAcquire \/ LaneActions \/ ResumeReady \/ ReadyDrained
            \/ GiveUpTurn \/ AdmitNothing \/ Admit \/ NoAdmission
            \/ PendingReady \/ Decide
            \/ ParkSc \/ ProbeAdmittable \/ ProbeReady \/ ReacquireParked
            \/ YieldToScheduled \/ Schedule(Lane)
            \/ ReleaseToIdle \/ ProbeIdle \/ ReacquireIdle
            \/ HandlerStep

\* What the lane, its producers and its awaits operations do by themselves ...
LaneRuns == \/ \E p \in Producers : (\E m \in Msgs : PostExchange(p, m)) \/ PostStep(p)
            \/ \E m \in Msgs : Cancel(m)
            \/ \E t \in Carriers : CompleteOne(t) \/ CarrierStep(t)
            \/ \E t \in Monitors : PollWatchdog(t) \/ MonitorStep(t)
            \/ LaneStep

\* ... and what is asked of it from outside.
Controlled == \/ \E t \in Monitors : RequestStop(t) \/ ReadmitOnly(t)
              \/ pause_admission \/ resume_admission

Next == LaneRuns \/ Controlled

Spec == Init /\ [][Next]_vars

\* Threads run, handlers terminate, and the watchdog is driven by the timer
\* tick.  An awaits operation need not complete, nobody has to post.
Fairness == /\ \A p \in Producers : WF_vars(PostStep(p))
            /\ \A t \in Carriers : WF_vars(CarrierStep(t))
            /\ \A t \in Monitors : WF_vars(PollWatchdog(t) \/ MonitorStep(t))
            /\ WF_vars(LaneStep)

\* Progress is promised while nobody pauses or stops the lane: request_stop
\* drops the answer of its re-admit and resume_admission wakes nobody.
FairSpec == Init /\ [][LaneRuns]_vars /\ Fairness

\* Every awaits operation completes.
OperationsComplete == WF_vars(\E t \in Carriers : CompleteOne(t))
-----------------------------------------------------------------------------
(* Properties.                                                             *)

\* Types of the exec-state word, of ReCore and of the threads' places.
TypeOK ==
    /\ exec \in {"Idle", "Scheduled", "Running", "Parked"}
    /\ queue \in Seq(Msgs)
    /\ runq \in Nat
    /\ pc \in [Threads -> PCs]
    /\ item \in [Threads -> Msgs \cup {None}]
    /\ remaining \in 0..Budget
    /\ rc.live \subseteq Msgs /\ rc.told \subseteq rc.live
    /\ rc.suspended \in Seq(Msgs) /\ rc.ready \in Seq(Msgs)
    /\ rc.waiter \in Msgs \cup {None}
    /\ rc.seal \in {"Open", "Paused", "Draining", "Cancelling"}
    /\ rc.actions \subseteq {"EscalateCancel", "StopAll"}
    /\ guard \in Msgs \cup {None}
    /\ awaits \in 0..MaxAwaits

\* Every frame in flight is in exactly one place: on the lane, suspended,
\* ready, or the quiesce waiter; and none of these places keeps a frame that
\* left the in-flight set, whose coroutine is destroyed (complete_and_remove).
FramesAccounted ==
    /\ rc.live = {m \in Msgs : mst[m] \in {"live", "waiting"}}
    /\ LET places == rc.suspended \o rc.ready
                       \o (IF rc.waiter = None THEN <<>> ELSE <<rc.waiter>>)
                       \o (IF item[Lane] = None THEN <<>> ELSE <<item[Lane]>>)
       IN /\ Range(places) = rc.live
          /\ Len(places) = Cardinality(rc.live)

\* "while it is held, the caller has exclusive access to actor state,
\* guaranteed no handler is running" (015): the frame with the guard is the
\* only one in flight and the gate stays shut, whatever is posted, completed,
\* paused or resumed meanwhile.
GuardExclusive == guard # None => rc.live = {guard} /\ rc.seal \in {"Draining", "Cancelling"}

\* A restart episode (ADR-009 S3) lets nobody in until the last sibling has
\* left: those in flight are the ones it told to stop, and the gate is shut,
\* unless the last of them has dropped a guard of its own and still runs.  That
\* is so when handlers heed their stop_token (Stubborn = {}): one that drops its
\* guard and awaits again reopens the lane to state about to be rebuilt.
EpisodeSealed ==
    rc.restarting =>
        /\ rc.live # {} /\ rc.live \subseteq rc.told
        /\ rc.seal \in {"Draining", "Cancelling"} \/ rc.live = {item[Lane]}

\* complete_one against the park (ADR-066): when the lane is parked, a frame
\* made ready has somebody who will bring it back to the lane: the carrier
\* before its re-admit or the lane before its last look.
NoLostCompletion ==
    exec = "Parked" /\ rc.ready # <<>> =>
        \/ \E t \in Carriers \cup Monitors : pc[t] \in {"readmit", "readmit_only"}
        \/ pc[Lane] \in {"probe", "probe_ready", "reacquire"}

\* The lane through completions, faults, quiescence and restart
\* (core/activation.hpp): no frame is lost or kept twice, a quiescence excludes
\* everybody else, a restart lets nobody in, and no completion is overlooked.
ReentrantSafe == TypeOK /\ FramesAccounted /\ GuardExclusive /\ EpisodeSealed /\ NoLostCompletion

\* Bounded quiescence (015): a Drain with a deadline, or a Cancel, ends even
\* if no awaits operation ever completes: the watchdog escalates, the
\* siblings are resumed to unwind, and the waiter gets its guard.
QuiesceTerminates ==
    rc.waiter # None /\ (rc.armed \/ rc.seal = "Cancelling") ~> rc.waiter = None

\* If awaits operations complete, every posted message is settled, also when
\* it meets a lane parked at its cap, a quiescence or a restart.
EventuallySettled ==
    OperationsComplete =>
        \A m \in Msgs : mst[m] = "queued" ~> mst[m] \in {"done", "dead", "freed"}

\* A bounded quiescence ends without any awaits operation completing, and with
\* completions every posted message is settled, restarts included.
ReentrantProgress == QuiesceTerminates /\ EventuallySettled
=============================================================================
