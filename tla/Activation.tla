----------------------------- MODULE Activation ------------------------------
(***************************************************************************)
(* One sequential actor activation: its exec-state word (exec_state.hpp),  *)
(* its mailbox, the producers that post to it, the workers that drain it   *)
(* (activation.hpp drain_step / close_out, engine.hpp run_activation_impl) *)
(* and the carriers that complete a suspended handler (complete_parked).   *)
(* Passivation is included: the Deactivate control descriptor, its token   *)
(* and the close-out to Dormant.                                           *)
(*                                                                         *)
(* Every access to the exec-state word, to the mailbox and to the parked   *)
(* slot is a step of its own.  The mailbox is the abstract queue that      *)
(* module Mailbox refines: a descriptor is in `queue` from its exchange on *)
(* and can be taken once it is linked; Busy is answered only while a       *)
(* producer is mid-publish.  The run-queue is the number of its entries    *)
(* that point to this activation.  Workers are not tied to a shard's drain *)
(* ownership here, so what holds is due to the exec-state protocol alone.  *)
(***************************************************************************)
EXTENDS Naturals, Sequences, FiniteSets, TLC

CONSTANTS Producers,  \* threads that post messages or request a passivation
          Workers,    \* threads that run activations
          Carriers,   \* threads on which an awaited operation completes
          Msgs,       \* message descriptors, each posted at most once
          Deact,      \* the activation's own Deactivate control descriptor
          None,       \* nullptr
          Budget,     \* Schedulable::budget, dispatches per drain_step
          MaxAwaits,  \* how many times one handler may suspend
          Decisions   \* the supervision directives a fault may meet

Threads == Producers \cup Workers \cup Carriers
Items == Msgs \cup {Deact}

ASSUME ThreadsDisjoint == /\ Producers \cap Workers = {}
                          /\ Producers \cap Carriers = {}
                          /\ Workers \cap Carriers = {}
ASSUME ItemsAssumption == /\ Deact \notin Msgs
                          /\ None \notin Items
ASSUME BudgetAssumption == Budget \in Nat \ {0}
ASSUME AwaitsAssumption == MaxAwaits \in Nat
ASSUME DecisionsAssumption == Decisions \subseteq {"Resume", "Stop"}

VARIABLES exec,       \* ExecStateCell::s_
          queue,      \* the mailbox, in exchange order
          runq,       \* run-queue entries for this activation
          pc,         \* where each thread is
          item,       \* the descriptor each thread works on
          remaining,  \* drain_step's local `remaining`, of the draining worker
          retire,     \* retire_requested_
          token,      \* deactivate_token_: is the control descriptor in use
          frame,      \* the coroutine frame of the handler in progress
          parked,     \* parked_desc_
          awaits,     \* suspensions of the handler in progress
          stopped,    \* stopped_
          mst,        \* what became of each message
          reclaims    \* how often each message went back to the pool

vars == <<exec, queue, runq, pc, item, remaining, retire, token, frame, parked,
          awaits, stopped, mst, reclaims>>

ExecStates == {"Idle", "Scheduled", "Running", "Parked", "Dormant"}

\* Threads that may be inside drain_step, close_out's first half or the yield.
OwnerPCs == {"drain", "handler", "write", "park", "yield", "retire", "evict", "relinquish"}

\* Threads that took on the duty to put the activation in the run-queue, or
\* that popped it from there and have not claimed it yet.
HolderPCs == {"schedule", "requeue", "popped"}

\* Every place a thread can be at.
PCs == {"idle", "tagged", "link", "load", "cas", "recheck", "readmit", "probe_idle",
        "reacquire_idle", "probe_dormant", "reacquire_dormant",
        "drain", "handler", "write", "park", "yield", "retire", "evict", "relinquish",
        "schedule", "requeue", "popped",
        "gate", "running", "check", "finish", "readmit_parked"}

\* Carriers between the completion of the awaited operation and the re-admit.
CarrierPCs == {"gate", "running", "check", "finish", "readmit_parked"}

Unlinked == {item[p] : p \in {q \in Producers : pc[q] = "link"}}

Init == /\ exec = "Idle"
        /\ queue = <<>>
        /\ runq = 0
        /\ pc = [t \in Threads |-> "idle"]
        /\ item = [t \in Threads |-> None]
        /\ remaining = 0
        /\ retire = FALSE
        /\ token = FALSE
        /\ frame = "none"
        /\ parked = None
        /\ awaits = 0
        /\ stopped = FALSE
        /\ mst = [m \in Msgs |-> "new"]
        /\ reclaims = [m \in Msgs |-> 0]

Goto(t, from, to) == pc[t] = from /\ pc' = [pc EXCEPT ![t] = to]

\* A compare_exchange_strong on the exec-state word, by thread t.
Cas(t, from, expected, desired, won, lost) ==
    /\ Goto(t, from, IF exec = expected THEN won ELSE lost)
    /\ exec' = IF exec = expected THEN desired ELSE exec

msgvars == <<mst, reclaims>>
framevars == <<frame, parked, awaits>>

-----------------------------------------------------------------------------
(* Producers: Activation::post, Engine::post, request_passivate.           *)

\* mailbox_.enqueue(d), first half: the seq_cst exchange of the tail.
PostExchange(p, m) ==
    /\ Goto(p, "idle", "link")
    /\ mst[m] = "new"
    /\ mst' = [mst EXCEPT ![m] = "queued"]
    /\ item' = [item EXCEPT ![p] = m]
    /\ queue' = Append(queue, m)
    /\ UNCHANGED <<exec, runq, remaining, retire, token, framevars, stopped, reclaims>>

\* post_deactivate: win the token, reset and re-tag the control descriptor.
ClaimDeactivate(p) ==
    /\ Goto(p, "idle", "tagged")
    /\ ~token
    /\ token' = TRUE
    /\ item' = [item EXCEPT ![p] = Deact]
    /\ UNCHANGED <<exec, queue, runq, remaining, retire, framevars, stopped, msgvars>>

\* ... and enqueue it like any message.
DeactivateExchange(p) ==
    /\ Goto(p, "tagged", "link")
    /\ queue' = Append(queue, Deact)
    /\ UNCHANGED <<exec, runq, item, remaining, retire, token, framevars, stopped, msgvars>>

\* mailbox_.enqueue(d), second half: the link store.
PostLink(p) ==
    /\ Goto(p, "link", "load")
    /\ item' = [item EXCEPT ![p] = None]
    /\ UNCHANGED <<exec, queue, runq, remaining, retire, token, framevars, stopped, msgvars>>

\* notify_enqueued_fast: the seq_cst load that decides what to try.
WakeLoad(p) ==
    /\ Goto(p, "load", CASE exec = "Idle" -> "cas"
                         [] exec = "Dormant" -> "readmit"
                         [] OTHER -> "idle")
    /\ UNCHANGED <<exec, queue, runq, item, remaining, retire, token, framevars, stopped, msgvars>>

\* Mutant: the result of the CAS is not looked at.
WakeCas_Unchecked(p) ==
    /\ Cas(p, "cas", "Idle", "Scheduled", "schedule", "schedule")
    /\ UNCHANGED <<queue, runq, item, remaining, retire, token, framevars, stopped, msgvars>>

WakeCas(p) ==
    /\ Cas(p, "cas", "Idle", "Scheduled", "schedule", "recheck")
    /\ UNCHANGED <<queue, runq, item, remaining, retire, token, framevars, stopped, msgvars>>

\* The CAS lost: an eviction may have slipped in between load and CAS.
WakeRecheck(p) ==
    /\ Goto(p, "recheck", IF exec = "Dormant" THEN "readmit" ELSE "idle")
    /\ UNCHANGED <<exec, queue, runq, item, remaining, retire, token, framevars, stopped, msgvars>>

WakeReadmit(p) ==
    /\ Cas(p, "readmit", "Dormant", "Scheduled", "schedule", "idle")
    /\ UNCHANGED <<queue, runq, item, remaining, retire, token, framevars, stopped, msgvars>>

\* schedule_and_wake: whoever drove the edge to Scheduled enqueues the activation.
Schedule(t) ==
    /\ Goto(t, "schedule", "idle")
    /\ runq' = runq + 1
    /\ UNCHANGED <<exec, queue, item, remaining, retire, token, framevars, stopped, msgvars>>

\* MessageHandle::cancel: a queued message becomes a tombstone.
Cancel(m) ==
    /\ mst[m] = "queued"
    /\ mst' = [mst EXCEPT ![m] = "cancelled"]
    /\ UNCHANGED <<exec, queue, runq, pc, item, remaining, retire, token, framevars, stopped,
                   reclaims>>

-----------------------------------------------------------------------------
(* Workers: run_activation_impl and drain_step.                            *)

PopRunQueue(w) ==
    /\ Goto(w, "idle", "popped")
    /\ runq > 0
    /\ runq' = runq - 1
    /\ UNCHANGED <<exec, queue, item, remaining, retire, token, framevars, stopped, msgvars>>

TryAcquire(w) ==
    /\ Cas(w, "popped", "Scheduled", "Running", "drain", "idle")
    /\ remaining' = IF exec = "Scheduled" THEN Budget ELSE remaining
    /\ UNCHANGED <<queue, runq, item, retire, token, framevars, stopped, msgvars>>

\* try_dequeue answered Message: the oldest descriptor leaves the mailbox.
CanTake == queue # <<>> /\ Head(queue) \notin Unlinked

\* try_claim fails on a tombstone: it is reclaimed, nothing runs.
DrainTombstone(w) ==
    /\ pc[w] = "drain" /\ remaining > 0 /\ CanTake
    /\ LET m == Head(queue) IN
         /\ m \in Msgs /\ mst[m] = "cancelled"
         /\ reclaims' = [reclaims EXCEPT ![m] = @ + 1]
    /\ queue' = Tail(queue)
    /\ remaining' = remaining - 1
    /\ UNCHANGED <<exec, runq, pc, item, retire, token, framevars, stopped, mst>>

\* Mutant: the control descriptor does not count against the budget check.
DrainDeactivate_Unbudgeted(w) ==
    /\ pc[w] = "drain" /\ CanTake
    /\ Head(queue) = Deact
    /\ retire' = TRUE
    /\ token' = FALSE
    /\ queue' = Tail(queue)
    /\ remaining' = remaining - 1
    /\ UNCHANGED <<exec, runq, pc, item, framevars, stopped, msgvars>>

\* The Deactivate control descriptor: remember the request, free the token.
DrainDeactivate(w) ==
    /\ pc[w] = "drain" /\ remaining > 0 /\ CanTake
    /\ Head(queue) = Deact
    /\ retire' = TRUE
    /\ token' = FALSE
    /\ queue' = Tail(queue)
    /\ remaining' = remaining - 1
    /\ UNCHANGED <<exec, runq, pc, item, framevars, stopped, msgvars>>

\* A stopped actor dispatches nothing: its messages go to dead-letter.
DrainStopped(w) ==
    /\ pc[w] = "drain" /\ remaining > 0 /\ CanTake /\ stopped
    /\ LET m == Head(queue) IN
         /\ m \in Msgs /\ mst[m] = "queued"
         /\ mst' = [mst EXCEPT ![m] = "dead"]
         /\ reclaims' = [reclaims EXCEPT ![m] = @ + 1]
    /\ queue' = Tail(queue)
    /\ remaining' = remaining - 1
    /\ UNCHANGED <<exec, runq, pc, item, retire, token, framevars, stopped>>

\* Claim the message and enter its handler.
Dispatch(w) ==
    /\ Goto(w, "drain", "handler")
    /\ remaining > 0 /\ CanTake /\ ~stopped
    /\ LET m == Head(queue) IN
         /\ m \in Msgs /\ mst[m] = "queued"
         /\ mst' = [mst EXCEPT ![m] = "running"]
         /\ item' = [item EXCEPT ![w] = m]
    /\ queue' = Tail(queue)
    /\ remaining' = remaining - 1
    /\ frame' = "running"
    /\ awaits' = 0
    /\ UNCHANGED <<exec, runq, retire, token, parked, stopped, reclaims>>

\* d->complete(); reclaim_(d).
Complete(m) == /\ mst' = [mst EXCEPT ![m] = "done"]
               /\ reclaims' = [reclaims EXCEPT ![m] = @ + 1]
               /\ UNCHANGED stopped

\* Mutant: the faulted message is dead-lettered but not reclaimed.
OnFault_NoReclaim(m) == /\ mst' = [mst EXCEPT ![m] = "dead"]
                        /\ \E d \in Decisions : stopped' = (stopped \/ d = "Stop")
                        /\ UNCHANGED reclaims

\* on_fault_sequential: dead-letter and reclaim, then the directive.
OnFault(m) == /\ mst' = [mst EXCEPT ![m] = "dead"]
              /\ reclaims' = [reclaims EXCEPT ![m] = @ + 1]
              /\ \E d \in Decisions : stopped' = (stopped \/ d = "Stop")

\* The handler returned, or its coroutine finished without suspending.
HandlerReturn(w) ==
    /\ Goto(w, "handler", "drain")
    /\ \/ Complete(item[w])
       \/ OnFault(item[w])
    /\ item' = [item EXCEPT ![w] = None]
    /\ frame' = "none"
    /\ UNCHANGED <<exec, queue, runq, remaining, retire, token, parked, awaits>>

\* The handler awaits an operation.  From here its completion may arrive, on
\* a carrier, before the worker gets to park.
HandlerSuspend(w, c) ==
    /\ pc[w] = "handler" /\ pc[c] = "idle"
    /\ awaits < MaxAwaits
    /\ awaits' = awaits + 1
    /\ frame' = "suspended"
    /\ pc' = [pc EXCEPT ![w] = "write", ![c] = "gate"]
    /\ UNCHANGED <<exec, queue, runq, item, remaining, retire, token, parked, stopped, msgvars>>

\* parked_frame_ = ...; parked_desc_ = d;  (plain writes)
WriteParked(w) ==
    /\ Goto(w, "write", "park")
    /\ parked' = item[w]
    /\ item' = [item EXCEPT ![w] = None]
    /\ UNCHANGED <<exec, queue, runq, remaining, retire, token, frame, awaits, stopped, msgvars>>

\* exec_.park(); return Suspended.
Park(w) ==
    /\ Goto(w, "park", "idle")
    /\ exec' = "Parked"
    /\ UNCHANGED <<queue, runq, item, remaining, retire, token, framevars, stopped, msgvars>>

\* BudgetExhausted, or Busy once the bounded spin is over.
GiveUpTurn(w) ==
    /\ Goto(w, "drain", "yield")
    /\ remaining = 0 \/ Unlinked # {}
    /\ UNCHANGED <<exec, queue, runq, item, remaining, retire, token, framevars, stopped, msgvars>>

YieldToScheduled(w) ==
    /\ Goto(w, "yield", "requeue")
    /\ exec' = "Scheduled"
    /\ UNCHANGED <<queue, runq, item, remaining, retire, token, framevars, stopped, msgvars>>

Requeue(w) ==
    /\ Goto(w, "requeue", "idle")
    /\ runq' = runq + 1
    /\ UNCHANGED <<exec, queue, item, remaining, retire, token, framevars, stopped, msgvars>>

\* try_dequeue answered Empty (after the linger): DrainedEmpty.
DrainedEmpty(w) ==
    /\ Goto(w, "drain", IF retire THEN "retire" ELSE "relinquish")
    /\ remaining > 0 /\ queue = <<>>
    /\ retire' = FALSE
    /\ UNCHANGED <<exec, queue, runq, item, remaining, token, framevars, stopped, msgvars>>

\* Mutant: no probe after the store of Idle.
ReleaseToIdle_NoProbe(w) ==
    /\ Goto(w, "relinquish", "idle")
    /\ exec' = "Idle"
    /\ UNCHANGED <<queue, runq, item, remaining, retire, token, framevars, stopped, msgvars>>

\* close_out: store Idle, then probe, then try to get the activation back.
ReleaseToIdle(w) ==
    /\ Goto(w, "relinquish", "probe_idle")
    /\ exec' = "Idle"
    /\ UNCHANGED <<queue, runq, item, remaining, retire, token, framevars, stopped, msgvars>>

ProbeIdle(w) ==
    /\ Goto(w, "probe_idle", IF queue = <<>> THEN "idle" ELSE "reacquire_idle")
    /\ UNCHANGED <<exec, queue, runq, item, remaining, retire, token, framevars, stopped, msgvars>>

ReacquireIdle(w) ==
    /\ Cas(w, "reacquire_idle", "Idle", "Running", "drain", "idle")
    /\ remaining' = IF exec = "Idle" THEN Budget ELSE remaining
    /\ UNCHANGED <<queue, runq, item, retire, token, framevars, stopped, msgvars>>

\* close_out_retire: the on_deactivate hook and the flush run on self_ ...
DeactivateHook(w) ==
    /\ Goto(w, "retire", "evict")
    /\ UNCHANGED <<exec, queue, runq, item, remaining, retire, token, framevars, stopped, msgvars>>

\* ... strictly before the store of Dormant.
RetireToDormant(w) ==
    /\ Goto(w, "evict", "probe_dormant")
    /\ exec' = "Dormant"
    /\ UNCHANGED <<queue, runq, item, remaining, retire, token, framevars, stopped, msgvars>>

ProbeDormant(w) ==
    /\ Goto(w, "probe_dormant", IF queue = <<>> THEN "idle" ELSE "reacquire_dormant")
    /\ UNCHANGED <<exec, queue, runq, item, remaining, retire, token, framevars, stopped, msgvars>>

ReacquireDormant(w) ==
    /\ Cas(w, "reacquire_dormant", "Dormant", "Running", "drain", "idle")
    /\ remaining' = IF exec = "Dormant" THEN Budget ELSE remaining
    /\ UNCHANGED <<queue, runq, item, retire, token, framevars, stopped, msgvars>>

-----------------------------------------------------------------------------
(* Carriers: Engine::complete_parked and Activation::complete_parked.      *)

\* Mutant: the carrier does not wait for the worker's park().
CarrierGate_NoSpin(c) ==
    /\ Goto(c, "gate", "running")
    /\ item' = [item EXCEPT ![c] = parked]
    /\ frame' = "running"
    /\ UNCHANGED <<exec, queue, runq, remaining, retire, token, parked, awaits, stopped, msgvars>>

\* Spin until the worker's park() is visible, then read the parked slot and
\* resume the frame on this thread.
CarrierGate(c) ==
    /\ Goto(c, "gate", "running")
    /\ exec = "Parked"
    /\ item' = [item EXCEPT ![c] = parked]
    /\ frame' = "running"
    /\ UNCHANGED <<exec, queue, runq, remaining, retire, token, parked, awaits, stopped, msgvars>>

\* The resumed handler runs to its end, well or with a fault.
CarrierFinishFrame(c) ==
    /\ Goto(c, "running", "check")
    /\ frame' \in {"done", "faulted"}
    /\ UNCHANGED <<exec, queue, runq, item, remaining, retire, token, parked, awaits, stopped,
                   msgvars>>

\* The resumed handler awaits again: a second carrier may complete it.
CarrierSuspend(c, e) ==
    /\ pc[c] = "running" /\ pc[e] = "idle" /\ e # c
    /\ awaits < MaxAwaits
    /\ awaits' = awaits + 1
    /\ frame' = "suspended"
    /\ pc' = [pc EXCEPT ![c] = "check", ![e] = "gate"]
    /\ UNCHANGED <<exec, queue, runq, item, remaining, retire, token, parked, stopped, msgvars>>

\* resume() returned: is the frame done?  Asking a destroyed frame is
\* undefined: either answer.
CarrierCheck(c) ==
    /\ \/ /\ frame \in {"suspended", "running", "none"}
          /\ Goto(c, "check", "idle")
          /\ item' = [item EXCEPT ![c] = None]
       \/ /\ frame \in {"done", "faulted", "none"}
          /\ Goto(c, "check", "finish")
          /\ item' = item
    /\ UNCHANGED <<exec, queue, runq, remaining, retire, token, framevars, stopped, msgvars>>

\* Destroy the frame, clear the slot, settle the message.
CarrierFinish(c) ==
    /\ Goto(c, "finish", "readmit_parked")
    /\ IF frame = "faulted" THEN OnFault(item[c]) ELSE Complete(item[c])
    /\ frame' = "none"
    /\ parked' = None
    /\ item' = [item EXCEPT ![c] = None]
    /\ UNCHANGED <<exec, queue, runq, remaining, retire, token, awaits>>

CarrierReadmit(c) ==
    /\ Cas(c, "readmit_parked", "Parked", "Scheduled", "schedule", "idle")
    /\ UNCHANGED <<queue, runq, item, remaining, retire, token, framevars, stopped, msgvars>>

-----------------------------------------------------------------------------

\* A post once begun: every step up to the wake and the run-queue entry.
PostStep(p) == \/ DeactivateExchange(p) \/ PostLink(p) \/ WakeLoad(p) \/ WakeCas(p)
               \/ WakeRecheck(p) \/ WakeReadmit(p) \/ Schedule(p)

WorkerStep(w) == \/ PopRunQueue(w) \/ TryAcquire(w)
                 \/ DrainTombstone(w) \/ DrainDeactivate(w) \/ DrainStopped(w) \/ Dispatch(w)
                 \/ HandlerReturn(w) \/ (\E c \in Carriers : HandlerSuspend(w, c))
                 \/ WriteParked(w) \/ Park(w)
                 \/ GiveUpTurn(w) \/ YieldToScheduled(w) \/ Requeue(w)
                 \/ DrainedEmpty(w) \/ ReleaseToIdle(w) \/ ProbeIdle(w) \/ ReacquireIdle(w)
                 \/ DeactivateHook(w) \/ RetireToDormant(w) \/ ProbeDormant(w)
                 \/ ReacquireDormant(w)

CarrierStep(c) == \/ CarrierGate(c) \/ CarrierFinishFrame(c)
                  \/ CarrierCheck(c) \/ CarrierFinish(c) \/ CarrierReadmit(c) \/ Schedule(c)

\* A handler suspends at most once ...
AwaitingOnce == \/ \E p \in Producers : \/ \E m \in Msgs : PostExchange(p, m)
                                        \/ ClaimDeactivate(p)
                                        \/ PostStep(p)
                \/ \E m \in Msgs : Cancel(m)
                \/ \E w \in Workers : WorkerStep(w)
                \/ \E c \in Carriers : CarrierStep(c)

\* ... or chains awaits.
Next == AwaitingOnce \/ \E c, e \in Carriers : CarrierSuspend(c, e)

OnceSpec == Init /\ [][AwaitingOnce]_vars
Spec == Init /\ [][Next]_vars

\* Threads are scheduled by the operating system, handlers terminate and an
\* awaited operation completes; nobody has to post, cancel or passivate.
Fairness == /\ \A p \in Producers : WF_vars(PostStep(p))
            /\ \A w \in Workers : WF_vars(WorkerStep(w))
            /\ \A c \in Carriers : WF_vars(CarrierStep(c))

FairSpec == Spec /\ Fairness
-----------------------------------------------------------------------------
(* Properties.                                                             *)

\* Types of the exec-state word, the mailbox, the parked slot and the locals
\* of drain_step; the drain never spends more than its budget.
TypeOK == /\ exec \in ExecStates
          /\ queue \in Seq(Items)
          /\ runq \in Nat
          /\ pc \in [Threads -> PCs]
          /\ item \in [Threads -> Items \cup {None}]
          /\ remaining \in 0..Budget
          /\ retire \in BOOLEAN
          /\ token \in BOOLEAN
          /\ frame \in {"none", "running", "suspended", "done", "faulted"}
          /\ parked \in Items \cup {None}
          /\ awaits \in 0..MaxAwaits
          /\ stopped \in BOOLEAN
          /\ mst \in [Msgs -> {"new", "queued", "cancelled", "running", "done", "dead"}]
          /\ reclaims \in [Msgs -> Nat]

\* A thread that may touch the actor object or the consumer side of the
\* mailbox: the worker that owns Running (its on_deactivate hook included) or
\* the carrier that resumed the parked frame.
Touches(t) == pc[t] \in OwnerPCs \cup {"running", "check", "finish"}

\* Single executor (001): a worker draining, a handler running on a worker or
\* on a carrier, and the deactivation hook are never two threads at once.
SingleExecutor == \A t, u \in Threads : Touches(t) /\ Touches(u) => t = u

Holds(t) == pc[t] \in HolderPCs

\* "Scheduled: an activation is queued in exactly one shard run-queue"
\* (exec_state.hpp): the entry, or the one thread about to make or claim it,
\* exists exactly when the state is Scheduled and is unique.  The run-queue
\* node is intrusive, so a second entry would corrupt the queue.
ScheduledOnce ==
    /\ runq <= 1
    /\ \A t, u \in Threads : Holds(t) /\ Holds(u) => t = u
    /\ \A t \in Threads : Holds(t) => runq = 0
    /\ (exec = "Scheduled") <=> (runq = 1 \/ \E t \in Threads : Holds(t))

\* Threads that will still look at the exec-state word after the message
\* they know of, and can take the activation out of state Idle or Dormant.
WatchesIdle == {"link", "load", "cas", "probe_idle", "reacquire_idle"}
WatchesDormant == {"link", "load", "cas", "recheck", "readmit", "probe_dormant",
                   "reacquire_dormant"}

\* No lost wakeup (002, ADR-066): a descriptor in the mailbox of an
\* activation nobody owns always has some thread that will notice it, and a
\* parked activation has the carrier that will re-admit it.
NoLostWakeup ==
    /\ exec = "Idle" /\ queue # <<>> => \E t \in Threads : pc[t] \in WatchesIdle
    /\ exec = "Dormant" /\ queue # <<>> => \E t \in Threads : pc[t] \in WatchesDormant
    /\ exec = "Running" => \E t \in Threads : pc[t] \in OwnerPCs
    /\ exec = "Parked" => \E t \in Threads : pc[t] \in CarrierPCs

\* A message goes back to its pool once, after it was settled: a tombstone by
\* the drain, a handled one by the thread that finished its handler.
ReclaimedOnce ==
    \A m \in Msgs : /\ reclaims[m] <= 1
                    /\ mst[m] \in {"done", "dead"} => reclaims[m] = 1
                    /\ mst[m] \in {"new", "queued", "running"} => reclaims[m] = 0

\* The activation's one control descriptor is in the mailbox at most once,
\* and nobody re-tags it while it is there: the timer and an explicit
\* passivate() race through the token (engine.hpp post_deactivate).
DeactivateLinkedOnce ==
    /\ \A i, j \in 1..Len(queue) : queue[i] = Deact /\ queue[j] = Deact => i = j
    /\ \A p \in Producers : pc[p] = "tagged" => \A i \in 1..Len(queue) : queue[i] # Deact

\* Threads of one kind are alike, and so are messages; safety runs only.
Symmetry == Permutations(Producers) \cup Permutations(Workers)
              \cup Permutations(Carriers) \cup Permutations(Msgs)

\* Every message is settled once, whoever wins of drain, cancel, fault and
\* carrier (try_claim, complete_parked), and the one intrusive Deactivate
\* descriptor is never in the mailbox twice (the idle timer against an explicit
\* passivate).
EachOnce == ReclaimedOnce /\ DeactivateLinkedOnce
=============================================================================
