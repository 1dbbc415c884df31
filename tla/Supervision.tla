----------------------------- MODULE Supervision -----------------------------
(* What the fault path of a Sequential actor does (core/activation.hpp,     *)
(* core/supervision.hpp): the policy an actor's list compiles to, the       *)
(* restart budget, Restart with and without OnRestartAsk<Retry<N>>, the re- *)
(* wiring of its resources (core/resource.hpp), and the snapshot a lazily   *)
(* declared Persistent actor is recovered from and flushed to               *)
(* (core/metadata.hpp).                                                     *)
EXTENDS Naturals, SequencesExt, FiniteSets, Sequences

CONSTANTS Messages,
          PolicyLists,   \* the policy lists the actor may be declared with, of
                         \* [tag |-> "OnFailure", decision, max, window] and
                         \* [tag |-> "OnRestartAsk", retries]
          Plan,          \* NodeShardResourcePlan: [node, shard], sequences of resource types
          Needs,         \* the actor's resource members, in wire() order: [type, per_message]
          Unlimited,     \* numeric_limits<uint32_t>::max()
          MaxTime, MaxEvictions

VARIABLES policy,    \* the SupervisionPolicy
          now,
          self,      \* the actor object, see NewSelf
          budget,    \* window_open_, window_start_ns_, restart_count_
          lane,      \* what the drain owner is at: [pc, d, attempt]
          stopped,
          settled,   \* message -> its outcomes, in order
          granted,   \* the times of the restarts granted
          refused,   \* the time of the charge that was refused, or 0
          stored,    \* the snapshot in the store: the messages whose effect it holds
          forgot,    \* whether this instance was restarted since it was recovered
          lazy,      \* whether the broker made the activation: it has a flush sink
          evictions

supVars == <<policy, now, self, budget, lane, stopped, settled, granted, refused, stored, forgot, lazy, evictions>>
-----------------------------------------------------------------------------
(* Policies.                                                                   *)

\* No OnFailure<...> in the list is OnFailure<Restart> with no budget.
Default == [tag |-> "OnFailure", decision |-> "Restart", max |-> Unlimited, window |-> 0]
as_on_failure(list) == {p \in Range(list) : p.tag = "OnFailure"}
as_on_restart_ask(list) == {p \in Range(list) : p.tag = "OnRestartAsk"}
supervision_of(list) ==
    LET f == as_on_failure(list)
        present == IF f = {} THEN Default ELSE CHOOSE p \in f : TRUE
        r == as_on_restart_ask(list)
    IN [decision |-> present.decision, max_restarts |-> present.max, window_ns |-> present.window,
        max_ask_retries |-> IF r = {} THEN 0 ELSE (CHOOSE p \in r : TRUE).retries]
-----------------------------------------------------------------------------
(* Resources.                                                                  *)

\* A shard's scope: the node's instances, shared, then the shard's own.
resolve_node_shard_resources(sh) ==
    [i \in 1..Len(Plan.node) |-> [type |-> Plan.node[i], instance |-> <<"node", i>>]] \o
    [i \in 1..Len(Plan.shard) |-> [type |-> Plan.shard[i], instance |-> <<"shard", i, sh>>]]
Shard == 1
scope == resolve_node_shard_resources(Shard)

\* The first entry of the type; <<>> when nothing was provided.
resolve(type) ==
    LET at == {i \in 1..Len(scope) : scope[i].type = type}
    IN IF at = {} THEN <<>> ELSE scope[CHOOSE i \in at : \A j \in at : i <= j].instance

\* Cached and PerMessage members alike keep the pointer they resolve to.
Cached_wire(i) == resolve(Needs[i].type)

\* wire_resources: member by member, up to the first that does not resolve.
wire_resources ==
    LET missing == {i \in 1..Len(Needs) : Cached_wire(i) = <<>>}
        upto == IF missing = {} THEN Len(Needs) ELSE (CHOOSE i \in missing : \A j \in missing : i <= j) - 1
    IN [i \in 1..upto |-> Cached_wire(i)]
Resolvable == Len(wire_resources) = Len(Needs)
PerMessage == {i \in 1..Len(Needs) : Needs[i].per_message}

\* A constructed actor: what it has applied, the messages whose failed handlers
\* touched it, its bound members, and the PerMessage products it holds.
NewSelf == [applied |-> {}, dirty |-> {}, bound |-> <<>>, products |-> {}]
-----------------------------------------------------------------------------
Idle == [pc |-> "idle", d |-> 0, attempt |-> 0]
SupInit ==
    /\ policy \in {supervision_of(l) : l \in PolicyLists}
    /\ now = 1 /\ budget = [open |-> FALSE, start |-> 0, count |-> 0]
    /\ lane = [Idle EXCEPT !.pc = "gone"] /\ self = NewSelf /\ stopped = FALSE
    /\ settled = [m \in Messages |-> <<>>] /\ granted = <<>> /\ refused = 0
    /\ stored = {} /\ forgot = FALSE /\ lazy = FALSE /\ evictions = 0

\* The broker's construct, wire and recover; a failed wire leaves no actor.
recover(a) == [a EXCEPT !.applied = stored]
Construct(a) ==
    /\ lane.pc = "gone" /\ Resolvable
    /\ self' = a /\ lane' = Idle /\ forgot' = FALSE /\ stopped' = FALSE
    /\ budget' = [open |-> FALSE, start |-> 0, count |-> 0] /\ granted' = <<>> /\ refused' = 0
    /\ UNCHANGED <<policy, now, settled, stored, evictions>>
construct == Construct(recover([NewSelf EXCEPT !.bound = wire_resources])) /\ lazy' = TRUE

\* spawn<A>: constructed and wired at once, with no store.
spawn == Construct([NewSelf EXCEPT !.bound = wire_resources]) /\ evictions = 0 /\ UNCHANGED lazy

\* close_out_retire: on_deactivate, then the flush of what self holds. What the
\* broker made is freed later; a spawned actor stays, dormant.
flush(a) == a.applied
deactivate ==
    /\ lane.pc = "idle" /\ evictions < MaxEvictions /\ evictions' = evictions + 1
    /\ IF lazy THEN stored' = flush(self) /\ lane' = [Idle EXCEPT !.pc = "gone"] ELSE UNCHANGED <<stored, lane>>
    /\ UNCHANGED <<policy, now, self, budget, stopped, settled, granted, refused, forgot, lazy>>
-----------------------------------------------------------------------------
(* Faults.  Each of these yields the fields it sets of a record st over self,  *)
(* budget, lane, stopped, settled, granted, refused and forgot.                *)

State == [self |-> self, budget |-> budget, lane |-> lane, stopped |-> stopped, settled |-> settled,
          granted |-> granted, refused |-> refused, forgot |-> forgot]
Become(st) ==
    /\ self' = st.self /\ budget' = st.budget /\ lane' = st.lane /\ stopped' = st.stopped
    /\ settled' = st.settled /\ granted' = st.granted /\ refused' = st.refused /\ forgot' = st.forgot

Settle(st, m, outcome) == [st EXCEPT !.settled[m] = Append(@, outcome), !.lane = Idle]
dead_letter_and_reclaim(st, m) == Settle(st, m, "dead")
do_stop(st) == [st EXCEPT !.stopped = TRUE]
do_escalate(st) == do_stop(st)

\* A charge opens or refills the fixed window, then counts.
Refill(b) ==
    policy.window_ns > 0 /\ (~b.open \/ now - b.start > policy.window_ns)
charge_restart(b) ==
    IF Refill(b) THEN [open |-> TRUE, start |-> now, count |-> 1] ELSE [b EXCEPT !.count = @ + 1]
Charged(st) ==
    LET b == charge_restart(st.budget) IN
    IF b.count <= policy.max_restarts THEN [st EXCEPT !.budget = b, !.granted = Append(@, now)]
    ELSE [st EXCEPT !.budget = b, !.refused = now]
Granted(st) == Len(Charged(st).granted) > Len(st.granted)

\* ~A() and placement new, then the actor's own wire(), which may fail.
reconstruct_now(st, wired) ==
    IF wired THEN [st EXCEPT !.self = [NewSelf EXCEPT !.bound = wire_resources], !.forgot = TRUE]
    ELSE do_escalate([st EXCEPT !.self = NewSelf, !.forgot = TRUE])

do_restart(st, wired) ==
    IF Granted(st) THEN reconstruct_now(Charged(st), wired) ELSE do_escalate(Charged(st))

\* handle_restart_retry holds the message and loops; the loop head is lane "retry".
on_fault_sequential_NoReturn(st, m, wired) ==
    LET dead == dead_letter_and_reclaim(st, m) IN
    IF policy.max_ask_retries > 0 THEN [dead EXCEPT !.lane = [pc |-> "retry", d |-> m, attempt |-> 0]]
    ELSE IF policy.decision = "Restart" THEN do_restart(dead, wired) ELSE dead
on_fault_sequential(st, m, wired) ==
    IF policy.max_ask_retries > 0 /\ policy.decision = "Restart"
    THEN [st EXCEPT !.lane = [pc |-> "retry", d |-> m, attempt |-> 0]]
    ELSE LET dead == dead_letter_and_reclaim(st, m) IN
         CASE policy.decision = "Resume" -> dead
           [] policy.decision = "Restart" -> do_restart(dead, wired)
           [] policy.decision = "Stop" -> do_stop(dead)
           [] policy.decision = "Escalate" -> do_escalate(dead)
-----------------------------------------------------------------------------
(* Handlers.                                                                   *)

\* ProductGuard: the products, in order, for the extent of the handler or its
\* frame; a factory that fails throws ResourceFailure and the guard lets go.
acquire(a) == [a EXCEPT !.products = PerMessage]
release(a) == [a EXCEPT !.products = {}]

\* What running the handler of m does to the object, by how it ends.
Completed(a, m) == release([acquire(a) EXCEPT !.applied = @ \cup {m}])
Threw(a, m) == release([acquire(a) EXCEPT !.dirty = @ \cup {m}])
FactoryFailed(a, m) == release(a)
Suspended(a, m) == acquire(a)
Abandoned(a, m) == release(Suspended(a, m))

NextMessage(m) == lane.pc = "idle" /\ settled[m] = <<>>

\* The Stopped gate of the drain loop.
DropStopped(m) ==
    /\ NextMessage(m) /\ stopped
    /\ Become(dead_letter_and_reclaim(State, m))
    /\ UNCHANGED <<policy, now, stored, lazy, evictions>>

\* One dispatch of the drain loop, to its end, its fault or its suspension.
drain_step(m) ==
    /\ NextMessage(m) /\ ~stopped
    /\ \/ Become(Settle([State EXCEPT !.self = Completed(self, m)], m, "done"))
       \/ \E a \in {Threw(self, m), FactoryFailed(self, m)}, wired \in BOOLEAN :
              Become(on_fault_sequential([State EXCEPT !.self = a], m, wired))
       \/ Become([State EXCEPT !.self = Suspended(self, m), !.lane = [pc |-> "parked", d |-> m, attempt |-> 0]])
    /\ UNCHANGED <<policy, now, stored, lazy, evictions>>

\* complete_parked: the frame ends, is destroyed, and only then supervised.
resume_parked ==
    /\ lane.pc = "parked"
    /\ \/ Become(Settle([State EXCEPT !.self = Completed(self, lane.d)], lane.d, "done"))
       \/ \E wired \in BOOLEAN :
              Become(on_fault_sequential([State EXCEPT !.self = Threw(self, lane.d)], lane.d, wired))
    /\ UNCHANGED <<policy, now, stored, lazy, evictions>>

\* handle_restart_retry, one pass: charge, reconstruct ...
Retry ==
    LET m == lane.d IN
    IF lane.attempt = policy.max_ask_retries THEN {dead_letter_and_reclaim(State, m)}
    ELSE IF ~Granted(State) THEN {do_escalate(dead_letter_and_reclaim(Charged(State), m))}
    ELSE LET re(wired) == reconstruct_now(Charged(State), wired) IN
         {IF re(wired).stopped THEN dead_letter_and_reclaim(re(wired), m) ELSE [re(wired) EXCEPT !.lane.pc = "redo"] :
            wired \in BOOLEAN}
handle_restart_retry ==
    /\ lane.pc = "retry" /\ \E st \in Retry : Become(st)
    /\ UNCHANGED <<policy, now, stored, lazy, evictions>>

\* ... and dispatch again; a retry that suspends has its frame destroyed.
redispatch ==
    /\ lane.pc = "redo"
    /\ \/ Become(Settle([State EXCEPT !.self = Completed(self, lane.d)], lane.d, "done"))
       \/ \E a \in {Threw(self, lane.d), FactoryFailed(self, lane.d), Abandoned(self, lane.d)} :
              Become([State EXCEPT !.self = a, !.lane = [pc |-> "retry", d |-> lane.d, attempt |-> lane.attempt + 1]])
    /\ UNCHANGED <<policy, now, stored, lazy, evictions>>

Tick ==
    /\ now < MaxTime /\ now' = now + 1
    /\ UNCHANGED <<policy, self, budget, lane, stopped, settled, granted, refused, stored, forgot, lazy, evictions>>

SupNext ==
    \/ construct \/ spawn \/ deactivate \/ resume_parked \/ handle_restart_retry \/ redispatch \/ Tick
    \/ \E m \in Messages : DropStopped(m) \/ drain_step(m)

SupSpec == SupInit /\ [][SupNext]_supVars
-----------------------------------------------------------------------------
Ready == lane.pc = "redo" \/ (lane.pc = "idle" /\ ~stopped)

\* A faulting message is settled once whichever way it goes - retried, dead-
\* lettered, or drained by a stopped actor - and not before the fault path is done
\* with it (dead_letter_and_reclaim frees the descriptor the retry loop holds).
PoisonSettledOnce ==
    \A m \in Messages : Len(settled[m]) <= 1 /\ (lane.pc \in {"parked", "retry", "redo"} /\ lane.d = m => settled[m] = <<>>)

\* A handler runs only on an object whose every resource member is bound to the
\* instance its scope resolves, through any number of restarts (reconstruct_now).
HandlersSeeResources == Ready => self.bound = wire_resources /\ Resolvable

\* Under Restart no message meets an object a failed handler has touched, save
\* after a message that used up its retries (reconstruct_now, handle_restart_retry).
RestartIsFresh ==
    Ready /\ policy.decision = "Restart" /\ self.dirty # {} =>
        lane.pc = "idle" /\ policy.max_ask_retries > 0 /\ \A m \in self.dirty : settled[m] = <<"dead">>

\* No PerMessage product outlives the handler or the frame it was made for, on
\* any way out of it (ProductGuard).
ProductsReleased == lane.pc \notin {"parked"} => self.products = {}

\* Counting restarts and retries together, no span of the window's length holds
\* more than twice the budget (charge_restart's window is fixed, not sliding).
RestartsBounded ==
    \A i \in DOMAIN granted :
        Len(SelectSeq(granted, LAMBDA t : granted[i] <= t /\ (policy.window_ns = 0 \/ t <= granted[i] + policy.window_ns)))
            <= (IF policy.window_ns = 0 THEN 1 ELSE 2) * policy.max_restarts

\* An actor is escalated for its budget only when that many restarts were granted
\* in the window that ends there (charge_restart).
StopsOnlyOverBudget ==
    refused # 0 =>
        Len(SelectSeq(granted, LAMBDA t : policy.window_ns = 0 \/ refused - t <= policy.window_ns)) >= policy.max_restarts

KeepsSnapshot == stored \subseteq stored' \/ forgot

\* A flush never drops what the snapshot it replaces held, unless the actor was
\* restarted meanwhile (recover before the first message, flush at eviction).
FlushKeepsSnapshot == [][KeepsSnapshot]_supVars

SnapshotOnlyGrows == stored \subseteq stored'

\* A restart recovers durable state: no flush drops what an earlier one held.
RestartKeepsSnapshot == [][SnapshotOnlyGrows]_supVars

-----------------------------------------------------------------------------
(* Escalation to supervisors (core/engine.hpp): supervisors are registered  *)
(* for the node, for a type of actor or for a tree, an actor is bound to    *)
(* one when it is spawned, and an escalation passes the supervisor's storm  *)
(* guard (a token bucket over all sources and a window per source, in a     *)
(* capped table) before it is posted to the supervisor's mailbox.           *)

CONSTANTS Sources,
          MaxTracked,  \* kMaxTrackedSources
          PerSource, Window,   \* max_per_source, per_source_window_ns
          Burst,       \* bucket capacity, refilled by one a tick
          MaxStormTime, MaxFired    \* bounds

VARIABLES storm_now,
          topo,      \* Supervision<...> of each source: "node", "type" or "tree"
          entries,   \* registered SupervisorEntry of each key
          bound,     \* key of the entry each source is bound to, or "none"
          fired,     \* escalations so far
          log,       \* what became of each: [src, key, at, was]
          stray      \* TRUE once the guard used an entry it had just erased

escVars == <<storm_now, topo, entries, bound, fired, log, stray>>

Keys == {"node", "type", "tree"}
Unprimed == MaxStormTime + 1
NewEntry == [tokens |-> Burst, last |-> Unprimed, table |-> [s \in {} |-> 0]]

EscInit ==
    /\ storm_now = 0 /\ topo \in [Sources -> Keys]
    /\ entries = [k \in {} |-> 0] /\ bound = [s \in Sources |-> "none"]
    /\ fired = 0 /\ log = <<>> /\ stray = FALSE

StormTick == storm_now < MaxStormTime /\ storm_now' = storm_now + 1 /\ UNCHANGED <<topo, entries, bound, fired, log, stray>>

\* set_node_supervisor, set_type_supervisor, set_supervisor: once per key,
\* before the actors it is for.
set_supervisor(k) ==
    /\ k \notin DOMAIN entries
    /\ entries' = [j \in DOMAIN entries \cup {k} |-> IF j = k THEN NewEntry ELSE entries[j]]
    /\ UNCHANGED <<storm_now, topo, bound, fired, log, stray>>

\* wire_escalation: the type's own supervisor falls back to the node's; a tree
\* does not.  Without a supervisor an escalation goes nowhere.
Supervisor(s) ==
    IF topo[s] \in DOMAIN entries THEN topo[s]
    ELSE IF topo[s] = "type" /\ "node" \in DOMAIN entries THEN "node" ELSE "none"

wire_escalation(s) ==
    /\ bound[s] = "none" /\ Supervisor(s) # "none"
    /\ bound' = [bound EXCEPT ![s] = Supervisor(s)]
    /\ UNCHANGED <<storm_now, topo, entries, fired, log, stray>>
-----------------------------------------------------------------------------
(* The guard, under guard_mu.                                                  *)

\* TokenBucket::check.
Refilled(e) == IF e.last = Unprimed THEN [e EXCEPT !.last = storm_now]
               ELSE [e EXCEPT !.tokens = IF @ + (storm_now - e.last) > Burst THEN Burst ELSE @ + (storm_now - e.last), !.last = storm_now]

Closed == [open |-> FALSE, start |-> 0, count |-> 0]

\* The window a source is in; "no window yet" has a flag of its own, for 0 is a
\* time like any other.
CurrentWindow(w) == IF ~w.open \/ storm_now - w.start >= Window THEN [open |-> TRUE, start |-> storm_now, count |-> 0] ELSE w

\* per_source after try_emplace(source): a new entry over the cap evicts the
\* first of the table, which may be any, the new one too.
Tables(e, s) ==
    LET t == [x \in DOMAIN e.table \cup {s} |-> IF x \in DOMAIN e.table THEN e.table[x] ELSE Closed]
    IN  IF s \in DOMAIN e.table \/ Cardinality(DOMAIN t) <= MaxTracked THEN {t}
        ELSE {[x \in DOMAIN t \ {v} |-> t[x]] : v \in DOMAIN t}

\* Entries the guard may leave, with its verdict.  When the new entry was the
\* one evicted the window read and written is freed memory: any verdict.
admit_locked(e, s) ==
    LET f == Refilled(e)
    IN  IF f.tokens = 0 THEN {[entry |-> f, ok |-> FALSE, stray |-> FALSE]}
        ELSE LET g == [f EXCEPT !.tokens = @ - 1]
             IN  UNION {IF s \in DOMAIN t
                        THEN LET w == CurrentWindow(t[s])  ok == w.count < PerSource
                             IN  {[entry |-> [g EXCEPT !.table = [t EXCEPT ![s] = IF ok THEN [w EXCEPT !.count = @ + 1] ELSE w]],
                                   ok |-> ok, stray |-> FALSE]}
                        ELSE {[entry |-> [g EXCEPT !.table = t], ok |-> b, stray |-> TRUE] : b \in BOOLEAN} :
                        t \in Tables(e, s)}

\* escalation_sink_thunk and route_escalation: shed and counted, or posted.
Escalate(s) ==
    /\ bound[s] # "none" /\ fired < MaxFired /\ fired' = fired + 1
    /\ \E r \in admit_locked(entries[bound[s]], s) :
         /\ entries' = [entries EXCEPT ![bound[s]] = r.entry]
         /\ stray' = (stray \/ r.stray)
         /\ log' = Append(log, [src |-> s, key |-> bound[s], at |-> storm_now, was |-> IF r.ok THEN "posted" ELSE "shed"])
    /\ UNCHANGED <<storm_now, topo, bound>>

EscNext == StormTick \/ (\E k \in Keys : set_supervisor(k)) \/ \E s \in Sources : wire_escalation(s) \/ Escalate(s)
-----------------------------------------------------------------------------
Posted(s, from) == Cardinality({i \in DOMAIN log : log[i].src = s /\ log[i].was = "posted" /\ log[i].at >= from})

\* A source that keeps failing reaches its supervisor at most twice its cap in
\* any span as long as the window (a window may end and the next begin in it).
SourceCapped == \A s \in Sources, from \in 0 .. storm_now : storm_now - from < Window => Posted(s, from) <= 2 * PerSource

\* The entry evicted to make room is never the one being charged: the guard does
\* not use an entry it has erased.
ChargedIsTracked == ~stray
=============================================================================
