--------------------------- MODULE LazyActivation ----------------------------
(* Activation on first touch and reclaim after eviction (core/engine.hpp):  *)
(* the id table producers read without a lock, the broker that constructs,  *)
(* the Deactivate wheel entries and the two-phase reclaim sweep of one      *)
(* shard, for one lazily declared actor. A drain of an activation is one    *)
(* step here; module Activation has its interleavings. Instances are the    *)
(* {actor, Activation, Schedulable} triples the broker makes, numbered as   *)
(* made.                                                                    *)
EXTENDS Naturals, SequencesExt

CONSTANTS Calls,      \* call -> "tell" or "passivate"
          Overlap,    \* whether the broker may be asked while an instance is retired
          MaxInst, IdleTicks, Grace,
          Patience,   \* wheel ticks a call may take from resolve() to the end of its post
          MaxTime

VARIABLES now,        \* wheel.now_ticks()
          wakes,      \* Wake messages in the broker's mailbox
          inst,       \* instance -> its Activation and LazyOwned record
          table,      \* the id table's chain for the actor, head first
          retire_q,
          timers,     \* armed wheel entries: [i, at]
          call,       \* call -> [pc, s, since]
          handled, dead,
          touched     \* instances used after they were freed

lazyVars == <<now, wakes, inst, table, retire_q, timers, call, handled, dead, touched>>

Unmade == [exec |-> "None", mail |-> <<>>, due |-> 0, queued |-> FALSE, unlinked |-> 0, armed |-> 0, token |-> FALSE]
Token == 0
LazyInit ==
    /\ now = 1 /\ wakes = <<>> /\ inst = [i \in 1..MaxInst |-> Unmade] /\ table = <<>> /\ retire_q = <<>>
    /\ timers = {} /\ call = [c \in DOMAIN Calls |-> [pc |-> "start", s |-> 0, since |-> 0]]
    /\ handled = {} /\ dead = {} /\ touched = {}

Freed(i) == inst[i].exec = "Freed"
Touch(i) == touched' = IF Freed(i) THEN touched \cup {i} ELSE touched
find == IF table = <<>> THEN 0 ELSE Head(table)
\* notify_enqueued, readmit_from_dormant: Idle or Dormant -> Scheduled.
Notified(a) == IF a.exec \in {"Idle", "Dormant"} THEN [a EXCEPT !.exec = "Scheduled"] ELSE a
Posted(a, d) == Notified([a EXCEPT !.mail = Append(@, d)])
-----------------------------------------------------------------------------
(* Producers.                                                                  *)

\* tell and request_passivate start with a lookup.
resolve(c) ==
    /\ call[c].pc = "start"
    /\ LET to == IF find # 0 THEN "post" ELSE IF Calls[c] = "tell" THEN "activate" ELSE "done"
       IN call' = [call EXCEPT ![c] = [pc |-> to, s |-> find, since |-> now]]
    /\ UNCHANGED <<now, wakes, inst, table, retire_q, timers, handled, dead, touched>>

\* A miss on a declared type: the first message rides to the shard's broker.
activate(c) ==
    /\ call[c].pc = "activate" /\ call' = [call EXCEPT ![c].pc = "done"]
    /\ wakes' = Append(wakes, c)
    /\ UNCHANGED <<now, inst, table, retire_q, timers, handled, dead, touched>>

\* The mailbox exchange, or winning the Deactivate token and enqueueing that ...
enqueue(c) ==
    /\ call[c].pc = "post"
    /\ LET i == call[c].s  won == Calls[c] = "tell" \/ ~inst[i].token IN
       /\ Touch(i)
       /\ inst' = IF Calls[c] = "tell" THEN [inst EXCEPT ![i].mail = Append(@, c)]
                  ELSE IF won THEN [inst EXCEPT ![i].mail = Append(@, Token), ![i].token = TRUE] ELSE inst
       /\ call' = [call EXCEPT ![c].pc = IF won THEN "notify" ELSE "done"]
    /\ UNCHANGED <<now, wakes, table, retire_q, timers, handled, dead>>

\* ... and the wake after it.
notify(c) ==
    /\ call[c].pc = "notify" /\ call' = [call EXCEPT ![c].pc = "done"]
    /\ Touch(call[c].s) /\ inst' = [inst EXCEPT ![call[c].s] = Notified(@)]
    /\ UNCHANGED <<now, wakes, table, retire_q, timers, handled, dead>>
-----------------------------------------------------------------------------
(* The shard's drain owner.                                                    *)

\* handle_wake: deliver to the instance an earlier wake made; else construct,
\* wire, fence and recover, any of which may fail, then own, publish, post.
Fresh == CHOOSE i \in 1..MaxInst : inst[i].exec = "None" /\ \A j \in 1..(i - 1) : inst[j].exec # "None"
handle_wake_NoRecheck(w) ==
    /\ \E i \in 1..MaxInst : inst[i].exec = "None"
    /\ inst' = [inst EXCEPT ![Fresh] = Posted([Unmade EXCEPT !.exec = "Idle"], w)]
    /\ table' = <<Fresh>> \o table /\ UNCHANGED dead
handle_wake(w) ==
    \/ /\ find # 0 /\ inst' = [inst EXCEPT ![find] = Posted(@, w)] /\ UNCHANGED <<table, dead>>
    \/ /\ find = 0 /\ \E i \in 1..MaxInst : inst[i].exec = "None"
       /\ inst' = [inst EXCEPT ![Fresh] = Posted([Unmade EXCEPT !.exec = "Idle"], w)]
       /\ table' = <<Fresh>> \o table /\ UNCHANGED dead
    \/ /\ find = 0 /\ dead' = dead \cup {w} /\ UNCHANGED <<inst, table>>

\* The broker takes its wakes one at a time, each to the end.
ActivationBroker ==
    /\ wakes # <<>> /\ wakes' = Tail(wakes) /\ handle_wake(Head(wakes))
    /\ Overlap \/ \A i \in 1..MaxInst : inst[i].exec # "Retired"
    /\ UNCHANGED <<now, retire_q, timers, call, handled, touched>>

\* note_evicted: due after every wheel entry that holds the pointers has fired.
due_tick == now + IdleTicks + Grace

\* arm_deactivate: a one-shot entry; an older one stays and fires as stale.
arm_deactivate(i) == timers \cup {[i |-> i, at |-> now + IdleTicks]}

\* run_activation: drain; a Deactivate among the mail closes out to Dormant, else
\* to Idle with a fresh Deactivate entry armed.
run_activation(i) ==
    /\ inst[i].exec = "Scheduled"
    /\ LET a == inst[i]  evict == Token \in Range(a.mail)
           idle == [a EXCEPT !.mail = <<>>, !.token = FALSE] IN
       /\ handled' = handled \cup (Range(a.mail) \ {Token})
       /\ inst' = [inst EXCEPT ![i] = IF evict THEN [idle EXCEPT !.exec = "Dormant", !.due = due_tick, !.queued = TRUE]
                                      ELSE [idle EXCEPT !.exec = "Idle", !.armed = now + IdleTicks]]
       /\ timers' = IF evict THEN timers ELSE arm_deactivate(i)
       /\ retire_q' = IF evict /\ ~a.queued THEN Append(retire_q, i) ELSE retire_q
    /\ UNCHANGED <<now, wakes, table, call, dead, touched>>

\* reclaim_sweep of one queued instance, at tick t.
HasWork(a) == a.mail # <<>>
SweepOne(st, i, t) ==
    LET a == st.inst[i]
        keep == [st EXCEPT !.q = Append(@, i)]
        drop == [st EXCEPT !.inst[i].queued = FALSE] IN
    IF t < a.due THEN keep
    ELSE IF a.unlinked = 0
    THEN IF a.exec # "Dormant" THEN drop
         ELSE LET e == IF st.table = <<>> THEN 0 ELSE Head(st.table)   \* unlink: the first entry with this id
              IN [keep EXCEPT !.inst[i] = [a EXCEPT !.exec = "Retired", !.unlinked = e, !.due = t + Grace],
                              !.table = IF e = 0 THEN @ ELSE Tail(@)]
    ELSE IF HasWork(a)
    THEN [drop EXCEPT !.inst[i].exec = "Scheduled", !.inst[i].unlinked = 0, !.table = <<a.unlinked>> \o @]
    ELSE [st EXCEPT !.inst[i] = [Unmade EXCEPT !.exec = "Freed", !.mail = a.mail]]

\* advance_wheel, one tick: fire the entries that are due (on_deactivate_fire: a
\* stale one does nothing), then sweep. No call outlives its patience.
Fire(st, e) ==
    IF st[e.i].armed # e.at THEN st
    ELSE IF st[e.i].token THEN [st EXCEPT ![e.i].armed = 0]
    ELSE [st EXCEPT ![e.i] = Posted([@ EXCEPT !.armed = 0, !.token = TRUE], Token)]
advance_wheel ==
    LET t == now + 1
        due == {e \in timers : e.at <= t}
        fired == FoldLeft(Fire, inst, SetToSeq(due))
        swept == FoldLeft(LAMBDA st, i : SweepOne(st, i, t), [inst |-> fired, table |-> table, q |-> <<>>], retire_q)
    IN /\ now < MaxTime /\ now' = t
       /\ \A c \in DOMAIN Calls : call[c].pc \in {"post", "notify"} => t - call[c].since <= Patience
       /\ timers' = timers \ due
       /\ touched' = touched \cup {e.i : e \in {x \in due : Freed(x.i)}}
       /\ inst' = swept.inst /\ table' = swept.table /\ retire_q' = swept.q
       /\ UNCHANGED <<wakes, call, handled, dead>>

LazyNext ==
    \/ ActivationBroker \/ advance_wheel \/ \E i \in 1..MaxInst : run_activation(i)
    \/ \E c \in DOMAIN Calls : resolve(c) \/ activate(c) \/ enqueue(c) \/ notify(c)

LazySpec == LazyInit /\ [][LazyNext]_lazyVars
-----------------------------------------------------------------------------
Live == {i \in 1..MaxInst : inst[i].exec \in {"Idle", "Scheduled", "Dormant"}}

\* An actor has one activation at a time, however first touches, evictions and
\* reclaims fall (handle_wake's re-check, engine.hpp:1246; the rescue, :1668-1674):
\* two would be two executors of one actor.
OneActivation == \A i, j \in Live : i = j

\* A message is in a caller's hands, with the broker, in the mailbox of an
\* instance that still exists, handled or reclaimed, and in one of these only:
\* no reclaim frees a mailbox that a late producer has put a message in (:1668).
MessagesInOnePlace == \A c \in DOMAIN Calls : Calls[c] = "tell" =>
    LET places == <<call[c].pc \in {"start", "activate", "post"}, c \in Range(wakes), c \in handled, c \in dead>>
                  \o [i \in 1..MaxInst |-> ~Freed(i) /\ c \in Range(inst[i].mail)]
    IN Cardinality({k \in DOMAIN places : places[k]}) = 1

\* Nothing touches an instance after it is freed: not a wheel entry that was
\* armed before the eviction (note_evicted waits idle_ticks, :1642), not the id
\* table, and not a producer that finishes within a grace period (:1662).
NoUseAfterFree == touched = {} /\ \A i \in Range(table) : ~Freed(i)

-----------------------------------------------------------------------------
(* The registry of lazily declared actor types (core/metadata.hpp) and the  *)
(* declarations that fill it (core/engine.hpp): collision, capacity and     *)
(* resource checks under each Validation mode, and the construction a first *)
(* message asks the registry for.                                           *)

CONSTANTS Types,
          type_key_of,   \* type -> its TypeKey, a hash of its name
          Needs,         \* type -> the resource types its wire() resolves
          Scopes,        \* ResourceScopes: sets of resource types
          MaxTypes

NoScope == {"null"}   \* a null ResourceScope pointer

VARIABLES mode,       \* "Strict" or "Permissive"
          records,    \* the published ActorMetadata
          by_key,     \* TypeKey -> index into records, from 0
          report,     \* ValidationReport entries
          declared    \* the answered declarations: [type, scope, store, ok]

regVars == <<mode, records, by_key, report, declared>>

RegInit == mode \in {"Strict", "Permissive"} /\ records = <<>> /\ by_key = <<>> /\ report = <<>> /\ declared = {}

\* compile_actor_metadata, with the scope and the store seams of the declaration.
compile_actor_metadata(A, scope, store) ==
    [type |-> A, key |-> type_key_of[A], index |-> 0, wire |-> Needs[A] # {}, scope |-> scope, recover |-> store]

\* The wire check of a declaration: A's own wire() against the scope, when there
\* is one; the overload that takes a store checks nothing.
wire(A, scope) == Needs[A] \subseteq scope
check(A, scope, store) == store \/ scope = NoScope \/ wire(A, scope)

Entry(severity, k, message) == [severity |-> severity, subject |-> k, message |-> message]
Known(k) == k \in DOMAIN by_key

\* register_metadata: what it reports, and whether it publishes.
Complaint(m, ok) ==
    IF Known(m.key) THEN <<Entry("Error", m.key, "collision")>>
    ELSE IF Len(records) >= MaxTypes THEN <<Entry("Error", m.key, "cap")>>
    ELSE IF ok THEN <<>> ELSE <<Entry(IF mode = "Strict" THEN "Error" ELSE "Warning", m.key, "undeclared")>>
Publishes(m, ok) == ~Known(m.key) /\ Len(records) < MaxTypes /\ (ok \/ mode = "Permissive")
Answered(m, ok) == Publishes(m, ok) \/ (Known(m.key) /\ mode = "Permissive")

register_metadata(m, ok) ==
    /\ report' = report \o Complaint(m, ok)
    /\ IF Publishes(m, ok)
       THEN /\ records' = Append(records, [m EXCEPT !.index = Len(records)])
            /\ by_key' = [k \in DOMAIN by_key \cup {m.key} |-> IF k = m.key THEN Len(records) ELSE by_key[k]]
       ELSE UNCHANGED <<records, by_key>>

\* declare_lazy<A>(scope), declare_lazy<A>(store, scope).
declare_lazy(A, scope, store) ==
    LET m == compile_actor_metadata(A, scope, store)
        ok == check(A, scope, store) IN
    /\ \A d \in declared : d.type # A
    /\ register_metadata(m, ok)
    /\ declared' = declared \cup {[type |-> A, scope |-> scope, store |-> store, ok |-> Answered(m, ok)]}
    /\ UNCHANGED mode

RegNext == \E A \in Types, scope \in Scopes \cup {NoScope}, store \in BOOLEAN : declare_lazy(A, scope, store)

RegSpec == RegInit /\ [][RegNext]_regVars
-----------------------------------------------------------------------------
\* find_type and at.
find_type(k) == records[by_key[k] + 1]
\* handle_wake of a first message to an actor of type A: what it constructs, if
\* the wire pass lets it.
Built(A) == find_type(type_key_of[A]).type
Constructs(A) ==
    LET m == find_type(type_key_of[A]) IN ~m.wire \/ (m.scope # NoScope /\ wire(m.type, m.scope))

\* In Strict mode a type whose declaration was accepted against a scope is built
\* as that very type, and its wire pass succeeds: its first message is not dropped
\* by handle_wake (register_metadata).
StrictConstructs ==
    mode = "Strict" => \A d \in declared :
        d.ok /\ ~d.store /\ d.scope # NoScope => Built(d.type) = d.type /\ Constructs(d.type)

\* Each key indexes the one record that carries it, under the capacity, and an
\* index handed out never names another type later (by_key_, records_).
IndexIsStable ==
    /\ Len(records) <= MaxTypes
    /\ \A k \in DOMAIN by_key : find_type(k).key = k /\ find_type(k).index = by_key[k]
    /\ \A i, j \in DOMAIN records : records[i].key = records[j].key => i = j

\* Whoever is refused, or accepted without being able to start, is in the report,
\* unless it was declared with a store or with no scope (ValidationReport).
ReportExplains ==
    \A d \in declared :
        ~d.ok \/ (~d.store /\ d.scope # NoScope /\ ~wire(d.type, d.scope)) =>
            \E i \in DOMAIN report : report[i].subject = type_key_of[d.type]
=============================================================================
