--------------------------------- MODULE Swim ---------------------------------
(***************************************************************************)
(* SwimMembership (cluster.hpp, 021, ADR-048, ADR-069, ADR-071): the member *)
(* tables of a few nodes, kept up to date by frames over a transport that  *)
(* delivers at most once, in order per sender and receiver.                *)
(*                                                                         *)
(* A node's state is a record.  The operators on it keep the names of the  *)
(* member functions; a handler (one call of tick, on_frame, suspend, ...)  *)
(* is one action, since all of them run on the node's protocol thread.     *)
(*                                                                         *)
(* Clocks are left out: a deadline that is set may lapse by any later      *)
(* tick, a bounded number of times in a behaviour.  Sequence numbers are     *)
(* reduced to the one comparison made with them: `cur` says that a frame   *)
(* belongs to the probe its requester has in flight.                       *)
(***************************************************************************)
EXTENDS Naturals, FiniteSets, FiniteSetsExt, Sequences

CONSTANTS Nodes,      \* all nodes, members of one cluster
          None,       \* no node, no entry, no probe
          LeftBand,   \* kLeftBand
          ChanCap,    \* bound on the frames queued on one connection
          MaxNet,     \* bound on all frames in flight
          Setups      \* what the hosts may do; one of them is chosen

\* Which hosts call tick (the others only answer), suspend and resume, leave,
\* die and start again, are denied; how many such calls and how many lapsed
\* deadlines there may be.
Setup == [ticks : SUBSET Nodes, mobile : SUBSET Nodes, leavers : SUBSET Nodes,
          restarts : SUBSET Nodes, deniable : SUBSET Nodes, ops : Nat, lapses : Nat]

ASSUME BoundsAssumption == ChanCap \in Nat \ {0} /\ MaxNet \in Nat
ASSUME SetupsAssumption == \A u \in Setups : u \in Setup
\* A departure outranks every incarnation the node could have had before it.
ASSUME LeftBandAssumption == /\ LeftBand \in Nat
                             /\ \A u \in Setups : LeftBand > u.ops + u.lapses + 1

VARIABLES setup,    \* the setup, fixed
          node,     \* the SwimMembership of each node
          net,      \* net[<<a, b>>]: frames from a to b not delivered yet
          lapses,   \* how many deadlines have lapsed
          ops       \* how many host calls were made

vars == <<setup, node, net, lapses, ops>>

Channels == {c \in Nodes \X Nodes : c[1] # c[2]}
Status == {"Alive", "Suspect", "Dead", "Left"}
Kinds == {"Ping", "Ack", "PingReq", "PingReqAck", "Gossip", "Join", "JoinAck", "Suspend"}

\* struct Member.  `lapsed` is lease_expired_inc.
Entry == [inc : Nat, st : Status, ver : BOOLEAN, verify : BOOLEAN, lapsed : Nat]
Update == [inc : Nat, st : Status]
ASSUME NodesAssumption == IsFiniteSet(Nodes) /\ None \notin Nodes \cup Entry
ProbeState == [to : Nodes \cup {None}, indirect : BOOLEAN, acked : BOOLEAN]
NoProbe == [to |-> None, indirect |-> FALSE, acked |-> FALSE]

\* The fields of SwimMembership: self_incarnation_, self_left_, suspended_self_,
\* members_, suspended_leases_ (the incarnation of a lease, 0 for none),
\* probe_, snapshot_, verified_snapshot_, the admission snapshot and
\* admission_dirty_.  `roster` is what a subscriber of the membership events
\* knows: Joined adds a node; Dead, Left and Evicted remove it.
NodeState == [up : BOOLEAN, inc : Nat, left : BOOLEAN, asleep : BOOLEAN,
              tab : [Nodes -> Entry \cup {None}], lease : [Nodes -> Nat],
              probe : ProbeState, live : SUBSET Nodes, placed : SUBSET Nodes,
              roster : SUBSET Nodes, denied : SUBSET Nodes, dirty : BOOLEAN]

is_tomb(st) == st \in {"Dead", "Left"}
Known(s) == {p \in Nodes : s.tab[p] # None}
Live(s) == {p \in Known(s) : ~is_tomb(s.tab[p].st)}
live_peers(s, n) == Live(s) \ {n}
awake_peers(s, n) == {p \in live_peers(s, n) : s.lease[p] = 0}
incarnation_of(s, p) == IF s.tab[p] = None THEN 0 ELSE s.tab[p].inc

-----------------------------------------------------------------------------
(* Merging what a node learns *)

\* Publish the live set and, of it, the members with first-hand evidence.
republish(s) == [s EXCEPT !.live = Live(s), !.placed = {p \in Live(s) : s.tab[p].ver}]

\* Mutant: a tombstone leaves the lease behind (test_faults.keep_lease_on_tombstone).
note_transition_KeepLease(s, p) ==
    IF is_tomb(s.tab[p].st) THEN [s EXCEPT !.roster = @ \ {p}]
    ELSE IF s.tab[p].ver THEN [s EXCEPT !.roster = @ \cup {p}] ELSE s

\* Tell the subscribers; a tombstone holds no lease.
note_transition(s, p) ==
    IF is_tomb(s.tab[p].st) THEN [s EXCEPT !.roster = @ \ {p}, !.lease[p] = 0]
    ELSE IF s.tab[p].ver THEN [s EXCEPT !.roster = @ \cup {p}] ELSE s

\* A Suspect or Dead of ourselves at our incarnation or above: outrank it.
refute(s, n, i, st) ==
    IF s.left \/ st \in {"Alive", "Left"} \/ i < s.inc THEN s
    ELSE [s EXCEPT !.inc = i + 1, !.tab[n].inc = i + 1, !.tab[n].st = "Alive"]

\* An update about a node we have no entry for.
insert(s, p, i, st, src) ==
    IF st = "Suspect" \/ (is_tomb(st) /\ src # "Local") THEN s
    ELSE LET new == [inc |-> i, st |-> st, ver |-> src \in {"Direct", "Join"},
                     verify |-> FALSE, lapsed |-> 0]
             t == [s EXCEPT !.tab[p] = new]
         IN note_transition(IF is_tomb(st) THEN t ELSE republish(t), p)

\* Mutant: an Alive at the same incarnation lifts a suspicion or a tombstone.
takes_Alive(e, i, st, src, recent) ==
    CASE st = "Alive" -> i >= e.inc
      [] st = "Suspect" -> i > e.inc \/ (i = e.inc /\ e.st = "Alive")
      [] st = "Dead" -> e.st # "Left" /\ i >= e.inc
      [] st = "Left" -> i >= e.inc

\* Does the update supersede the entry?  A second-hand Dead never touches a
\* tombstone, and one about a peer heard from of late is vetoed (R2).
takes(e, i, st, src, recent) ==
    CASE st = "Alive" -> \/ i > e.inc
                         \/ src = "JoinSnapshot" /\ e.st = "Dead" /\ i >= e.inc
      [] st = "Suspect" -> i > e.inc \/ (i = e.inc /\ e.st = "Alive")
      [] st = "Dead" /\ src = "Local" -> e.st # "Left" /\ i >= e.inc
      [] st = "Dead" /\ src # "Local" ->
             ~is_tomb(e.st) /\ (i > e.inc \/ (i = e.inc /\ e.st = "Alive" /\ ~recent))
      [] st = "Left" -> i > e.inc \/ (i = e.inc /\ e.st # "Left")

\* The status it leads to: a second-hand Dead is only a reason to suspect
\* (R1), and so is a snapshot's Alive about a node we hold Dead.
leads_to(e, i, st, src) ==
    IF \/ st = "Dead" /\ src # "Local"
       \/ st = "Alive" /\ src = "JoinSnapshot" /\ e.st = "Dead" /\ i >= e.inc
    THEN "Suspect" ELSE st

\* An update about a node we have an entry for.
merge(s, p, i, st, src, recent) ==
    LET e == s.tab[p]
        ver == e.ver \/ src \in {"Direct", "Join"}
        take == takes(e, i, st, src, recent)
        next == IF take THEN leads_to(e, i, st, src) ELSE e.st
        new == [e EXCEPT !.ver = ver, !.st = next,
                         !.inc = IF take THEN i ELSE @,
                         !.verify = IF take THEN next = "Suspect" /\ src \in {"Gossip", "JoinSnapshot"}
                                    ELSE @]
        t == [s EXCEPT !.tab[p] = new]
        changed == (is_tomb(e.st) # is_tomb(next)) \/ (ver # e.ver)
        u == IF changed THEN republish(t) ELSE t
    IN IF take \/ ver # e.ver THEN note_transition(u, p) ELSE u

\* The one place where a table changes (reaping aside).  A node the admission
\* snapshot denies stays out; while a member's own lease is held, hearsay
\* about its silence is dropped.
apply_update(s, n, p, i, st, src, recent) ==
    IF p = n THEN refute(s, n, i, st)
    ELSE IF \/ p \in s.denied /\ ~is_tomb(st)
            \/ s.lease[p] # 0 /\ st \in {"Suspect", "Dead"} /\ src # "Local" THEN s
    ELSE IF s.tab[p] = None THEN insert(s, p, i, st, src)
    ELSE merge(s, p, i, st, src, recent)

\* The updates upd about the nodes D, one after the other.
apply_all(s, n, D, upd, src, recent) ==
    FoldSet(LAMBDA p, t : apply_update(t, n, p, upd[p].inc, upd[p].st, src, p \in recent), s, D)

\* Tombstone every live member the snapshot denies.
evict_denied(s, n) ==
    LET D == live_peers(s, n) \cap s.denied
    IN apply_all(s, n, D, [p \in D |-> [inc |-> s.tab[p].inc, st |-> "Dead"]], "Local", {})

\* The end of every handler: a snapshot published meanwhile is applied.
flush_events(s, n) == IF s.dirty THEN [evict_denied(s, n) EXCEPT !.dirty = FALSE] ELSE s

-----------------------------------------------------------------------------
(* Frames *)

\* fill_digest: the receiver's entry, the sender's own, and those of the
\* verified members whose turn it is (the piggyback and the rotation).
digest(s, n, to, turn) ==
    LET D == {n} \cup (Known(s) \cap {to})
               \cup {p \in Known(s) \cap turn : s.tab[p].ver /\ p # to}
    IN [p \in D |-> [inc |-> s.tab[p].inc, st |-> s.tab[p].st]]

\* A frame to send; `sub` and `sinc` are subject and subject_incarnation.
Out(kind, to, sub, sinc, cur) == [kind |-> kind, to |-> to, sub |-> sub, sinc |-> sinc, cur |-> cur]

\* send_control stamps it with the sender's incarnation and digest.
stamped(s, n, o, turn) ==
    [kind |-> o.kind, from |-> n, to |-> o.to, finc |-> s.inc, sub |-> o.sub,
     sinc |-> o.sinc, cur |-> o.cur, upd |-> digest(s, n, o.to, turn)]

InFlight(base) == FoldSet(LAMBDA c, k : k + Len(base[c]), 0, Channels)

\* The transport loses frames; of those one handler sends, at most one
\* survives here.
send_control(s, n, base, out) ==
    \/ net' = base
    \/ \E o \in out :
         /\ Len(base[<<n, o.to>>]) < ChanCap
         /\ InFlight(base) < MaxNet
         /\ \E turn \in SUBSET (Nodes \ {n, o.to}) :
              net' = [base EXCEPT ![<<n, o.to>>] = Append(@, stamped(s, n, o, turn))]

\* Who waits for the answer a frame asks for or carries.
requester(f) == IF f.kind \in {"Ping", "Ack"} /\ f.sub # None THEN f.sub
                ELSE IF f.kind \in {"Ack", "PingReqAck"} THEN f.to ELSE f.from

\* A closed probe's sequence number never comes back.
close_probe(n) ==
    [c \in Channels |-> [k \in DOMAIN net[c] |->
        IF requester(net[c][k]) = n THEN [net[c][k] EXCEPT !.cur = FALSE] ELSE net[c][k]]]

-----------------------------------------------------------------------------
(* Frames a node receives *)

\* A verified member announced its own suspension at no older incarnation
\* than we know, and not again after a lease of it lapsed: grant the lease.
on_suspend_announced(s, n, f) ==
    LET e == s.tab[f.from] IN
    IF \/ e = None \/ is_tomb(e.st) \/ ~e.ver
       \/ f.finc < e.inc
       \/ e.lapsed # 0 /\ f.finc <= e.lapsed THEN s
    ELSE [s EXCEPT !.lease[f.from] = f.finc,
                   !.tab[f.from].st = "Alive",
                   !.tab[f.from].verify = IF e.st = "Suspect" THEN FALSE ELSE @,
                   !.probe = IF @.to = f.from THEN NoProbe ELSE @]

\* A frame at a higher incarnation than the lease's: the member is back.
on_leased_peer_spoke(s, f) ==
    IF f.kind # "Suspend" /\ s.lease[f.from] # 0 /\ f.finc > s.lease[f.from]
    THEN [s EXCEPT !.lease[f.from] = 0] ELSE s

\* The updates of a digest.  Only a node itself may say that it left.
absorb(s, n, f, recent) ==
    apply_all(s, n, {p \in DOMAIN f.upd : f.upd[p].st = "Left" => p = f.from}, f.upd, "Gossip", recent)

\* A Join is admitted above any tombstone and ends the lease of a former life.
on_join(s, n, f) ==
    LET e == s.tab[f.from]
        inc == IF e # None /\ is_tomb(e.st) /\ e.inc >= f.sinc THEN e.inc + 1 ELSE f.sinc
    IN [apply_update(s, n, f.from, inc, "Alive", "Join", FALSE) EXCEPT !.lease[f.from] = 0]

\* The joiner adopts the incarnation assigned to it and the snapshot.
on_join_ack(s, n, f) ==
    LET adopt == ~s.left /\ f.sinc > s.inc
        t == IF adopt THEN [s EXCEPT !.inc = f.sinc, !.tab[n].inc = f.sinc] ELSE s
    IN apply_all(t, n, {p \in DOMAIN f.upd : f.upd[p].st = "Alive"}, f.upd, "JoinSnapshot", {})

\* The answer to the probe in flight.
acked(s, target, f) ==
    IF f.cur /\ s.probe.to = target THEN [s EXCEPT !.probe.acked = TRUE] ELSE s

by_kind(s, n, f) ==
    CASE f.kind = "Ack" ->
           LET t == apply_update(s, n, f.from, f.finc, "Alive", "Direct", FALSE)
           IN IF f.sub = None THEN acked(t, f.from, f) ELSE t
      [] f.kind = "PingReqAck" ->
           apply_update(acked(s, f.sub, f), n, f.sub, f.sinc, "Alive", "Gossip", FALSE)
      [] f.kind = "Join" -> on_join(s, n, f)
      [] f.kind = "JoinAck" -> on_join_ack(s, n, f)
      [] f.kind = "Suspend" -> on_suspend_announced(s, n, f)
      [] OTHER -> s

\* A frame is evidence that its sender is alive, recorded before its digest
\* is merged, so a stale accusation in it cannot override it.
handle_control(s, n, f, recent) ==
    LET known == s.tab[f.from] # None
        t == IF known THEN on_leased_peer_spoke(
                             apply_update(s, n, f.from, f.finc, "Alive", "Direct", FALSE), f)
             ELSE s
    IN by_kind(absorb(t, n, f, recent \cup (IF known THEN {f.from} ELSE {})), n, f)

\* What the frame is answered with.  A relay keeps no state: the requester
\* travels in the Ping it forwards and comes back in the Ack.
replies(s, n, f) ==
    CASE f.kind = "Ping" -> {Out("Ack", f.from, f.sub, 0, f.cur)}
      [] f.kind = "Ack" /\ f.sub \notin {None, n} ->
           {Out("PingReqAck", f.sub, f.from, f.finc, f.cur)}
      [] f.kind = "PingReq" /\ f.sub # n -> {Out("Ping", f.sub, f.from, 0, f.cur)}
      [] f.kind = "Join" ->
           {Out("JoinAck", f.from, f.from, incarnation_of(s, f.from), FALSE)}
      [] OTHER -> {}

\* Members heard from directly, of late or not: the clock decides.
Doubtful(s, f) == {p \in DOMAIN f.upd : /\ s.tab[p] # None /\ s.tab[p].ver
                                        /\ f.upd[p].st = "Dead" /\ f.upd[p].inc = s.tab[p].inc}

\* on_frame of an awake node.
Receive(c) ==
    /\ net[c] # <<>> /\ node[c[2]].up /\ ~node[c[2]].asleep
    /\ LET n == c[2]
           f == Head(net[c])
           s == node[n]
       IN \E recent \in SUBSET Doubtful(s, f) :
            LET t == handle_control(s, n, f, recent)
                closed == s.probe.to # None /\ t.probe.to = None
                rest == [(IF closed THEN close_probe(n) ELSE net) EXCEPT ![c] = Tail(@)]
            IN /\ node' = [node EXCEPT ![n] = flush_events(t, n)]
               /\ send_control(t, n, rest, replies(t, n, f))
    /\ UNCHANGED <<setup, lapses, ops>>

\* A suspended node ignores the frame, but still applies a pending eviction.
ReceiveAsleep(c) ==
    /\ net[c] # <<>> /\ node[c[2]].up /\ node[c[2]].asleep
    /\ node' = [node EXCEPT ![c[2]] = flush_events(@, c[2])]
    /\ net' = [net EXCEPT ![c] = Tail(@)]
    /\ UNCHANGED <<setup, lapses, ops>>

\* The connection broke, or nobody is there to read.
Lose(c) ==
    /\ net[c] # <<>>
    /\ net' = [net EXCEPT ![c] = Tail(@)]
    /\ UNCHANGED <<setup, node, lapses, ops>>

-----------------------------------------------------------------------------
(* The protocol period *)

\* The deadlines that are running.
Deadlines(s, n) ==
    {<<"lease", p>> : p \in {q \in Nodes : s.lease[q] # 0}}
      \cup {<<"suspect", p>> : p \in {q \in awake_peers(s, n) : s.tab[q].st = "Suspect"}}
      \cup {<<"tomb", p>> : p \in Known(s) \ ({n} \cup Live(s))}
      \cup {<<"ghost", p>> : p \in {q \in live_peers(s, n) : ~s.tab[q].ver}}
      \cup {<<"probe", p>> : p \in {s.probe.to} \ {None}}

\* The lapsed leases are taken off the list; each live member that held one
\* becomes an ordinary suspect.
expire_suspend_leases(s, n, P) ==
    LET D == P \cap Live(s)
        t == [s EXCEPT !.lease = [p \in Nodes |-> IF p \in P THEN 0 ELSE s.lease[p]],
                       !.tab = [p \in Nodes |-> IF p \in D THEN [s.tab[p] EXCEPT !.lapsed = s.tab[p].inc]
                                                ELSE s.tab[p]]]
    IN apply_all(t, n, D, [p \in D |-> [inc |-> s.tab[p].inc, st |-> "Suspect"]], "Local", {})

\* Suspect to Dead, the only way to infer a death; then note_transition of
\* each that died.
reap_suspects(s, P) ==
    LET t == [s EXCEPT !.tab = [p \in Nodes |->
                IF p \in P THEN [s.tab[p] EXCEPT !.st = "Dead", !.verify = FALSE] ELSE s.tab[p]]]
        u == IF P = {} THEN t ELSE republish(t)
    IN [u EXCEPT !.roster = @ \ P, !.lease = [p \in Nodes |-> IF p \in P THEN 0 ELSE s.lease[p]]]

erase(s, P) == [s EXCEPT !.tab = [p \in Nodes |-> IF p \in P THEN None ELSE s.tab[p]]]
reap_tombstones(s, P) == erase(s, P)
reap_unverified(s, P) == IF P = {} THEN s ELSE republish(erase(s, P))

\* Resolve or escalate the probe in flight: a missed direct ack asks relays,
\* a missed indirect one makes the target suspect.
drive_probe(s, n, lapsed) ==
    LET p == s.probe.to
        closed == [s EXCEPT !.probe = NoProbe] IN
    CASE p = None -> s
      [] p # None /\ (s.probe.acked \/ p \notin awake_peers(s, n)) -> closed
      [] p \in awake_peers(s, n) /\ ~s.probe.acked ->
           IF ~lapsed THEN s
           ELSE IF ~s.probe.indirect THEN [s EXCEPT !.probe.indirect = TRUE]
           ELSE apply_update(closed, n, p, incarnation_of(s, p), "Suspect", "Local", FALSE)

\* All of tick up to start_probe.
housekeep(s, n, lapsed) ==
    LET P(what) == {p \in Nodes : <<what, p>> \in lapsed}
        t == reap_suspects(expire_suspend_leases(s, n, P("lease")), P("suspect"))
        u == reap_unverified(reap_tombstones(t, P("tomb")), P("ghost"))
    IN drive_probe(u, n, P("probe") # {})

start_probe(s, target) ==
    [s EXCEPT !.probe = [to |-> target, indirect |-> FALSE, acked |-> FALSE]]

\* send_indirect, the Ping of start_probe, send_verifies, probe_tombstones
\* and gossip_round.
tick_frames(s, n, asked, started) ==
    {Out("PingReq", p, s.probe.to, 0, TRUE) :
         p \in IF asked THEN awake_peers(s, n) \ {s.probe.to} ELSE {}}
      \cup {Out("Ping", p, None, 0, TRUE) : p \in IF started THEN {s.probe.to} ELSE {}}
      \cup {Out("Ping", p, None, 0, FALSE) :
               p \in {q \in Known(s) \ {n} : \/ s.tab[q].st = "Suspect" /\ s.tab[q].verify
                                             \/ s.tab[q].st = "Dead"}}
      \cup {Out("Gossip", p, None, 0, FALSE) : p \in awake_peers(s, n)}

\* It takes every pending verification off its queue.
send_verifies(s) == [s EXCEPT !.tab = [p \in Nodes |-> IF s.tab[p] = None THEN None
                                                  ELSE [s.tab[p] EXCEPT !.verify = FALSE]]]

Tick(n) ==
    /\ n \in setup.ticks
    /\ node[n].up /\ ~node[n].asleep
    /\ \E lapsed \in SUBSET Deadlines(node[n], n) :
         LET s == node[n]
             t == housekeep(s, n, lapsed)
             closed == s.probe.to # None /\ t.probe.to = None
             asked == t.probe.indirect /\ ~s.probe.indirect
             targets == IF t.probe.to = None THEN awake_peers(t, n) ELSE {}
         IN /\ lapses + Cardinality(lapsed) <= setup.lapses
            /\ lapses' = lapses + Cardinality(lapsed)
            /\ \E target \in IF targets = {} THEN {None} ELSE targets :
                 LET u == IF target = None THEN t ELSE start_probe(t, target)
                 IN /\ node' = [node EXCEPT ![n] = flush_events(send_verifies(u), n)]
                    /\ send_control(u, n, IF closed THEN close_probe(n) ELSE net,
                                    tick_frames(u, n, asked, target # None))
    /\ UNCHANGED <<setup, ops>>

\* A suspended process runs no protocol, but applies a pending eviction.
TickAsleep(n) ==
    /\ n \in setup.ticks
    /\ node[n].up /\ node[n].asleep /\ node[n].dirty
    /\ node' = [node EXCEPT ![n] = flush_events(@, n)]
    /\ UNCHANGED <<setup, net, lapses, ops>>

-----------------------------------------------------------------------------
(* What the host calls *)

HostCall == ops < setup.ops /\ ops' = ops + 1 /\ UNCHANGED <<setup, lapses>>

\* Tell every live peer, once, then go quiet.
Suspend(n) ==
    /\ n \in setup.mobile /\ HostCall
    /\ node[n].up /\ ~node[n].asleep /\ ~node[n].left
    /\ node' = [node EXCEPT ![n].asleep = TRUE]
    /\ send_control(node[n], n, net, {Out("Suspend", p, None, 0, FALSE) : p \in live_peers(node[n], n)})

\* Evict first, then come back at a higher incarnation and say so.
Resume(n) ==
    /\ node[n].up /\ node[n].asleep
    /\ LET s == evict_denied([node[n] EXCEPT !.asleep = FALSE], n)
           t == [s EXCEPT !.inc = @ + 1, !.tab[n].inc = s.inc + 1, !.probe = NoProbe]
       IN /\ node' = [node EXCEPT ![n] = flush_events(t, n)]
          /\ send_control(t, n, close_probe(n), {Out("Gossip", p, None, 0, FALSE) : p \in live_peers(t, n)})
    /\ UNCHANGED <<setup, lapses, ops>>

\* The probe in flight on the old path says nothing about the peer.
NetworkChanged(n) ==
    /\ n \in setup.mobile /\ HostCall
    /\ node[n].up /\ ~node[n].asleep
    /\ node' = [node EXCEPT ![n].probe = NoProbe]
    /\ net' = close_probe(n)

\* leave(self): an authoritative departure.
Leave(n) ==
    /\ n \in setup.leavers /\ HostCall
    /\ node[n].up /\ ~node[n].left
    /\ LET i == node[n].tab[n].inc + LeftBand
           s == [node[n] EXCEPT !.inc = i, !.left = TRUE, !.tab[n].inc = i, !.tab[n].st = "Left"]
       IN node' = [node EXCEPT ![n] = flush_events(note_transition(republish(s), n), n)]
    /\ UNCHANGED net

\* leave(who): take another node out of this node's roster.
LeaveOther(n, p) ==
    /\ p \in setup.leavers \ {n} /\ HostCall
    /\ node[n].up
    /\ LET s == node[n]
       IN node' = [node EXCEPT ![n] = flush_events(
                    apply_update(s, n, p, incarnation_of(s, p) + LeftBand, "Left", "Local", FALSE), n)]
    /\ UNCHANGED net

\* admit(joiner): above any tombstone.
Admit(n, p) ==
    /\ p \in setup.leavers \ {n} /\ HostCall
    /\ node[n].up
    /\ LET s == node[n]
           i == IF p \in Known(s) \ Live(s) THEN s.tab[p].inc + 1 ELSE 0
       IN node' = [node EXCEPT ![n] = flush_events(apply_update(s, n, p, i, "Alive", "Join", FALSE), n)]
    /\ UNCHANGED net

\* The authority publishes a snapshot that denies p, on a thread of its own.
Deny(n, p) ==
    /\ p \in setup.deniable \ {n} /\ HostCall
    /\ node[n].up /\ p \notin node[n].denied
    /\ node' = [node EXCEPT ![n].denied = @ \cup {p}, ![n].dirty = TRUE]
    /\ UNCHANGED net

\* A process that has just been constructed knows itself only.
Born(n) ==
    [up |-> TRUE, inc |-> 1, left |-> FALSE, asleep |-> FALSE,
     tab |-> [p \in Nodes |-> IF p = n THEN [inc |-> 1, st |-> "Alive", ver |-> TRUE,
                                             verify |-> FALSE, lapsed |-> 0] ELSE None],
     lease |-> [p \in Nodes |-> 0], probe |-> NoProbe, live |-> {n}, placed |-> {n},
     roster |-> {n}, denied |-> {}, dirty |-> FALSE]

\* The process dies, at any point between two handlers.
Crash(n) ==
    /\ n \in setup.restarts /\ HostCall
    /\ node[n].up
    /\ node' = [node EXCEPT ![n] = [Born(n) EXCEPT !.up = FALSE]]
    /\ UNCHANGED net

Restart(n) ==
    /\ ~node[n].up
    /\ node' = [node EXCEPT ![n].up = TRUE]
    /\ UNCHANGED <<setup, net, lapses, ops>>

\* request_join, by a process that has just started.
RequestJoin(n, seed) ==
    /\ n \in setup.restarts
    /\ seed # n /\ node[n].up /\ Known(node[n]) = {n} /\ ~node[n].left
    /\ node[n].inc = 1
    /\ send_control(node[n], n, net, {Out("Join", seed, n, node[n].inc, FALSE)})
    /\ UNCHANGED <<setup, node, lapses, ops>>

-----------------------------------------------------------------------------
\* A cluster that has formed: everyone has heard from everyone.
Init ==
    /\ setup \in Setups
    /\ node = [n \in Nodes |-> [Born(n) EXCEPT
                 !.tab = [p \in Nodes |-> [inc |-> 1, st |-> "Alive", ver |-> TRUE,
                                           verify |-> FALSE, lapsed |-> 0]],
                 !.live = Nodes, !.placed = Nodes, !.roster = Nodes]]
    /\ net = [c \in Channels |-> <<>>]
    /\ lapses = 0
    /\ ops = 0

Next ==
    \/ \E c \in Channels : Receive(c) \/ ReceiveAsleep(c) \/ Lose(c)
    \/ \E n \in Nodes : \/ Tick(n) \/ TickAsleep(n)
                        \/ Suspend(n) \/ Resume(n) \/ NetworkChanged(n)
                        \/ Leave(n) \/ Crash(n) \/ Restart(n)
    \/ \E n, p \in Nodes : LeaveOther(n, p) \/ Admit(n, p) \/ Deny(n, p) \/ RequestJoin(n, p)

Spec == Init /\ [][Next]_vars

-----------------------------------------------------------------------------
(* Properties *)

IsFrame(f) ==
    /\ f.kind \in Kinds /\ f.from \in Nodes /\ f.to \in Nodes /\ f.finc \in Nat
    /\ f.sub \in Nodes \cup {None} /\ f.sinc \in Nat /\ f.cur \in BOOLEAN
    /\ DOMAIN f.upd \subseteq Nodes /\ f.upd \in [DOMAIN f.upd -> Update]

\* Types of the member tables, the connections and the bounds.
TypeOK ==
    /\ setup \in Setups
    /\ node \in [Nodes -> NodeState]
    /\ DOMAIN net = Channels /\ InFlight(net) <= MaxNet
    /\ \A c \in Channels : Len(net[c]) <= ChanCap /\ \A k \in DOMAIN net[c] : IsFrame(net[c][k])
    /\ lapses \in 0..setup.lapses
    /\ ops \in 0..setup.ops

\* Between two handlers the published views are those of the table, whatever
\* path changed it (merge, reaping, eviction, leave), and a subscriber who
\* replays the membership events arrives at exactly the placement view.
RosterPublished ==
    \A n \in Nodes : LET s == node[n] IN
        /\ s.live = Live(s)
        /\ s.placed = {p \in Live(s) : s.tab[p].ver}
        /\ s.roster = s.placed

\* A member whose lease is held is in the table, verified and Alive: it is
\* neither suspected nor dead while the lease lasts, and no lease outlives
\* its member to shield a later process.
LeaseShieldsTheLiving ==
    \A n \in Nodes, p \in Nodes : node[n].lease[p] # 0 =>
        /\ p # n /\ node[n].tab[p] # None
        /\ node[n].tab[p].st = "Alive" /\ node[n].tab[p].ver

\* Once a denial has been applied, nothing a frame says (an update, a Join,
\* a direct answer, a snapshot) brings the node back into the live view.
DeniedStaysOut ==
    \A n \in Nodes : ~node[n].dirty => node[n].denied \cap node[n].live = {}

\* Incarnations come from the node they are about: its own entry is what it
\* tells the others, and where nobody is admitted anew, no table and no frame
\* holds an incarnation its node has not reached.
IncarnationsIssued ==
    \A n \in Nodes :
        /\ node[n].tab[n].inc = node[n].inc
        /\ setup.restarts = {} /\ setup.leavers = {} =>
             /\ \A p \in Known(node[n]) : node[n].tab[p].inc <= node[p].inc
             /\ \A p \in Nodes \ {n} : \A k \in DOMAIN net[<<n, p>>] :
                  LET f == net[<<n, p>>][k] IN \A q \in DOMAIN f.upd : f.upd[q].inc <= node[q].inc

\* What a node's table says is what it publishes and what its subscribers were
\* told (seven paths change it); a lease shields only a live member; a denied
\* node is in no view, whatever arrives late; and every incarnation was issued
\* by its own node (note_transition, apply_update, drive_probe, admit).
TableIsSound ==
    /\ TypeOK
    /\ RosterPublished
    /\ LeaseShieldsTheLiving
    /\ DeniedStaysOut
    /\ IncarnationsIssued

Rank(st) == CASE st = "Alive" -> 0 [] st = "Suspect" -> 1 [] st = "Dead" -> 2 [] st = "Left" -> 3

\* The precedence of SWIM: as long as a node keeps an entry, its incarnation
\* never falls, and at one incarnation its status only gets worse, but for
\* the two cases the code means: a suspicion withdrawn for a lease, and a
\* tombstone re-tested after a Join.
Precedence ==
    [][\A n \in Nodes, p \in Nodes :
         LET e == node[n].tab[p]
             d == node'[n].tab[p]
         IN (e # None /\ d # None /\ node'[n].up /\ p # n) =>
              \/ d.inc > e.inc
              \/ d.inc = e.inc /\ Rank(d.st) >= Rank(e.st)
              \/ d.inc = e.inc /\ e.st = "Suspect" /\ d.st = "Alive" /\ node'[n].lease[p] # 0
              \/ d.inc = e.inc /\ e.st = "Dead" /\ d.st = "Suspect" /\ d.verify]_vars

\* A departure is final: whoever recorded it keeps it until the tombstone is
\* reaped, or until an admission (admit, or the Join of a later process)
\* assigns an incarnation above every one the departed process announced.
LeftIsFinal ==
    [][\A n, p \in Nodes :
         (/\ p # n /\ node[p].left /\ node'[p].left /\ node[n].up /\ node'[n].up
          /\ node[n].tab[p] # None /\ node[n].tab[p].st = "Left" /\ node'[n].tab[p] # None)
         => node'[n].tab[p].st = "Left" \/ node'[n].tab[p].inc > node[p].inc]_vars

\* An entry is replaced by newer news only, but for a suspicion withdrawn for a
\* lease and a tombstone that is tested again, and a departure is final until
\* an admission assigns a higher incarnation (apply_update, merge, admit).
OnlyNewerNews == Precedence /\ LeftIsFinal
=============================================================================
