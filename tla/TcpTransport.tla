---------------------------- MODULE TcpTransport -----------------------------
(***************************************************************************)
(* The plain-HELLO wire of net/tcp_transport.hpp between two nodes: lazy   *)
(* dial, HELLO, the settle handshake (DialHint), the election between two  *)
(* racing connections, the per-peer frame queue, reconnect and admission.  *)
(*                                                                         *)
(* All state of a node belongs to its I/O thread, so one action is one     *)
(* event of its loop.  A socket is a pair of byte streams that keeps its   *)
(* order and may break.  HELLO and hint fit into a fresh socket's buffer;  *)
(* a frame may be loaded, begun and finished in three separate events.     *)
(* Time is the firing of timers in any order and the ageing of a           *)
(* confirmed connection beyond supersede_window_ns_.  The fallback to a    *)
(* relay and back is the second part, with state of its own.               *)
(***************************************************************************)
EXTENDS Naturals, Sequences, FiniteSets, SequencesExt

CONSTANTS MaxSocks,   \* bound: sockets dialled over a behaviour
          FrameKinds, \* bound: kinds of the frames sent, in order, by either node
          MaxEvents   \* bound: frames, sockets broken or reset, changes of node 1's verdict on node 2

VARIABLES node,    \* per node: connection table, pending_in_, outq_, posted work, timers
          socks,   \* the sockets dialled so far
          got,     \* history: frames handed to receiver_
          budget   \* counts for the bounds; eager: a settle timeout came before its hint

vars == <<node, socks, got, budget>>

Nodes == {1, 2}
Peer(n) == 3 - n
keep_local_dial(n) == n < Peer(n)

\* conns_[peer]; out is Conn::out, begun whether out_sent > 0.
NoConn == [st |-> "none", fd |-> 0, mine |-> FALSE, confirmed |-> FALSE, aged |-> FALSE,
           hinted |-> FALSE, hint |-> {}, epoch |-> 0, out |-> <<>>, begun |-> FALSE]

Idle == [conn |-> NoConn, pend |-> {}, control |-> <<>>, data |-> <<>>, posted |-> FALSE,
         timers |-> {}, denied |-> FALSE, sweep |-> FALSE, denied_peer |-> FALSE]

Init == /\ node = [n \in Nodes |-> Idle]
        /\ socks = <<>>
        /\ got = [n \in Nodes |-> <<>>]
        /\ budget = [frames |-> 0, faults |-> 0, eager |-> FALSE]

-----------------------------------------------------------------------------
(* Handlers are functions of the world w, the nodes and the sockets.       *)

World == [node |-> node, socks |-> socks]
Becomes(w) == node' = w.node /\ socks' = w.socks

SetConn(w, n, c) == [w EXCEPT !.node[n].conn = c]

\* Bytes for an end that is closed already are lost.
Put(w, n, k, item) ==
    IF Peer(n) \in w.socks[k].up /\ ~w.socks[k].broken
    THEN [w EXCEPT !.socks[k].to[Peer(n)] = Append(@, item)] ELSE w

retire_fd(w, n, k) == IF k = 0 THEN w ELSE [w EXCEPT !.socks[k].up = @ \ {n}, !.socks[k].to[n] = <<>>]

\* A frame that was not begun goes back to the front of the control queue.
salvage_out(w, n) ==
    LET c == w.node[n].conn
        v == IF c.out # <<>> /\ ~c.begun THEN [w EXCEPT !.node[n].control = c.out \o @] ELSE w
    IN  [v EXCEPT !.node[n].conn.out = <<>>, !.node[n].conn.begun = FALSE]

\* Authenticate frames are removed from the control queue, and only from there.
purge_authenticate(w, n) ==
    [w EXCEPT !.node[n].control = SelectSeq(@, LAMBDA f : f.kind # "auth")]

\* The husk stays in conns_ with its queue; the retry timer is always armed.
schedule_reconnect(w, n) ==
    SetConn(w, n, [NoConn EXCEPT !.st = "Backoff", !.epoch = w.node[n].conn.epoch + 1])

drop_conn(w, n) == SetConn(retire_fd(w, n, w.node[n].conn.fd), n, NoConn)

handle_dead(w, n, k) ==
    IF k \in w.node[n].pend
    THEN [retire_fd(w, n, k) EXCEPT !.node[n].pend = @ \ {k}]
    ELSE LET s == salvage_out(w, n)
             p == IF w.node[n].conn.st = "Open" THEN purge_authenticate(s, n) ELSE s
         IN  schedule_reconnect(retire_fd(p, n, k), n)

confirm_conn(w, n) ==
    [w EXCEPT !.node[n].conn = [@ EXCEPT !.confirmed = TRUE, !.st = "Open", !.epoch = @ + 1]]

backoff_unconfirmed(w, n) ==
    LET s == salvage_out(w, n) IN schedule_reconnect(retire_fd(s, n, s.node[n].conn.fd), n)

\* A dialer waits for the hint of its acceptor, with a timeout.
confirm_or_settle(w, n) ==
    LET e == w.node[n].conn.epoch + 1
    IN  [w EXCEPT !.node[n].conn.epoch = e, !.node[n].timers = @ \cup {e}]

settle(w, n) ==
    LET c == w.node[n].conn
    IN  IF ~c.mine \/ c.confirmed \/ ~c.hinted \/ c.st = "Backoff" THEN w
        ELSE IF c.hint \cap {"Accepted", "Aged"} # {} THEN confirm_conn(w, n)
        ELSE IF "Established" \in c.hint THEN backoff_unconfirmed(w, n)
        ELSE IF "Outbound" \in c.hint THEN w    \* our rival dial is being settled over there
        ELSE confirm_conn(w, n)

\* dial(): the new connection replaces nothing or the husk of the old one.
dial(w, n) ==
    LET k == Len(w.socks) + 1
        s == [by |-> n, up |-> Nodes, broken |-> FALSE, accepted |-> FALSE,
              to |-> [m \in Nodes |-> <<>>]]
    IN  [w EXCEPT !.socks = Append(@, s),
                  !.node[n].conn = [@ EXCEPT !.st = "Connecting", !.fd = k, !.mine = TRUE]]

dial_hint_flags(e) ==
    (IF e.st # "none" /\ ~e.confirmed /\ e.mine THEN {"Outbound"} ELSE {})
      \cup (IF e.confirmed THEN {"Established"} ELSE {})
      \cup (IF e.confirmed /\ e.aged THEN {"Aged"} ELSE {})

\* The acceptor's decision on a newcomer, given its resident connection.
accepted(n, e) ==
    \/ e.st = "none"
    \/ ~e.mine                            \* two inbound ones: the peer reconnects
    \/ e.confirmed /\ e.aged
    \/ ~e.confirmed /\ ~keep_local_dial(n)

\* register_identified for an accepted connection: hint first, then the election.
register_inbound(w, n, k) ==
    LET v == IF w.node[n].conn.st = "Backoff" THEN drop_conn(w, n) ELSE w
        e == v.node[n].conn
        yes == accepted(n, e)
        h == Put(v, n, k, [t |-> "hint", flags |-> dial_hint_flags(e) \cup (IF yes THEN {"Accepted"} ELSE {})])
        new == [NoConn EXCEPT !.st = "Open", !.fd = k, !.confirmed = TRUE, !.epoch = 1]
        s == salvage_out(h, n)
    IN  IF w.node[n].denied THEN handle_dead(w, n, k)
        ELSE IF ~yes THEN handle_dead(h, n, k)    \* close_rejected_pending
        ELSE [SetConn(retire_fd(s, n, e.fd), n, new) EXCEPT !.node[n].pend = @ \ {k}]

-----------------------------------------------------------------------------
(* Events of the loop.                                                     *)

Within == budget.frames + budget.faults < MaxEvents

\* The world does not change its history or its bounds.
Only(w) == Becomes(w) /\ UNCHANGED <<got, budget>>

\* ensure_conn: dial unless there is a connection, or its husk, already.
ensure_conn(w, n) == IF w.node[n].conn.st = "none" THEN dial(w, n) ELSE w

CanDial(n) == node[n].conn.st # "none" \/ Len(socks) < MaxSocks

\* Mutant: the verdict is looked at by the sweep only.
SendFrame_Unasked(n, f) ==
    /\ CanDial(n)
    /\ Becomes([ensure_conn(World, n) EXCEPT !.node[n].data = Append(@, f)])

\* A send posted by any thread; only Control frames use the control queue.
\* `on` remembers the connection a handshake frame was meant for.
SendFrame(n, f) ==
    IF node[n].denied THEN UNCHANGED <<node, socks>>
    ELSE /\ CanDial(n)
         /\ Becomes([ensure_conn(World, n) EXCEPT !.node[n].data = Append(@, f)])

Send(n) ==
    /\ Within /\ budget.frames < Len(FrameKinds)
    /\ budget' = [budget EXCEPT !.frames = @ + 1]
    /\ SendFrame(n, [kind |-> FrameKinds[budget.frames + 1], n |-> budget.frames + 1,
                     on |-> IF node[n].conn.confirmed THEN node[n].conn.fd ELSE 0])
    /\ UNCHANGED got

Connected(n) ==
    LET c == node[n].conn
    IN  /\ c.st = "Connecting" /\ ~socks[c.fd].broken
        /\ Only(Put([World EXCEPT !.node[n].conn.st = "Open"], n, c.fd, [t |-> "hello"]))

OnAccept(n, k) ==
    /\ socks[k].by # n /\ ~socks[k].accepted /\ ~socks[k].broken
    /\ Only(Put([World EXCEPT !.node[n].pend = @ \cup {k}, !.socks[k].accepted = TRUE], n, k, [t |-> "hello"]))

Watched(n) == (node[n].pend \cup {node[n].conn.fd}) \ {0}

\* do_read, one record at a time.
Read(n, k) ==
    /\ k \in Watched(n) /\ socks[k].to[n] # <<>> /\ ~socks[k].broken
    /\ ~(k = node[n].conn.fd /\ node[n].conn.st = "Connecting")
    /\ LET item == Head(socks[k].to[n])
           w == [World EXCEPT !.socks[k].to[n] = Tail(@)]
       IN  \/ /\ item.t = "hello" /\ k \in node[n].pend
              /\ Only(register_inbound(w, n, k))
           \/ /\ item.t = "hello" /\ k \notin node[n].pend
              /\ Only(confirm_or_settle(w, n))
           \/ /\ item.t = "hint"                       \* apply_dial_hint posts settle
              /\ Only([w EXCEPT !.node[n].conn.hinted = TRUE, !.node[n].conn.hint = item.flags,
                                !.node[n].posted = TRUE])
           \/ /\ item.t = "frame"
              /\ got' = [got EXCEPT ![n] = Append(@, item.f)]
              /\ Becomes(w) /\ UNCHANGED budget

Settle(n) == /\ node[n].posted
             /\ Only(settle([World EXCEPT !.node[n].posted = FALSE], n))

\* arm_settle_timeout's timer: the epoch says whether it still concerns the connection.
SettleTimeout(n, e) ==
    /\ e \in node[n].timers
    /\ LET w == [World EXCEPT !.node[n].timers = @ \ {e}]
           c == node[n].conn
           live == c.st \notin {"none", "Backoff"} /\ c.epoch = e /\ ~c.confirmed
       IN  /\ Becomes(IF live THEN confirm_conn(w, n) ELSE w)
           /\ budget' = [budget EXCEPT !.eager = @ \/ (live /\ ~c.hinted)]
           /\ UNCHANGED got

\* EOF, reset or a failed connect.
Dead(n, k) ==
    /\ k \in Watched(n)
    /\ socks[k].broken \/ (Peer(n) \notin socks[k].up /\ socks[k].to[n] = <<>>)
    /\ Only(handle_dead(World, n, k))

\* reset_peer_connection: a live socket is given up, the peer is not.
ResetPeer(n) ==
    /\ node[n].conn.fd # 0 /\ Within
    /\ budget' = [budget EXCEPT !.faults = @ + 1]
    /\ Becomes(handle_dead(World, n, node[n].conn.fd))
    /\ UNCHANGED got

Reconnect(n) ==
    /\ node[n].conn.st = "Backoff"
    /\ IF node[n].denied
       THEN Only([drop_conn(World, n) EXCEPT !.node[n].control = <<>>, !.node[n].data = <<>>,
                                             !.node[n].denied_peer = TRUE])
       ELSE Len(socks) < MaxSocks /\ Only(dial(World, n))

\* flush: load the next frame, write a part of it, write the rest.
load_next_frame(n) ==
    LET c == node[n].conn
        q == IF node[n].control # <<>> THEN "control" ELSE "data"
    IN  /\ c.confirmed /\ c.out = <<>> /\ node[n][q] # <<>>
        /\ Only([World EXCEPT !.node[n].conn.out = <<Head(node[n][q])>>, !.node[n][q] = Tail(@)])

WritePart(n) ==
    /\ node[n].conn.out # <<>> /\ ~node[n].conn.begun
    /\ Only([World EXCEPT !.node[n].conn.begun = TRUE])

WriteRest(n) ==
    LET c == node[n].conn
    IN  /\ c.out # <<>>
        /\ Only(Put([World EXCEPT !.node[n].conn.out = <<>>, !.node[n].conn.begun = FALSE],
                    n, c.fd, [t |-> "frame", f |-> Head(c.out)]))

Age(n) == /\ node[n].conn.confirmed /\ ~node[n].conn.aged
          /\ Only([World EXCEPT !.node[n].conn.aged = TRUE])

\* The admission authority publishes a snapshot: its listener posts the sweep.
Verdict(n) ==
    /\ Within /\ n = 1
    /\ budget' = [budget EXCEPT !.faults = @ + 1]
    /\ node' = [node EXCEPT ![n].denied = ~@, ![n].sweep = TRUE]
    /\ UNCHANGED <<socks, got>>

\* A denied peer loses connection and queue; one let in again is dialled.
admission_sweep(n) ==
    /\ node[n].sweep
    /\ LET w == [World EXCEPT !.node[n].sweep = FALSE]
       IN  \/ /\ node[n].denied
              /\ Only(IF node[n].conn.st = "none" THEN w
                      ELSE [drop_conn(w, n) EXCEPT !.node[n].control = <<>>, !.node[n].data = <<>>,
                                                   !.node[n].denied_peer = TRUE])
           \/ /\ ~node[n].denied /\ node[n].denied_peer /\ CanDial(n)
              /\ Only(ensure_conn([w EXCEPT !.node[n].denied_peer = FALSE], n))
           \/ ~node[n].denied /\ ~node[n].denied_peer /\ Only(w)

Break(k) ==
    /\ Within /\ socks[k].up # {} /\ ~socks[k].broken
    /\ budget' = [budget EXCEPT !.faults = @ + 1]
    /\ socks' = [socks EXCEPT ![k].broken = TRUE, ![k].to = [m \in Nodes |-> <<>>]]
    /\ UNCHANGED <<node, got>>

\* What the I/O thread of a node does by itself.
Loop(n) ==
    \/ Connected(n) \/ Settle(n) \/ Reconnect(n) \/ load_next_frame(n) \/ WriteRest(n)
    \/ admission_sweep(n)
    \/ \E k \in DOMAIN socks : OnAccept(n, k) \/ Read(n, k) \/ Dead(n, k)
    \/ \E e \in node[n].timers : SettleTimeout(n, e)

Next == \/ \E n \in Nodes : \/ Loop(n) \/ Send(n) \/ WritePart(n) \/ Age(n)
                            \/ ResetPeer(n) \/ Verdict(n)
        \/ \E k \in DOMAIN socks : Break(k)

Spec == Init /\ [][Next]_vars

-----------------------------------------------------------------------------

Numbers(s) == [i \in DOMAIN s |-> s[i].n]
DataGot(n) == Numbers(SelectSeq(got[n], LAMBDA f : f.kind = "data"))

\* FIFO per pair and at most once, across supersession, salvage and reconnect:
\* the data frames a node receives are in the order they were sent in, none
\* twice (salvage_out, the election of register_identified), as long as no
\* dialer gave up waiting for the hint.
DataInOrder == ~budget.eager => \A n \in Nodes : \A i, j \in DOMAIN DataGot(n) : i < j => DataGot(n)[i] < DataGot(n)[j]

\* Only the bound on sockets keeps it from dialling.
HeldByBound(n) == Len(socks) = MaxSocks /\ (node[n].conn.st = "Backoff" \/ node[n].sweep)

\* When the loops have nothing left to do, the two nodes agree: either both use
\* the same socket, or neither holds one nor has frames for it (dialer and acceptor settle the
\* election the same way, and nobody waits for a hint that will not come).
SettledAgree ==
    (\A n \in Nodes : ~ENABLED Loop(n) /\ ~HeldByBound(n)) =>
        \/ \A n \in Nodes : node[n].conn.confirmed /\ node[n].conn.fd = node[Peer(n)].conn.fd
        \/ \A n \in Nodes : node[n].conn.st = "none" /\ node[n].control \o node[n].data = <<>>

\* Once a verdict has been swept, a denied peer has no connection, no husk that
\* would be redialled and no queued frame (admission_sweep, do_reconnect).
DeniedIsCut ==
    \A n \in Nodes : node[n].denied /\ ~node[n].sweep =>
        node[n].conn.st = "none" /\ node[n].control = <<>> /\ node[n].data = <<>>

\* "A handshake frame is bound to the connection it was meant for; left queued
\* it is sent on the NEXT connection" (purge_authenticate): no Authenticate
\* frame queued for one established connection travels on another.
HandshakeBound ==
    \A k \in DOMAIN socks, n \in Nodes : \A i \in DOMAIN socks[k].to[n] :
        LET item == socks[k].to[n][i]
        IN  item.t = "frame" /\ item.f.kind = "auth" => item.f.on \in {0, k}

-----------------------------------------------------------------------------
(* Relay fallback (ADR-048), one node's view of one peer with a direct     *)
(* endpoint and a relay: a dial that does not open in time is redialled    *)
(* through the relay; from then on the direct path is probed out of band,  *)
(* and a probe that gets through takes the connection over, after the      *)
(* frame on the wire if there is one.  Timers carry the fallback epoch     *)
(* they were armed in and are never cancelled.  It shares no state with    *)
(* the part above, which has no relay.                                     *)


CONSTANTS MaxFds,     \* bound: sockets opened over a behaviour
          EarlyProbe, \* may a probe get through before the relay connection is confirmed?
          KeepsRoute  \* may a connection be lost whose peer stays relay-routed?

VARIABLES conn,     \* conns_[peer]
          routed,   \* relay_routed_
          alarms,   \* armed timers: give-up and probe, with their epoch
          probes,   \* probes_: socket and epoch
          cutover,  \* pending_cutover_, 0 = none
          fds,      \* sockets this node has open
          used      \* sockets opened so far

relayVars == <<conn, routed, alarms, probes, cutover, fds, used>>

\* armed: first_connecting_ns # 0; mid: a frame is partly written; hello: the
\* peer's HELLO was read, which leads to the confirmation of the connection.
NoDial == [st |-> "none", fd |-> 0, epoch |-> 0, armed |-> FALSE, mid |-> FALSE,
           hello |-> FALSE, confirmed |-> FALSE]

RelayInit == /\ conn = NoDial /\ routed = FALSE /\ alarms = {} /\ probes = {}
        /\ cutover = 0 /\ fds = {} /\ used = 0

-----------------------------------------------------------------------------

Open == used < MaxFds /\ used' = used + 1
NewFd == used + 1

\* arm_fallback_if_needed: one give-up timer per epoch, none on the relay leg.
arm_fallback(c) ==
    IF routed \/ c.armed THEN alarms' = alarms /\ conn' = c
    ELSE /\ alarms' = alarms \cup {[what |-> "giveup", epoch |-> c.epoch]}
         /\ conn' = [c EXCEPT !.armed = TRUE]

Dialled(c) == [c EXCEPT !.st = "Connecting", !.fd = NewFd, !.mid = FALSE]

\* ensure_conn for a send, when there is no connection yet.
Dial ==
    /\ conn.st = "none" /\ Open
    /\ fds' = fds \cup {NewFd}
    /\ arm_fallback(Dialled(NoDial))
    /\ UNCHANGED <<routed, probes, cutover>>

Redial ==
    /\ conn.st = "Backoff" /\ Open
    /\ fds' = fds \cup {NewFd}
    /\ arm_fallback(Dialled(conn))
    /\ UNCHANGED <<routed, probes, cutover>>

\* mark_open: direct or through the relay, the connection is up.
Opened ==
    /\ conn.st = "Connecting"
    /\ conn' = [conn EXCEPT !.st = "Open", !.armed = FALSE]
    /\ UNCHANGED <<routed, alarms, probes, cutover, fds, used>>

\* HELLO and settle handshake are through (above): frames may flow.
Confirmed ==
    /\ conn.st = "Open" /\ ~conn.hello
    /\ conn' = [conn EXCEPT !.hello = TRUE, !.confirmed = TRUE]
    /\ UNCHANGED <<routed, alarms, probes, cutover, fds, used>>

\* The flip of check_relay_timeout: drop, redial through the relay, arm the
\* first probe.  The redial may fail at once: then no probe is armed, while the
\* peer stays routed (KeepsRoute).
Flip(left) ==
    /\ routed' = TRUE
    /\ \/ /\ Open
          /\ fds' = (fds \ {conn.fd}) \cup {NewFd}
          /\ conn' = [Dialled(NoDial) EXCEPT !.epoch = conn.epoch + 1]
          /\ alarms' = left \cup {[what |-> "probe", epoch |-> conn.epoch + 1]}
       \/ /\ KeepsRoute
          /\ fds' = fds \ {conn.fd}
          /\ conn' = NoDial
          /\ alarms' = left
          /\ UNCHANGED used

\* left: the timers that stay armed.
check_relay_timeout(e, left) ==
    IF conn.st \in {"none", "Open"} \/ conn.epoch # e \/ routed
    THEN alarms' = left /\ UNCHANGED <<conn, routed, fds, used>>
    ELSE Flip(left)

GiveUp(a) ==
    /\ a \in alarms /\ a.what = "giveup"
    /\ check_relay_timeout(a.epoch, alarms \ {a})
    /\ UNCHANGED <<probes, cutover>>

\* handle_dead and schedule_reconnect: a dial past its give-up time flips now.
Died ==
    /\ conn.st \in {"Connecting", "Open"}
    /\ \/ /\ ~routed /\ conn.armed
          /\ check_relay_timeout(conn.epoch, alarms)
       \/ /\ conn' = [NoDial EXCEPT !.st = "Backoff", !.epoch = conn.epoch, !.armed = conn.armed]
          /\ fds' = fds \ {conn.fd}
          /\ UNCHANGED <<routed, alarms, used>>
    /\ UNCHANGED <<probes, cutover>>

-----------------------------------------------------------------------------
(* The way back.                                                           *)

\* try_direct_probe: a stale timer does nothing; a failed connect() re-arms.
try_direct_probe(a) ==
    /\ a \in alarms /\ a.what = "probe"
    /\ IF ~routed \/ conn.st = "none" \/ conn.epoch # a.epoch
       THEN alarms' = alarms \ {a} /\ UNCHANGED <<probes, fds, used>>
       ELSE \/ /\ Open
               /\ probes' = probes \cup {[fd |-> NewFd, epoch |-> a.epoch]}
               /\ fds' = fds \cup {NewFd}
               /\ alarms' = alarms \ {a}
            \/ UNCHANGED <<probes, alarms, fds, used>>
    /\ UNCHANGED <<conn, routed, cutover>>

fail_probe(p) ==
    /\ p \in probes
    /\ probes' = probes \ {p}
    /\ fds' = fds \ {p.fd}
    /\ alarms' = IF routed THEN alarms \cup {[what |-> "probe", epoch |-> p.epoch]} ELSE alarms
    /\ UNCHANGED <<conn, routed, cutover, used>>

\* cutover_to_direct: the relay socket is closed, the epoch moves on.
CutOver(fd) ==
    /\ conn' = [conn EXCEPT !.fd = fd, !.epoch = @ + 1, !.armed = FALSE, !.mid = FALSE, !.hello = TRUE]
    /\ routed' = FALSE
    /\ fds' = fds \ {conn.fd}

succeed_probe(p) ==
    /\ p \in probes /\ (EarlyProbe \/ conn.confirmed \/ conn.epoch # p.epoch)
    /\ probes' = probes \ {p}
    /\ IF conn.st = "none" \/ conn.epoch # p.epoch \/ ~routed
       THEN fds' = fds \ {p.fd} /\ UNCHANGED <<conn, routed, cutover>>
       ELSE IF conn.mid THEN cutover' = p.fd /\ UNCHANGED <<conn, routed, fds>>
       ELSE CutOver(p.fd) /\ UNCHANGED cutover
    /\ UNCHANGED <<alarms, used>>

\* flush: a frame is begun; when it is out, a deferred cutover takes place.
FrameBegun ==
    /\ conn.confirmed /\ ~conn.mid
    /\ conn' = [conn EXCEPT !.mid = TRUE]
    /\ UNCHANGED <<routed, alarms, probes, cutover, fds, used>>

FrameSent ==
    /\ conn.mid
    /\ IF cutover # 0 THEN CutOver(cutover) /\ cutover' = 0
       ELSE conn' = [conn EXCEPT !.mid = FALSE] /\ UNCHANGED <<routed, cutover, fds>>
    /\ UNCHANGED <<alarms, probes, used>>

\* A connection the peer dialled wins: on_confirmed forgets relay and cutover.
on_confirmed ==
    /\ conn.st # "Open" /\ Open
    /\ conn' = [NoDial EXCEPT !.st = "Open", !.fd = NewFd, !.hello = TRUE, !.confirmed = TRUE]
    /\ routed' = FALSE /\ cutover' = 0
    /\ fds' = (fds \ {conn.fd, cutover}) \cup {NewFd}
    /\ UNCHANGED <<alarms, probes>>

\* close_peer: discard_relay_fallback_state cancels probes and cutover.
ClosePeer ==
    /\ conn.st # "none"
    /\ conn' = NoDial /\ routed' = FALSE /\ probes' = {} /\ cutover' = 0
    /\ fds' = {}
    /\ UNCHANGED <<alarms, used>>

\* admission_sweep, or do_reconnect on a denied husk: the connection of a peer
\* that is denied for a while goes, what the fallback remembers of it stays.
Swept ==
    /\ conn.st # "none" /\ (routed => KeepsRoute)
    /\ conn' = NoDial
    /\ fds' = fds \ {conn.fd}
    /\ UNCHANGED <<routed, alarms, probes, cutover, used>>

RelayNext == \/ Dial \/ Redial \/ Opened \/ Confirmed \/ Died \/ FrameBegun \/ FrameSent \/ on_confirmed \/ ClosePeer \/ Swept
        \/ \E a \in alarms : GiveUp(a) \/ try_direct_probe(a)
        \/ \E p \in probes : fail_probe(p) \/ succeed_probe(p)

-----------------------------------------------------------------------------

\* Every socket the node has open is owned: by the connection, a probe or the
\* deferred cutover.  "fallback_epoch ... guards a stale check_relay_timeout()/
\* direct-recovery-probe callback from acting on a Conn that has since moved on
\* (recycled, torn down, ...)": a new Conn starts at epoch 0 again.
NoFdLeak == fds \subseteq {conn.fd, cutover} \cup {p.fd : p \in probes}

\* A connection that goes through the relay keeps looking for the way back: a
\* probe of its epoch is armed, under way or waiting to take over
\* (arm_direct_probe).  It holds as long as no peer is left routed without a
\* connection (KeepsRoute): the next one starts at epoch 0, and since the route
\* stands nothing arms a timer for it (arm_fallback).
RecoveryArmed ==
    routed /\ conn.st # "none" =>
        \/ [what |-> "probe", epoch |-> conn.epoch] \in alarms
        \/ \E p \in probes : p.epoch = conn.epoch
        \/ cutover # 0

\* A connection that is up comes to carry frames: the cutover adopts a socket
\* on which HELLO was exchanged already, "already-connected, already-HELLO-
\* confirmed", so nothing but the old confirmation makes it usable.
NeverMute == conn.st = "Open" /\ conn.hello => conn.confirmed
=============================================================================
