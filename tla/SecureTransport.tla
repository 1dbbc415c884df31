--------------------------- MODULE SecureTransport ---------------------------
(***************************************************************************)
(* The secure transport of two nodes (core/secure_transport.hpp): sessions  *)
(* with one key per handshake, renegotiation in place, the replay window of *)
(* a session (core/peer_session.hpp), the pending table of half-open        *)
(* handshakes and the admission gate that a published snapshot sweeps       *)
(* (core/secure_transport_admission.hpp).                                   *)
(*                                                                          *)
(* "c" has the lower id, so it alone opens handshakes (local_is_client).    *)
(* A handshake has three messages, like the XX pattern: the opener, the     *)
(* answer and the confirmation; c is Done on the answer, s on the           *)
(* confirmation.  A cipher is abstracted to the handshake that made it: a   *)
(* frame opens exactly under the key it was sealed with.  The inner         *)
(* transport is a FIFO per direction that loses its content with the        *)
(* connection and may deliver a sealed frame twice.                         *)
(***************************************************************************)
EXTENDS Naturals, Sequences, FiniteSets

CONSTANTS
    MaxHs,       \* bound: handshakes opened
    MaxSealed,   \* bound: frames sealed by a node
    MaxCuts,     \* bound: connections lost, plus renegotiations, plus duplicates
    MaxPublish   \* bound: admission snapshots published

VARIABLES
    sess,       \* sess[n]: sessions_[peer] of n, a set with at most one record
    pend,       \* pend[n]: pending_[peer] of n, a set with at most one record
    wire,       \* wire[n]: what the inner transport still has to hand to n
    installing, \* installing[n]: the Done result n's reader is installing
    down,       \* down[n]: the connection is gone and n's hook has not run yet
    denied,     \* denied[n]: n's admission authority denies the peer
    swept,      \* swept[n]: the listener of the last snapshot has finished
    hs,         \* the last handshake opened
    epoch,      \* the number of connections lost so far
    sealed,     \* sealed[n]: the <<key, seq>> pairs n sealed, in order
    opened,     \* opened[n]: the <<key, seq>> pairs n accepted, in order
    faults, publishes

sessionVars == <<sess, pend, installing>>
gateVars == <<denied, swept, publishes>>
secureVars == <<sess, pend, wire, installing, down, denied, swept, hs, epoch,
                sealed, opened, faults, publishes>>

Node == {"c", "s"}
Peer(n) == IF n = "c" THEN "s" ELSE "c"
local_is_client(n) == n = "c"

Auth(h, step) == [t |-> "auth", h |-> h, step |-> step, seq |-> 0]
Data(h, seq) == [t |-> "data", h |-> h, step |-> 0, seq |-> seq]
NewSession(h, e) == [key |-> h, tx |-> 0, rx |-> 0, rej |-> 0, fresh |-> TRUE,
                     conn |-> e]

Send2(n, frames) == wire' = [wire EXCEPT ![Peer(n)] = @ \o frames]

SecureInit ==
    /\ sess = [n \in Node |-> {}] /\ pend = [n \in Node |-> {}]
    /\ wire = [n \in Node |-> <<>>] /\ installing = [n \in Node |-> {}]
    /\ down = [n \in Node |-> FALSE]
    /\ denied = [n \in Node |-> FALSE] /\ swept = [n \in Node |-> TRUE]
    /\ hs = 0 /\ epoch = 0 /\ faults = 0 /\ publishes = 0
    /\ sealed = [n \in Node |-> <<>>] /\ opened = [n \in Node |-> <<>>]

-----------------------------------------------------------------------------
(* Opening a handshake: the slot is reserved under pending_mu_, the engine   *)
(* is driven without it.                                                     *)

\* ensure_handshake and the first half of try_renegotiate: a live entry wins,
\* a stale one is displaced.
reserve_pending(n) ==
    /\ local_is_client(n) /\ hs < MaxHs
    /\ \A p \in pend[n] : p.stale
    /\ pend' = [pend EXCEPT ![n] = {[h |-> 0, step |-> 0, stale |-> FALSE]}]

\* send() without a session asks for one and drops the frame.
RequestSession(n) ==
    /\ sess[n] = {} /\ ~denied[n]
    /\ reserve_pending(n)
    /\ UNCHANGED <<sess, installing, wire, down, gateVars, hs, epoch, sealed, opened, faults>>

\* sweep_rotation: the key is old, over its frame budget, or of a stale identity.
Renegotiate(n) ==
    /\ sess[n] # {} /\ faults < MaxCuts
    /\ reserve_pending(n)
    /\ faults' = faults + 1
    /\ UNCHANGED <<sess, installing, wire, down, gateVars, hs, epoch, sealed, opened>>

\* drive_handshake of a fresh client engine: the engine is stored in the place
\* that was reserved for it and the opener goes out.
Drive(n) ==
    /\ local_is_client(n)
    /\ \E p \in pend[n] : p.h = 0
    /\ hs' = hs + 1
    /\ pend' = [pend EXCEPT ![n] = {[h |-> hs + 1, step |-> 2, stale |-> FALSE]}]
    /\ Send2(n, <<Auth(hs + 1, 1)>>)
    /\ UNCHANGED <<sess, installing, down, gateVars, epoch, sealed, opened, faults>>

\* The connection is gone: what was in flight is lost and both nodes' hooks are due.
Sever == /\ wire' = [n \in Node |-> <<>>]
         /\ down' = [n \in Node |-> TRUE]
         /\ epoch' = epoch + 1

\* The client engine fails before it sent anything: the session goes with it and
\* the reset hook closes the connection.
DriveFails(n) ==
    /\ local_is_client(n) /\ faults < MaxCuts
    /\ \E p \in pend[n] : p.h = 0
    /\ pend' = [pend EXCEPT ![n] = {}]
    /\ sess' = [sess EXCEPT ![n] = {}]
    /\ IF sess[n] # {} THEN Sever ELSE UNCHANGED <<wire, down, epoch>>
    /\ faults' = faults + 1
    /\ UNCHANGED <<installing, gateVars, hs, sealed, opened>>

\* handshake_timeout_ns_ passes for the entry.
Expire(n) ==
    /\ \E p \in pend[n] : ~p.stale /\ p.h # 0
    /\ pend' = [pend EXCEPT ![n] = {[p EXCEPT !.stale = TRUE] : p \in @}]
    /\ UNCHANGED <<sess, installing, wire, down, gateVars, hs, epoch, sealed, opened, faults>>

\* min_renegotiate_interval_ns_ passes since the key was installed.
Settle(n) ==
    /\ \E x \in sess[n] : x.fresh
    /\ sess' = [sess EXCEPT ![n] = {[x EXCEPT !.fresh = FALSE] : x \in @}]
    /\ UNCHANGED <<pend, installing, wire, down, gateVars, hs, epoch, sealed, opened, faults>>

-----------------------------------------------------------------------------
(* The reader of n: one frame at a time, none while it installs a result or *)
(* while the disconnect hook is due.                                        *)
Reading(n) == installing[n] = {} /\ ~down[n] /\ wire[n] # <<>>
Consume(n) == wire' = [wire EXCEPT ![n] = Tail(@)]

\* The engine n would hand the frame to: the pending one, taken out of the
\* table if it is live (reap_stale_pending removed the stale ones first).
taken(n) == {p \in pend[n] : ~p.stale /\ p.h # 0}

\* A pending engine gets the message it waits for and is Done, or another one
\* and fails: an inbound failure leaves the session alone.
OnAuthPending(n) ==
    /\ Reading(n) /\ Head(wire[n]).t = "auth" /\ taken(n) # {}
    /\ LET f == Head(wire[n]) IN
       \E p \in taken(n) :
          installing' = [installing EXCEPT ![n] =
              IF f.h = p.h /\ f.step = p.step
              THEN {[h |-> p.h, phase |-> "ask", conn |-> epoch]} ELSE {}]
    /\ pend' = [pend EXCEPT ![n] = {}]
    /\ Consume(n)
    /\ UNCHANGED <<sess, down, gateVars, hs, epoch, sealed, opened, faults>>

\* No engine: a client ignores the frame; a server throttles, asks admission,
\* reserves a slot and answers an opener.
opener_refused(n, f) ==
    \/ local_is_client(n)
    \/ \E x \in sess[n] : x.fresh
    \/ denied[n]
    \/ f.step # 1

OnAuthOpener(n) ==
    /\ Reading(n) /\ Head(wire[n]).t = "auth" /\ taken(n) = {}
    /\ LET f == Head(wire[n]) IN
       IF opener_refused(n, f)
       THEN pend' = [pend EXCEPT ![n] = {}] /\ Consume(n)
       ELSE /\ pend' = [pend EXCEPT ![n] = {[h |-> f.h, step |-> 3, stale |-> FALSE]}]
            /\ wire' = [wire EXCEPT ![n] = Tail(@), ![Peer(n)] = Append(@, Auth(f.h, 2))]
    /\ UNCHANGED <<sess, installing, down, gateVars, hs, epoch, sealed, opened, faults>>

\* install_session_from_result, inside the admission scope: a denied peer is
\* closed, any other verdict leads to the insertion below.
InstallAsk(n) ==
    /\ \E i \in installing[n] : i.phase = "ask"
    /\ IF denied[n]
       THEN installing' = [installing EXCEPT ![n] = {}] /\ Sever
       ELSE /\ installing' = [installing EXCEPT ![n] = {[i EXCEPT !.phase = "insert"] : i \in @}]
            /\ UNCHANGED <<wire, down, epoch>>
    /\ UNCHANGED <<sess, pend, gateVars, hs, sealed, opened, faults>>

\* The new keys replace those of a live session (its windows restart with them)
\* or make a session; the scope ends here.
install_renegotiated(n, i) == sess' = [sess EXCEPT ![n] = {NewSession(i.h, i.conn)}]

InstallInsert(n) ==
    /\ \E i \in installing[n] :
          /\ i.phase = "insert"
          /\ install_renegotiated(n, i)
    /\ installing' = [installing EXCEPT ![n] = {[i EXCEPT !.phase = "out"] : i \in @}]
    /\ UNCHANGED <<pend, wire, down, gateVars, hs, epoch, sealed, opened, faults>>

\* Only now the last message leaves: other threads may already have sealed
\* frames under the new key.
InstallOut(n) ==
    /\ \E i \in installing[n] :
          /\ i.phase = "out"
          /\ Send2(n, IF local_is_client(n) THEN <<Auth(i.h, 3)>> ELSE <<>>)
    /\ installing' = [installing EXCEPT ![n] = {}]
    /\ UNCHANGED <<sess, pend, down, gateVars, hs, epoch, sealed, opened, faults>>

\* send(): sealed under the session's key with the next sequence number.
next_send_seq(x) == [x EXCEPT !.tx = @ + 1]
Seal(n) ==
    /\ ~denied[n] /\ Len(sealed[n]) < MaxSealed
    /\ \E x \in sess[n] :
          /\ sess' = [sess EXCEPT ![n] = {next_send_seq(x)}]
          /\ sealed' = [sealed EXCEPT ![n] = Append(@, <<x.key, next_send_seq(x).tx>>)]
          /\ Send2(n, <<Data(x.key, next_send_seq(x).tx)>>)
    /\ UNCHANGED <<pend, installing, down, gateVars, hs, epoch, opened, faults>>

\* deliver() of a sealed frame: dropped for a denied peer or without a session,
\* rejected under another key or at a sequence number already passed.
accept_recv_seq(x, f) == f.seq > x.rx
after_open(x, f) ==
    IF f.h = x.key /\ accept_recv_seq(x, f) THEN [x EXCEPT !.rx = f.seq]
    ELSE [x EXCEPT !.rej = 1]

Open(n) ==
    /\ Reading(n) /\ Head(wire[n]).t = "data"
    /\ LET f == Head(wire[n])
           ok == ~denied[n] /\ \E x \in sess[n] : f.h = x.key /\ accept_recv_seq(x, f)
       IN /\ sess' = IF denied[n] THEN sess
                     ELSE [sess EXCEPT ![n] = {after_open(x, f) : x \in @}]
          /\ opened' = IF ok THEN [opened EXCEPT ![n] = Append(@, <<f.h, f.seq>>)]
                       ELSE opened
    /\ Consume(n)
    /\ UNCHANGED <<pend, installing, down, gateVars, hs, epoch, sealed, faults>>

\* A reject burst on the client's side renegotiates (maybe_burst_renegotiate).
Burst(n) ==
    /\ \E x \in sess[n] : x.rej = 1
    /\ reserve_pending(n)
    /\ UNCHANGED <<sess, installing, wire, down, gateVars, hs, epoch, sealed, opened, faults>>

\* The inner transport hands a sealed frame over twice.
Duplicate(n) ==
    /\ faults < MaxCuts /\ wire[n] # <<>> /\ Head(wire[n]).t = "data"
    /\ wire' = [wire EXCEPT ![n] = Append(@, Head(@))]
    /\ faults' = faults + 1
    /\ UNCHANGED <<sessionVars, down, gateVars, hs, epoch, sealed, opened>>

-----------------------------------------------------------------------------
Cut ==
    /\ faults < MaxCuts /\ faults' = faults + 1
    /\ Sever
    /\ UNCHANGED <<sessionVars, gateVars, hs, sealed, opened>>

forget_peer(n) == /\ sess' = [sess EXCEPT ![n] = {}]
                  /\ pend' = [pend EXCEPT ![n] = {}]

on_peer_disconnected(n) ==
    /\ down[n] /\ installing[n] = {}
    /\ down' = [down EXCEPT ![n] = FALSE]
    /\ forget_peer(n)
    /\ UNCHANGED <<installing, wire, gateVars, hs, epoch, sealed, opened, faults>>

\* The authority swaps its snapshot first and calls its listeners afterwards.
Publish(n) ==
    /\ publishes < MaxPublish /\ publishes' = publishes + 1
    /\ denied' = [denied EXCEPT ![n] = ~@]
    /\ swept' = [swept EXCEPT ![n] = FALSE]
    /\ UNCHANGED <<sessionVars, wire, down, hs, epoch, sealed, opened, faults>>

barrier_None(n) == TRUE

\* AdmissionGate::barrier: no frame or installation that asked the old snapshot
\* is still inside its scope.
barrier(n) == \A i \in installing[n] : i.phase # "insert"

on_admission_published(n) ==
    /\ ~swept[n] /\ barrier(n)
    /\ swept' = [swept EXCEPT ![n] = TRUE]
    /\ IF denied[n] /\ (sess[n] # {} \/ pend[n] # {})
       THEN forget_peer(n) /\ Sever
       ELSE UNCHANGED <<sess, pend, wire, down, epoch>>
    /\ UNCHANGED <<installing, denied, publishes, hs, sealed, opened, faults>>

SecureNext ==
    \/ \E n \in Node :
        \/ RequestSession(n) \/ Renegotiate(n) \/ Burst(n) \/ Drive(n) \/ DriveFails(n)
        \/ Expire(n) \/ Settle(n)
        \/ OnAuthPending(n) \/ OnAuthOpener(n)
        \/ InstallAsk(n) \/ InstallInsert(n) \/ InstallOut(n)
        \/ Seal(n) \/ Open(n) \/ Duplicate(n)
        \/ on_peer_disconnected(n) \/ Publish(n) \/ on_admission_published(n)
    \/ Cut

SecureSpec == SecureInit /\ [][SecureNext]_secureVars

-----------------------------------------------------------------------------
(* Between two snapshots that deny the peer, an installation that asked the *)
(* older one cannot leave a session behind: once the listener of a denying  *)
(* snapshot has returned, no session of that peer exists                    *)
(* (install_session_from_result against on_admission_published).            *)
DeniedHasNoSession == \A n \in Node : denied[n] /\ swept[n] => sess[n] = {}

(* No sealed frame is accepted twice, and under one key frames are accepted *)
(* in the order they were sealed, across renegotiations, duplicates and     *)
(* reconnections: the replay window restarts only together with the key.    *)
OpenedInOrder ==
    \A n \in Node : \A i, j \in 1..Len(opened[n]) :
        i < j /\ opened[n][i][1] = opened[n][j][1] => opened[n][i][2] < opened[n][j][2]

(* No sequence number is used twice under one key by one node, so no nonce  *)
(* of its cipher repeats, although every renegotiation restarts the counter *)
(* at zero.                                                                 *)
NonceUsedOnce ==
    \A n \in Node : \A i, j \in 1..Len(sealed[n]) : i # j => sealed[n][i] # sealed[n][j]

(* A node that has heard of every lost connection holds no session that was *)
(* negotiated over one of them.                                             *)
SessionOfThisConnection ==
    \A n \in Node : ~down[n] => \A x \in sess[n] : x.conn = epoch

(* Sessions through handshakes, renegotiations, lost connections and        *)
(* published verdicts (install, barrier, accept_recv_seq, forget_peer).     *)
SessionsKeepVerdicts ==
    DeniedHasNoSession /\ OpenedInOrder /\ NonceUsedOnce /\ SessionOfThisConnection
=============================================================================
