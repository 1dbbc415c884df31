-------------------------------- MODULE Lease ---------------------------------
(***************************************************************************)
(* Leader leases (core/lease.hpp): an arbiter grants one holder at a time   *)
(* for Duration ticks of its own clock and takes the term from the store's  *)
(* fence; a holder counts its lease from the moment it sent the request and *)
(* gives up margin() ticks early.  Every clock has a rate of its own, off   *)
(* by at most one tick in DriftEvery.  A message stays in the net: it may   *)
(* arrive late, twice, out of order or never.  The arbiter restarts without *)
(* memory.                                                                  *)
(***************************************************************************)
EXTENDS Naturals, FiniteSets

CONSTANTS
    Holders,     \* the nodes that want the lease
    Duration,    \* Config::duration
    DriftEvery,  \* 1 / drift_ppm_bound
    RenewBefore, \* Config::renew_before
    MaxRequests, \* bound: requests sent
    MaxTime      \* bound: real time

\* The arbiter's clock is number 0.
ASSUME LeaseAssumption == Duration \in Nat /\ DriftEvery \in Nat \ {0} /\ 0 \notin Holders

VARIABLES
    rate,   \* rate[n]: how the clock of the arbiter (0) or of a holder runs
    arb,    \* the arbiter: holder, term, expiry, quiet
    hold,   \* hold[h]: the LeaseHolder
    net,    \* requests and replies in flight
    fence,  \* the token of the arbiter's key in the store
    real    \* real time passed, restarts and requests so far

leaseVars == <<rate, arb, hold, net, fence, real>>

Clocks == Holders \cup {0}
clock[n \in Clocks] == (real.now * (DriftEvery + rate[n] - 1)) \div DriftEvery
\* Twice the drift over a lease, and two ticks.
margin == (2 * Duration) \div DriftEvery + 2

LeaseInit ==
    /\ rate \in [Clocks -> {0, 2}]
    /\ arb = [holder |-> 0, term |-> 0, expiry |-> 0, quiet |-> 0]
    /\ hold = [h \in Holders |-> [token |-> 0, until |-> 0, out |-> FALSE, id |-> 0, sent |-> 0]]
    /\ net = {} /\ fence = 0 /\ real = [now |-> 1, restarts |-> 0, sent |-> 0]

Tick == /\ real.now < MaxTime /\ real' = [real EXCEPT !.now = @ + 1]
        /\ UNCHANGED <<rate, arb, hold, net, fence>>

believes_leader(h) == hold[h].token # 0 /\ clock[h] < hold[h].until

\* tick(): a request when the lease is over or about to end and none is under way
\* (a retry after Config::retry ticks is a request that replaces the outstanding one).
Request(h) ==
    /\ ~believes_leader(h) \/ hold[h].until - clock[h] <= RenewBefore
    /\ hold[h].sent # clock[h] /\ real.sent < MaxRequests
    /\ hold' = [hold EXCEPT ![h].out = TRUE, ![h].id = @ + 1, ![h].sent = clock[h]]
    /\ net' = net \cup {[t |-> "request", h |-> h, id |-> hold[h].id + 1, term |-> 0]}
    /\ real' = [real EXCEPT !.sent = @ + 1]
    /\ UNCHANGED <<rate, arb, fence>>

lease_from_Reply(h) == clock[h]

lease_from(h) == hold[h].sent
valid_until(h) == lease_from(h) + Duration - margin

\* on_reply: only to the outstanding request, never back to an older term, and
\* only while what is left of the lease is worth something.
on_reply(h) ==
    /\ \E m \in net :
          /\ m.t = "grant" /\ m.h = h
          /\ hold[h].out /\ m.id = hold[h].id
          /\ hold' = [hold EXCEPT ![h].out = FALSE,
                ![h].token = IF m.term >= @ /\ clock[h] < valid_until(h) THEN m.term ELSE @,
                ![h].until = IF m.term >= hold[h].token /\ clock[h] < valid_until(h)
                             THEN valid_until(h) ELSE @]
    /\ UNCHANGED <<rate, arb, net, fence, real>>

\* on_request: refused while quiet or held by another; the holder is extended
\* under its term; a new holder gets the next token of the store.  A refusal
\* changes nothing on either side and is left in the net.
Grant(h, id, term) == net' = net \cup {[t |-> "grant", h |-> h, id |-> id, term |-> term]}

refused(h) == \/ clock[0] < arb.quiet
              \/ arb.holder # 0 /\ arb.holder # h /\ clock[0] < arb.expiry

on_request(h) ==
    /\ \E m \in net :
          /\ m.t = "request" /\ m.h = h /\ ~refused(h)
          /\ IF arb.holder = h
             THEN /\ arb' = [arb EXCEPT !.expiry = clock[0] + Duration]
                  /\ Grant(h, m.id, arb.term) /\ UNCHANGED fence
             ELSE /\ fence' = fence + 1
                  /\ arb' = [arb EXCEPT !.holder = h, !.term = fence + 1,
                                        !.expiry = clock[0] + Duration]
                  /\ Grant(h, m.id, fence + 1)
    /\ UNCHANGED <<rate, hold, real>>

\* The arbiter's process restarts: its memory is gone, it stays quiet for the
\* longest lease it may have granted.
quiet_until == clock[0] + Duration
restart ==
    /\ real.restarts < 1 /\ real' = [real EXCEPT !.restarts = @ + 1]
    /\ arb' = [arb EXCEPT !.holder = 0, !.quiet = quiet_until]
    /\ UNCHANGED <<rate, hold, net, fence>>

LeaseNext == \/ Tick \/ restart
             \/ \E h \in Holders : Request(h) \/ on_reply(h) \/ on_request(h)

LeaseSpec == LeaseInit /\ [][LeaseNext]_leaseVars

-----------------------------------------------------------------------------
(* At no time do two nodes believe that they lead, although every clock     *)
(* drifts, replies arrive late and the arbiter forgets whom it granted      *)
(* (LeaseHolder::on_reply, LeaseArbiter::restart).                          *)
AtMostOneLeads ==
    \A h, k \in Holders : believes_leader(h) /\ believes_leader(k) => h = k

(* Two leaders never share a term, and the one that leads holds the last    *)
(* term the store issued: what it writes is not fenced off.                 *)
LeaderHoldsLastTerm == \A h \in Holders : believes_leader(h) => hold[h].token = fence

(* At most one holder believes at any real time that it leads, under        *)
(* drifting clocks, late and repeated messages and a restarted arbiter, and *)
(* it is the holder of the last term issued (lease_from, is_leader,         *)
(* quiet_until).                                                            *)
OneLeader == AtMostOneLeads /\ LeaderHoldsLastTerm

=============================================================================
