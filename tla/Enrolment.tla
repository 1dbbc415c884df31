------------------------------ MODULE Enrolment ------------------------------
(* The anchor's side of enrolment (core/enrollment.hpp): a join ticket is   *)
(* issued, a request that names it is admitted by source, reserves one of   *)
(* the ticket's attempts, is verified outside the lock, consumes the        *)
(* ticket, and waits for the certificate issuer, whose answer races expiry  *)
(* and shutdown.                                                            *)
EXTENDS Naturals, FiniteSets, Sequences

CONSTANTS Tickets, Reqs, Srcs,
          Ttl, MaxAttempts,       \* of a ticket
          PerSource, SourceWindow, MaxSources,
          MaxPending, IssueTimeout,
          MaxTime

VARIABLES now,
          tickets,   \* tickets: id -> [expires, attempts, consumed]
          given,     \* ids issue_ticket ever returned
          sources,   \* sources: key -> [start, attempts]
          pending,   \* requests the issuer has, with their start
          req,       \* each request: [pc, t, src, bad, now]
          replies,   \* how many times each request was answered
          macs,      \* verifications that failed, per ticket
          issued,    \* certificates delivered per ticket
          down

enrolVars == <<now, tickets, given, sources, pending, req, replies, macs, issued, down>>

None == [x \in {} |-> 0]
Unsent == [pc |-> "unsent", t |-> 0, src |-> 0, bad |-> "no", now |-> 0]
Put(f, k, v) == [x \in DOMAIN f \cup {k} |-> IF x = k THEN v ELSE f[x]]
Drop(f, S) == [x \in DOMAIN f \ S |-> f[x]]

EnrolInit ==
    /\ now = 0 /\ tickets = None /\ given = {} /\ sources = None /\ pending = None
    /\ req = [r \in Reqs |-> Unsent] /\ replies = [r \in Reqs |-> 0]
    /\ macs = [t \in Tickets |-> 0] /\ issued = [t \in Tickets |-> 0] /\ down = FALSE

Tick == now < MaxTime /\ now' = now + 1
        /\ UNCHANGED <<tickets, given, sources, pending, req, replies, macs, issued, down>>
-----------------------------------------------------------------------------
(* Tickets.                                                                    *)

pending_for(t) == \E r \in DOMAIN pending : req[r].t = t
\* prune_tickets_locked: expired tickets, and spent ones no issue waits for.
Pruned == Drop(tickets, {t \in DOMAIN tickets : tickets[t].expires <= now \/ (tickets[t].consumed /\ ~pending_for(t))})

issue_ticket(t) ==
    /\ t \notin given /\ ~down
    /\ tickets' = Put(Pruned, t, [expires |-> now + Ttl, attempts |-> 0, consumed |-> FALSE])
    /\ given' = given \cup {t}
    /\ UNCHANGED <<now, sources, pending, req, replies, macs, issued, down>>

revoke_ticket(t) ==
    /\ t \in DOMAIN tickets /\ ~tickets[t].consumed
    /\ tickets' = Drop(tickets, {t})
    /\ UNCHANGED <<now, given, sources, pending, req, replies, macs, issued, down>>
-----------------------------------------------------------------------------
(* submit.                                                                     *)

Answer(r) == replies' = [replies EXCEPT ![r] = @ + 1]
Known(t, at) == t \in DOMAIN tickets /\ tickets[t].expires > at

Stale == {s \in DOMAIN sources : now - sources[s].start >= SourceWindow}
\* admit_source_locked: the table after the call, and whether the source passes.
admit_source_locked(s) ==
    LET room == s \in DOMAIN sources \/ Cardinality(DOMAIN sources) < MaxSources
        kept == IF room THEN sources ELSE Drop(sources, Stale)
        full == s \notin DOMAIN kept /\ Cardinality(DOMAIN kept) >= MaxSources
        w == IF s \in DOMAIN kept /\ s \notin Stale THEN kept[s] ELSE [start |-> now, attempts |-> 0]
    IN  IF full THEN [table |-> kept, ok |-> FALSE]
        ELSE [table |-> Put(kept, s, IF w.attempts < PerSource THEN [w EXCEPT !.attempts = @ + 1] ELSE w),
              ok |-> w.attempts < PerSource]

\* reserve_attempt_locked: the attempt is counted before the MAC is looked at.
MayAttempt(t) == /\ Known(t, now) /\ ~tickets[t].consumed
                 /\ tickets[t].attempts < MaxAttempts /\ Cardinality(DOMAIN pending) < MaxPending
Reserved(t) == [tickets EXCEPT ![t].attempts = @ + 1]

\* The first critical section; a refusal is answered.
submit(r, t, s, bad) ==
    /\ req[r] = Unsent /\ ~down
    /\ LET a == admit_source_locked(s)
           go == a.ok /\ MayAttempt(t)
       IN  /\ sources' = a.table
           /\ tickets' = IF go THEN Reserved(t) ELSE tickets
           /\ req' = [req EXCEPT ![r] = [pc |-> IF go THEN "verify" ELSE "done", t |-> t, src |-> s, bad |-> bad, now |-> now]]
           /\ IF go THEN UNCHANGED replies ELSE Answer(r)
    /\ UNCHANGED <<now, given, pending, macs, issued, down>>

\* MAC and CSR, outside the lock.
Verify(r) ==
    /\ req[r].pc = "verify"
    /\ IF req[r].bad = "no" THEN req' = [req EXCEPT ![r].pc = "consume"] /\ UNCHANGED <<replies, macs>>
       ELSE /\ req' = [req EXCEPT ![r].pc = "done"] /\ Answer(r)
            /\ macs' = [macs EXCEPT ![req[r].t] = @ + 1]
    /\ UNCHANGED <<now, tickets, given, sources, pending, issued, down>>

\* The second critical section looks at the ticket again: it may have been
\* revoked or spent meanwhile; a full issuer gives the attempt back.
StillMine_Trusting(r) == TRUE
StillMine(r) == Known(req[r].t, req[r].now) /\ ~tickets[req[r].t].consumed
Consume(r) ==
    /\ req[r].pc = "consume"
    /\ LET t == req[r].t
       IN  IF StillMine(r) /\ t \in DOMAIN tickets /\ Cardinality(DOMAIN pending) < MaxPending
           THEN /\ tickets' = [tickets EXCEPT ![t].consumed = TRUE]
                /\ pending' = Put(pending, r, req[r].now)
                /\ req' = [req EXCEPT ![r].pc = "issuing"] /\ UNCHANGED replies
           ELSE /\ tickets' = IF StillMine(r) /\ t \in DOMAIN tickets THEN [tickets EXCEPT ![t].attempts = @ - 1] ELSE tickets
                /\ req' = [req EXCEPT ![r].pc = "done"] /\ Answer(r) /\ UNCHANGED pending
    /\ UNCHANGED <<now, given, sources, macs, issued, down>>
-----------------------------------------------------------------------------
(* The issuer's completion, and what may come before it.                       *)

\* complete: only a request that is still pending is answered, with the
\* certificate if the issuer made one that stands the checks.  The completion is
\* one-shot, and does nothing once the Enrollment is gone.
Claimed(r) == r \in DOMAIN pending
complete(r) ==
    /\ req[r].pc = "issuing"
    /\ req' = [req EXCEPT ![r].pc = "done"]
    /\ \E good \in BOOLEAN :
         IF Claimed(r) /\ ~down
         THEN /\ pending' = Drop(pending, {r}) /\ Answer(r)
              /\ issued' = IF good THEN [issued EXCEPT ![req[r].t] = @ + 1] ELSE issued
         ELSE UNCHANGED <<pending, replies, issued>>
    /\ UNCHANGED <<now, tickets, given, sources, macs, down>>

\* expire: tickets and sources are pruned (the tickets before the pending
\* requests go), and overdue requests are answered TimedOut.
Overdue == {r \in DOMAIN pending : now - pending[r] >= IssueTimeout}
expire ==
    /\ ~down
    /\ tickets' = Pruned /\ sources' = Drop(sources, Stale)
    /\ pending' = Drop(pending, Overdue)
    /\ replies' = [r \in Reqs |-> replies[r] + (IF r \in Overdue THEN 1 ELSE 0)]
    /\ UNCHANGED <<now, given, req, macs, issued, down>>

shutdown ==
    /\ ~down /\ down' = TRUE /\ \A r \in Reqs : req[r].pc \notin {"verify", "consume"}
    /\ replies' = [r \in Reqs |-> replies[r] + (IF r \in DOMAIN pending THEN 1 ELSE 0)]
    /\ pending' = None
    /\ UNCHANGED <<now, tickets, given, sources, req, macs, issued>>

EnrolNext == \/ Tick \/ expire \/ shutdown
             \/ \E t \in Tickets : issue_ticket(t) \/ revoke_ticket(t)
             \/ \E r \in Reqs : \/ Verify(r) \/ Consume(r) \/ complete(r)
                                \/ \E t \in Tickets, s \in Srcs, bad \in {"no", "yes"} : submit(r, t, s, bad)
-----------------------------------------------------------------------------
\* A join ticket yields at most one certificate, however many requests that name
\* it are in flight between the two critical sections.
TicketSpentOnce == \A t \in Tickets : issued[t] + Cardinality({r \in DOMAIN pending : req[r].t = t}) <= 1

\* Guessing is bounded: concurrent requests never get more failed verifications
\* of one ticket than it has attempts.
GuessesBounded == \A t \in Tickets : macs[t] <= MaxAttempts

\* Every request is answered exactly once, whether the answer comes from a
\* refusal, from the issuer, from expiry or from shutdown.
AnsweredOnce == \A r \in Reqs : /\ replies[r] <= 1
                                /\ req[r].pc = "done" => replies[r] = 1
                                /\ (req[r].pc = "issuing" /\ replies[r] = 0) => r \in DOMAIN pending

-----------------------------------------------------------------------------
(* Enrolment connections: the anchor's service thread with its caps         *)
(* (mbedtls_enrol_service.hpp), the session of each connection and the      *)
(* joiner at the other end (mbedtls_enrol_session.hpp). The acceptor hands  *)
(* over a socket; the session does the handshake, takes one request,        *)
(* submits it and sends the one reply; the enrolment core answers into the  *)
(* session's slot from any thread, and the session may be gone by then.     *)

CONSTANTS Conns,          \* sockets the acceptor hands over, and their joiners
          Ips, MaxActive, MaxPerIp

VARIABLES active, perIp,  \* counted against the caps
          inbox,          \* sockets handed over and not yet adopted
          sess,           \* conn -> [state, ip, slot, out]; adopted only
          posted,         \* on_session_ready posted for these connections
          core,           \* requests the core has not answered yet
          joiner,         \* state of each joiner
          net,            \* what each connection carries: [up, down], gone if the joiner closed
          fate            \* counter each connection ended in

svcVars == <<active, perIp, inbox, sess, posted, core, joiner, net, fate>>

Live == DOMAIN sess
WithConn(f, k, v) == [x \in DOMAIN f \cup {k} |-> IF x = k THEN v ELSE f[x]]
DropSession(f, k) == [x \in DOMAIN f \ {k} |-> f[x]]
NewSession(ip) == [state |-> "Handshaking", ip |-> ip, slot |-> "empty", out |-> "none"]

SvcInit ==
    /\ active = 0 /\ perIp = [i \in Ips |-> 0] /\ inbox = <<>> /\ sess = [c \in {} |-> 0]
    /\ posted = {} /\ core = {} /\ fate = [c \in Conns |-> "none"]
    /\ joiner = [c \in Conns |-> "Handshaking"]
    /\ net = [c \in Conns |-> [up |-> "none", down |-> "none", gone |-> FALSE]]

\* handoff, on the acceptor's thread: under the lock the caps are checked and
\* counted, or the socket is refused and stays the acceptor's to close.
handoff(c, ip) ==
    /\ fate[c] = "none" /\ c \notin Live /\ \A i \in DOMAIN inbox : inbox[i].c # c
    /\ IF active >= MaxActive \/ perIp[ip] >= MaxPerIp
       THEN /\ fate' = [fate EXCEPT ![c] = "refused"] /\ joiner' = [joiner EXCEPT ![c] = "Failed"]
            /\ UNCHANGED <<active, perIp, inbox>>
       ELSE /\ active' = active + 1 /\ perIp' = [perIp EXCEPT ![ip] = @ + 1]
            /\ inbox' = Append(inbox, [c |-> c, ip |-> ip]) /\ UNCHANGED <<fate, joiner>>
    /\ UNCHANGED <<sess, posted, core, net>>
-----------------------------------------------------------------------------
(* The service thread.                                                         *)

\* finish: the connection goes, its session's slot is abandoned, and the caps
\* are given back.  The joiner sees the end of the connection.
Finished(c, how) ==
    /\ sess' = DropSession(sess, c)
    /\ fate' = [fate EXCEPT ![c] = how]
    /\ active' = active - 1 /\ perIp' = [perIp EXCEPT ![sess[c].ip] = @ - 1]

\* adopt_all: everything in the inbox; registering the socket may fail.
adopt_failed(c, ip) == active' = active - 1 /\ perIp' = [perIp EXCEPT ![ip] = @ - 1]
adopt ==
    /\ inbox # <<>> /\ inbox' = Tail(inbox)
    /\ LET a == Head(inbox)
       IN  \/ sess' = WithConn(sess, a.c, NewSession(a.ip)) /\ UNCHANGED <<fate, active, perIp>>
           \/ fate' = [fate EXCEPT ![a.c] = "failed"] /\ adopt_failed(a.c, a.ip) /\ UNCHANGED sess
    /\ UNCHANGED <<posted, core, joiner, net>>

\* EnrolAnchorSession::try_reply within feed or drain: an answer in the slot is
\* sealed once and the session is Replied.
TryReply(s) == IF s.state = "Issuing" /\ s.slot # "empty"
               THEN [s EXCEPT !.state = "Replied", !.out = s.slot, !.slot = "empty"] ELSE s

\* settle: a reply that is out ends the connection; the socket may also still
\* be full (or have failed), which leaves it to a later event.
Settle(c, s) ==
    IF s.state = "Failed" THEN Finished(c, "failed") /\ UNCHANGED net
    ELSE IF s.out = "none" THEN /\ sess' = [sess EXCEPT ![c] = s] /\ UNCHANGED <<fate, active, perIp, net>>
    ELSE \/ Finished(c, "replied") /\ net' = [net EXCEPT ![c].down = s.out]
         \/ sess' = [sess EXCEPT ![c] = s] /\ UNCHANGED <<fate, active, perIp, net>>
         \/ Finished(c, "failed") /\ UNCHANGED net

\* feed: the handshake is done and the request is there; it is submitted, or is
\* malformed.  The core may answer before submit returns.
feed(c) ==
    /\ c \in Live /\ sess[c].state = "Handshaking" /\ net[c].up = "request"
    /\ \/ /\ core' = core \cup {c} /\ sess' = [sess EXCEPT ![c].state = "Issuing"]
          /\ UNCHANGED <<fate, active, perIp, net, posted>>
       \/ \E a \in {"Refused", "RetryLater"} :
             Settle(c, TryReply([sess[c] EXCEPT !.state = "Issuing", !.slot = a])) /\ posted' = posted \cup {c} /\ UNCHANGED core
       \/ Settle(c, [sess[c] EXCEPT !.state = "Failed"]) /\ UNCHANGED <<core, posted>>
    /\ UNCHANGED <<inbox, joiner>>

\* on_session_ready, posted by Slot::put: drain what the core answered.
on_session_ready(c) ==
    /\ c \in posted /\ posted' = posted \ {c}
    /\ IF c \notin Live THEN UNCHANGED <<sess, fate, active, perIp, net>>
       ELSE Settle(c, TryReply(sess[c]))
    /\ UNCHANGED <<inbox, core, joiner>>

\* The socket became writable: the rest of the reply goes out.
Writable(c) == /\ c \in Live /\ sess[c].out # "none" /\ Finished(c, "replied")
               /\ net' = [net EXCEPT ![c].down = sess[c].out]
               /\ UNCHANGED <<inbox, posted, core, joiner>>

\* The joiner closed, or the socket failed: the connection ends even if the
\* core's answer is in the slot.
Hangup(c) == /\ c \in Live /\ net[c].gone /\ Finished(c, IF sess[c].state = "Replied" THEN "replied" ELSE "failed")
             /\ UNCHANGED <<inbox, posted, core, joiner, net>>

Deadline(c) == /\ c \in Live /\ Finished(c, "timed_out")
               /\ UNCHANGED <<inbox, posted, core, joiner, net>>
-----------------------------------------------------------------------------
\* Slot::put, from the issuer's thread: into the slot of a live session, with a
\* notification; an abandoned slot takes nothing.
put_notify(c) == posted' = posted \cup {c}
put(c, a) ==
    /\ c \in core /\ core' = core \ {c}
    /\ IF c \in Live THEN sess' = [sess EXCEPT ![c].slot = a] /\ put_notify(c) ELSE UNCHANGED <<sess, posted>>
    /\ UNCHANGED <<active, perIp, inbox, joiner, net, fate>>

(* EnrolJoinerSession: the handshake, one request, one reply.                  *)
JoinerSends(c) == /\ joiner[c] = "Handshaking" /\ c \in Live
                  /\ joiner' = [joiner EXCEPT ![c] = "AwaitingReply"] /\ net' = [net EXCEPT ![c].up = "request"]
                  /\ UNCHANGED <<active, perIp, inbox, sess, posted, core, fate>>

read_reply(c) ==
    /\ joiner[c] = "AwaitingReply" /\ net[c].down # "none"
    /\ joiner' = [joiner EXCEPT ![c] = IF net[c].down = "Issued" THEN "Joined" ELSE "Rejected"]
    /\ UNCHANGED <<active, perIp, inbox, sess, posted, core, net, fate>>

JoinerEnds(c) ==
    /\ joiner[c] \in {"Handshaking", "AwaitingReply"} /\ net[c].down = "none"
    /\ \/ fate[c] # "none" \/ (c \in Live /\ ~net[c].gone)
    /\ joiner' = [joiner EXCEPT ![c] = "Failed"] /\ net' = [net EXCEPT ![c].gone = TRUE]
    /\ UNCHANGED <<active, perIp, inbox, sess, posted, core, fate>>

SvcNext == adopt \/ \E c \in Conns :
    \/ feed(c) \/ on_session_ready(c) \/ Writable(c) \/ Hangup(c) \/ Deadline(c)
    \/ (\E a \in {"Issued", "Failed"} : put(c, a)) \/ JoinerSends(c) \/ read_reply(c) \/ JoinerEnds(c)
    \/ \E ip \in Ips : handoff(c, ip)
-----------------------------------------------------------------------------
InInbox(ip) == Cardinality({i \in DOMAIN inbox : inbox[i].ip = ip})

\* The caps count exactly the connections handed over and not ended: a
\* connection that fails at any point gives back its place and its address's.
CapsAreExact == /\ active = Len(inbox) + Cardinality(Live)
                /\ \A ip \in Ips : perIp[ip] = InInbox(ip) + Cardinality({c \in Live : sess[c].ip = ip})

\* An answer in the slot of a live session is never forgotten: either the
\* service has a notification to look, or it is on its way out.
AnswerIsNoticed == \A c \in Live : sess[c].slot # "empty" => c \in posted
=============================================================================
