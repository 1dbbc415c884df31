----------------------------- MODULE Governance ------------------------------
(* A governed mailbox (core/activation.hpp, GovernanceCore) under the       *)
(* engine's hot configuration word (core/hot_cell.hpp): producers count     *)
(* themselves in, the lane counts out what it dequeues, the difference is   *)
(* the resident depth the bound is enforced on, and an operator republishes *)
(* the word at any time. Three fields of the word stand for its six: each   *)
(* is a shift and a mask.                                                   *)
EXTENDS Naturals, Sequences, FiniteSets

CONSTANTS Producers,
          MaxMsgs,       \* bound on the messages posted
          Doomed,        \* messages whose deadline is over when they are drained
          Seeds, Deltas, \* configurations at start; (field, value) of reconfigurations
          MaxReconfigs,  \* bound on reconfigurations
          MaxRetires     \* bound on the times the actor is passivated

VARIABLES word,       \* HotCell::word_
          published,  \* the configuration last accepted, unpacked
          enqueued, drained, sheds,   \* the counters
          box,        \* the mailbox
          prod,       \* what each producer is doing
          lane,       \* the drain step
          fate,       \* what became of each message
          reconfigs,
          retired     \* history: control descriptors the lane dequeued

govVars == <<word, published, enqueued, drained, sheds, box, prod, lane, fate, reconfigs, retired>>

(* The word: widths in bits of the fields, lowest first.                       *)
Bits == [drain_budget |-> 2, overflow |-> 2, mailbox_bound |-> 2]
Shift == [drain_budget |-> 0, overflow |-> 2, mailbox_bound |-> 4]
Ceil(f) == 2 ^ Bits[f]
Fields == DOMAIN Bits
(* Overflow, as stored. *)
Block == 0
DropOldest == 1
DropNewest == 2
Fail == 3

\* pack_operational: the fields are shifted and or-ed, whatever their size; with
\* fields in range or-ing is adding.  A field out of range spills upwards.
pack_operational(c) == c.drain_budget * 2 ^ Shift.drain_budget + c.overflow * 2 ^ Shift.overflow
                     + c.mailbox_bound * 2 ^ Shift.mailbox_bound
read(w, f) == (w \div 2 ^ Shift[f]) % Ceil(f)
unpack_operational(w) == [f \in Fields |-> read(w, f)]
validate_operational(c) == c.drain_budget > 0 /\ c.drain_budget < Ceil("drain_budget")
                           /\ c.mailbox_bound < Ceil("mailbox_bound")
clamp(f, lo, v) == IF v < lo THEN lo ELSE IF v >= Ceil(f) THEN Ceil(f) - 1 ELSE v
clamp_operational(c) == [c EXCEPT !.drain_budget = clamp("drain_budget", 1, @), !.mailbox_bound = clamp("mailbox_bound", 0, @)]

NoPost == [pc |-> "idle", msg |-> 0, bound |-> 0, e |-> 0]
Asleep == [pc |-> "off", bound |-> 0, dropping |-> FALSE, left |-> 0, seen |-> 0]

GovInit ==
    /\ \E c \in Seeds : published = clamp_operational(c) /\ word = pack_operational(published)
    /\ enqueued = 0 /\ drained = 0 /\ sheds = 0
    /\ box = <<>>
    /\ prod = [p \in Producers |-> NoPost]
    /\ lane = Asleep
    /\ fate = <<>>
    /\ reconfigs = 0 /\ retired = 0

\* Engine::reconfigure: the delta is applied to the decoded word, validated as a
\* whole and published with one store, or refused.
reconfigure ==
    /\ reconfigs < MaxReconfigs /\ reconfigs' = reconfigs + 1
    /\ \E d \in Deltas :
         LET next == [unpack_operational(word) EXCEPT ![d[1]] = d[2]]
         IN  IF validate_operational(next) THEN word' = pack_operational(next) /\ published' = next
                                           ELSE UNCHANGED <<word, published>>
    /\ UNCHANGED <<enqueued, drained, sheds, box, prod, lane, fate, retired>>
-----------------------------------------------------------------------------
(* post_governed.                                                              *)

\* The bound is loaded, and the first half of depth(); other threads may move
\* before the second.
Post(p) ==
    /\ prod[p] = NoPost /\ Len(fate) < MaxMsgs
    /\ fate' = Append(fate, "posting")
    /\ prod' = [prod EXCEPT ![p] = [pc |-> IF read(word, "mailbox_bound") = 0 THEN "admit" ELSE "depth",
                                    msg |-> Len(fate'), bound |-> read(word, "mailbox_bound"), e |-> enqueued]]
    /\ UNCHANGED <<word, published, enqueued, drained, sheds, box, lane, reconfigs, retired>>

\* depth() is enqueued - drained as unsigned numbers: a drained that overtook
\* the enqueued loaded earlier makes it huge.
Full(b, e) == e < drained \/ e - drained >= b
Depth(p) ==
    /\ prod[p].pc = "depth"
    /\ IF Full(prod[p].bound, prod[p].e) /\ read(word, "overflow") # DropOldest
       THEN /\ fate' = [fate EXCEPT ![prod[p].msg] =
                          IF prod[p].e < drained THEN "misjudged" ELSE "refused"]
            /\ sheds' = IF read(word, "overflow") = Block THEN sheds ELSE sheds + 1
            /\ prod' = [prod EXCEPT ![p] = NoPost]
       ELSE prod' = [prod EXCEPT ![p].pc = "admit"] /\ UNCHANGED <<fate, sheds>>
    /\ UNCHANGED <<word, published, enqueued, drained, box, lane, reconfigs, retired>>

\* The producer counts itself in, then enqueues.
CountIn(p) == /\ prod[p].pc = "admit" /\ enqueued' = enqueued + 1
              /\ prod' = [prod EXCEPT ![p].pc = "enqueue"]
              /\ UNCHANGED <<word, published, drained, sheds, box, lane, fate, reconfigs, retired>>

Enqueue(p) ==
    /\ prod[p].pc = "enqueue" /\ box' = Append(box, prod[p].msg)
    /\ fate' = [fate EXCEPT ![prod[p].msg] = "resident"]
    /\ prod' = [prod EXCEPT ![p] = NoPost]
    /\ UNCHANGED <<word, published, enqueued, drained, sheds, lane, reconfigs, retired>>

\* post_governed_unconditional: an escalation the guard already admitted skips
\* the bound and keeps the count.
Unconditional_Uncounted == "enqueue"
Unconditional == "admit"
post_governed_unconditional(p) ==
    /\ prod[p] = NoPost /\ Len(fate) < MaxMsgs
    /\ fate' = Append(fate, "posting")
    /\ prod' = [prod EXCEPT ![p] = [NoPost EXCEPT !.pc = Unconditional, !.msg = Len(fate')]]
    /\ UNCHANGED <<word, published, enqueued, drained, sheds, box, lane, reconfigs, retired>>

\* post_deactivate, for the idle timer or passivate(): the one control descriptor
\* of the lane is enqueued past the governed admission, and is not counted in.
\* The token keeps it out of the mailbox while it is in it.  The activation and
\* its counters outlive the retirement: the next message readmits it.
Deactivate == 0
post_deactivate ==
    /\ retired < MaxRetires /\ \A i \in DOMAIN box : box[i] # Deactivate
    /\ box' = Append(box, Deactivate)
    /\ UNCHANGED <<word, published, enqueued, drained, sheds, prod, lane, fate, reconfigs, retired>>
-----------------------------------------------------------------------------
(* drain_step_governed_seq.                                                    *)

\* A drain step loads bound, policy and budget once.
BeginStep ==
    /\ lane.pc = "off" /\ box # <<>>
    /\ lane' = [lane EXCEPT !.pc = "step", !.bound = read(word, "mailbox_bound"), !.left = read(word, "drain_budget"),
                            !.dropping = read(word, "mailbox_bound") # 0 /\ read(word, "overflow") = DropOldest]
    /\ UNCHANGED <<word, published, enqueued, drained, sheds, box, prod, fate, reconfigs, retired>>

EndStep == /\ lane.pc = "step" /\ (lane.left = 0 \/ box = <<>>) /\ lane' = Asleep
           /\ UNCHANGED <<word, published, enqueued, drained, sheds, box, prod, fate, reconfigs, retired>>

\* The resident count decides what happens to the oldest message: dropped over
\* the bound, shed if its deadline is over, else handled.
Verdict(m) == IF lane.dropping /\ (enqueued < drained \/ enqueued - drained > lane.bound) THEN "dropped"
              ELSE IF m \in Doomed THEN "doomed" ELSE "handled"

\* Whatever is dequeued is counted out, the control descriptor too, before it is
\* recognised as one.  What is shed is counted by note_shed, a load and a store.
Drain ==
    /\ lane.pc = "step" /\ lane.left > 0 /\ box # <<>>
    /\ box' = Tail(box) /\ drained' = drained + 1
    /\ \/ /\ Head(box) = Deactivate /\ retired' = retired + 1
          /\ lane' = [lane EXCEPT !.left = @ - 1] /\ UNCHANGED fate
       \/ /\ Head(box) # Deactivate /\ UNCHANGED retired
          /\ LET v == Verdict(Head(box)) IN
               /\ fate' = [fate EXCEPT ![Head(box)] = v]
               /\ lane' = IF v = "handled" THEN [lane EXCEPT !.left = @ - 1]
                          ELSE [lane EXCEPT !.left = @ - 1, !.pc = "note", !.seen = sheds]
    /\ UNCHANGED <<word, published, enqueued, sheds, prod, reconfigs>>

NoteShed == /\ lane.pc = "note" /\ sheds' = lane.seen + 1 /\ lane' = [lane EXCEPT !.pc = "step", !.seen = 0]
            /\ UNCHANGED <<word, published, enqueued, drained, box, prod, fate, reconfigs, retired>>

GovNext == \/ reconfigure \/ post_deactivate \/ BeginStep \/ EndStep \/ Drain \/ NoteShed
           \/ \E p \in Producers : Post(p) \/ Depth(p) \/ CountIn(p) \/ Enqueue(p) \/ post_governed_unconditional(p)
-----------------------------------------------------------------------------
Count(f) == Cardinality({m \in DOMAIN fate : fate[m] = f})

\* Each field of the hot word decodes to the configuration last accepted: an
\* out-of-range value never spills into the neighbouring field.
DecodesToPublished == unpack_operational(word) = published

\* The two counters account for every message: their difference is what is in the
\* mailbox or between counting and enqueueing, less one for every control
\* descriptor the lane ever dequeued.  So the resident depth, an unsigned
\* difference, is exact for an actor that was never passivated, and only for it.
ResidentIsExact ==
    enqueued + retired = drained + Len(SelectSeq(box, LAMBDA m : m # Deactivate))
                           + Cardinality({p \in Producers : prod[p].pc = "enqueue"})

\* The overflow policy is the action on a full mailbox: no message is refused on
\* a depth that never was (a stale enqueued below a newer drained).
RefusedOnlyWhenFull == Count("misjudged") = 0

-----------------------------------------------------------------------------
(* The circuit breaker a caller keeps per target (core/governance.hpp):     *)
(* sends are admitted or not, and results come back some time after.        *)

CONSTANTS Threshold,  \* fail_threshold_
          OpenFor,    \* open_ns_
          MaxSends,   \* bound on the sends through the breaker
          Late,       \* TRUE: the result of a send may come after the breaker half-opened
          MaxBreakerTime

VARIABLES breaker_now,
          breaker,   \* [state, fails, at, probing]
          out,       \* sends without a result: [id, probe]
          sends,
          closedBy   \* the kind of send whose result last closed the breaker

breakVars == <<breaker_now, breaker, out, sends, closedBy>>

BreakInit ==
    /\ breaker_now = 0
    /\ breaker = [state |-> "Closed", fails |-> 0, at |-> 0, probing |-> FALSE]
    /\ out = {} /\ sends = 0 /\ closedBy = "probe"

BreakerTick == breaker_now < MaxBreakerTime /\ breaker_now' = breaker_now + 1 /\ UNCHANGED <<breaker, out, sends, closedBy>>
Sent(probe) == out' = out \cup {[id |-> sends, probe |-> probe]} /\ sends' = sends + 1

\* on_send: a closed breaker admits; an open one admits a probe once its time
\* is over; a half-open one admits a probe when none is in flight.
HalfOpened == [breaker EXCEPT !.state = "HalfOpen", !.probing = TRUE]
Admits == CASE breaker.state = "Closed" -> TRUE
            [] breaker.state = "Open" -> breaker_now - breaker.at >= OpenFor /\ (Late \/ out = {})
            [] breaker.state = "HalfOpen" -> ~breaker.probing
on_send ==
    /\ sends < MaxSends /\ Admits
    /\ breaker' = IF breaker.state = "Closed" THEN breaker ELSE HalfOpened
    /\ Sent(breaker.state # "Closed")
    /\ UNCHANGED <<breaker_now, closedBy>>

tripped == [breaker EXCEPT !.state = "Open", !.at = breaker_now, !.probing = FALSE]

\* on_result does not know which send it is the result of.
on_result(ok) ==
    IF breaker.state = "HalfOpen"
    THEN IF ok THEN [breaker EXCEPT !.state = "Closed", !.fails = 0, !.probing = FALSE] ELSE tripped
    ELSE IF ok THEN [breaker EXCEPT !.fails = 0]
    ELSE IF breaker.fails + 1 >= Threshold THEN [tripped EXCEPT !.fails = breaker.fails + 1]
    ELSE [breaker EXCEPT !.fails = @ + 1]

Result ==
    /\ \E s \in out, ok \in BOOLEAN :
         /\ out' = out \ {s} /\ breaker' = on_result(ok)
         /\ closedBy' = IF breaker.state # "Closed" /\ breaker'.state = "Closed"
                        THEN (IF s.probe THEN "probe" ELSE "stale") ELSE closedBy
    /\ UNCHANGED <<breaker_now, sends>>

BreakNext == BreakerTick \/ on_send \/ Result
-----------------------------------------------------------------------------
\* A half-open breaker has at most one probe in flight, and what closes an open
\* breaker is the success of a probe.
OneProbe == Cardinality({s \in out : s.probe}) <= 1 /\ closedBy = "probe"

-----------------------------------------------------------------------------
(* The table of congestion gates a transport keeps per peer node            *)
(* (core/governance.hpp): each gate is a mark that expires and a token      *)
(* bucket used while the peer is marked; the table is capped and swept.     *)

CONSTANTS GatePeers, MaxGates, \* the table and its cap
          GateBurst, Until,    \* bucket capacity; for how long a mark lasts
          MaxGateTime

VARIABLES gate_now,
          gates,     \* gates_: peer -> [until, tokens, last]
          given      \* per peer: sends admitted since it was marked, and for how long it is

congVars == <<gate_now, gates, given>>

CongInit == gate_now = 0 /\ gates = [p \in {} |-> 0] /\ given = [p \in GatePeers |-> [n |-> 0, at |-> 0, until |-> 0]]

GateTick == gate_now < MaxGateTime /\ gate_now' = gate_now + 1 /\ UNCHANGED <<gates, given>>

Unprimed == MaxGateTime + 1   \* last_ns_ of a bucket nobody checked yet
Fresh == [until |-> 0, tokens |-> GateBurst, last |-> Unprimed]
Congested(t) == {p \in DOMAIN gates : t < gates[p].until}
Without(ps) == [p \in DOMAIN gates \ ps |-> gates[p]]
Put(g, p, v) == [q \in DOMAIN g \cup {p} |-> IF q = p THEN v ELSE g[q]]

\* gate_for: at the cap the gates not congested at time t are swept; if the
\* table is still full the gate handed out is in no table.
swept(t) == Without(DOMAIN gates \ Congested(t))
gate_for(p, t) ==
    LET kept == IF p \in DOMAIN gates \/ Cardinality(DOMAIN gates) < MaxGates THEN gates ELSE swept(t)
        known == p \in DOMAIN kept \/ Cardinality(DOMAIN kept) < MaxGates
    IN  [gate |-> IF p \in DOMAIN kept THEN kept[p] ELSE Fresh, known |-> known, table |-> kept]

\* mark_congested looks the gate up at time 0: no gate that was ever marked is
\* swept on its way.
mark_congested(p) ==
    /\ LET g == gate_for(p, 0)
       IN  /\ gates' = IF g.known THEN Put(g.table, p, [g.gate EXCEPT !.until = gate_now + Until]) ELSE g.table
           /\ given' = IF ~g.known THEN given
                       ELSE [given EXCEPT ![p] = IF gate_now < @.until THEN [@ EXCEPT !.until = gate_now + Until]
                                                 ELSE [n |-> 0, at |-> gate_now, until |-> gate_now + Until]]
    /\ UNCHANGED gate_now

\* TokenBucket::refill, one token a tick; the first check only starts the clock.
refill(g) ==
    IF g.last = Unprimed THEN [g EXCEPT !.last = gate_now]
    ELSE [g EXCEPT !.tokens = IF @ + (gate_now - g.last) > GateBurst THEN GateBurst ELSE @ + (gate_now - g.last), !.last = gate_now]

\* PeerCongestionGate::admit_marked: a peer that is not congested costs nothing; a
\* congested one costs a token, or is shed.
admit_marked(p) ==
    /\ LET g == gate_for(p, gate_now)
           free == gate_now >= g.gate.until
           filled == IF free THEN g.gate ELSE refill(g.gate)
           spend == ~free /\ filled.tokens > 0
           after == [filled EXCEPT !.tokens = @ - (IF spend THEN 1 ELSE 0)]
       IN  /\ gates' = IF g.known THEN Put(g.table, p, after) ELSE g.table
           /\ given' = IF (free \/ spend) /\ gate_now < given[p].until THEN [given EXCEPT ![p].n = @ + 1] ELSE given
    /\ UNCHANGED gate_now

CongNext == GateTick \/ \E p \in GatePeers : mark_congested(p) \/ admit_marked(p)
-----------------------------------------------------------------------------
\* A peer stays throttled while it is marked: since its mark no more sends were
\* admitted than the bucket held and the time refilled, however many other peers
\* pass through the capped table meanwhile.
MarkedIsThrottled == \A p \in GatePeers : gate_now < given[p].until => given[p].n <= GateBurst + (gate_now - given[p].at)

-----------------------------------------------------------------------------
(* The token bucket of a sender (detail/rate_bucket.hpp) in the table of    *)
(* slots the router hashes its peers into (core/distribution.hpp:334-341),  *)
(* and the budget of SWIM datagrams (core/cluster.hpp): time in ticks,      *)
(* Second of them to a second.                                              *)

CONSTANTS Peers, SlotOf,     \* peer -> slot; two peers may share one
          Rate, Burst, Second, MaxBucketTime

VARIABLES bucket_now,
          bucket,   \* slot -> [last, tokens]; last = 0 is never used
          asks,     \* slot -> times a frame came at this tick
          since,    \* slot -> when it was first used
          taken,    \* slot -> admitted since then
          eager     \* slots asked at every tick until they said no, ever since

bucketVars == <<bucket_now, bucket, asks, since, taken, eager>>
Slots == {SlotOf[p] : p \in Peers}

BucketInit ==
    /\ bucket_now = 1 /\ bucket = [s \in Slots |-> [last |-> 0, tokens |-> 0]]
    /\ asks = [s \in Slots |-> 0] /\ since = [s \in Slots |-> 0] /\ taken = [s \in Slots |-> 0] /\ eager = Slots

Least(a, b) == IF a < b THEN a ELSE b
\* The whole tokens earned since last; the clock moves by what they cost, and
\* all the way when the burst cap clipped them.
Refilled(b) ==
    LET add == ((bucket_now - b.last) * Rate) \div Second
        want == b.tokens + add
    IN IF add = 0 THEN b
       ELSE [last |-> IF want > Burst THEN bucket_now ELSE b.last + (add * Second) \div Rate, tokens |-> Least(Burst, want)]

Current(b) ==
    IF b.last = 0 \/ bucket_now - b.last >= Second THEN [last |-> bucket_now, tokens |-> Burst]
    ELSE IF bucket_now > b.last THEN Refilled(b) ELSE b

\* admit, from any peer of the slot.
admit(p) ==
    LET s == SlotOf[p] b == Current(bucket[s]) ok == b.tokens > 0 IN
    /\ asks[s] <= Burst
    /\ bucket' = [bucket EXCEPT ![s] = IF ok THEN [b EXCEPT !.tokens = @ - 1] ELSE b]
    /\ taken' = [taken EXCEPT ![s] = IF ok THEN @ + 1 ELSE @]
    /\ since' = [since EXCEPT ![s] = IF @ = 0 THEN bucket_now ELSE @]
    /\ asks' = [asks EXCEPT ![s] = IF ok THEN @ + 1 ELSE Burst + 1]
    /\ UNCHANGED <<bucket_now, eager>>

BucketTick ==
    /\ bucket_now < MaxBucketTime /\ bucket_now' = bucket_now + 1
    /\ eager' = {s \in eager : since[s] = 0 \/ asks[s] = Burst + 1}
    /\ asks' = [s \in Slots |-> 0]
    /\ UNCHANGED <<bucket, since, taken>>

BucketNext == BucketTick \/ \E p \in Peers : admit(p)
-----------------------------------------------------------------------------
\* Over any time a slot lets through at most its burst and what its rate earned
\* in that time, however the calls fall (admit, rate_bucket.hpp:19-43). The burst
\* is not larger than what a second earns (a full idle second refills it whole) and
\* the rate divides a second (else a refill is charged up to a tick too little).
RateIsKept == \A s \in Slots : since[s] # 0 => taken[s] <= Burst + ((bucket_now - since[s]) * Rate) \div Second

\* A sender that asks faster than the rate still gets the rate: the fraction of
\* a token is carried, not dropped, between calls (:29-37).
RateIsGiven == \A s \in eager : since[s] # 0 /\ asks[s] = Burst + 1
                   => taken[s] >= ((bucket_now - since[s]) * Rate) \div Second
=============================================================================
