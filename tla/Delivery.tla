------------------------------ MODULE Delivery -------------------------------
(* Effectively-once effects (core/delivery.hpp, EffectivelyOnceLane) along  *)
(* the chain of its acceptance test: a client asks `order`, whose handler   *)
(* commits an event, Fanout messages to `inventory` and a reply in one      *)
(* fenced batch; the outbox is dispatched after the commit and inventory    *)
(* commits the effect of each message. Several activations of an actor may  *)
(* exist at once (a partition, a crash that was not noticed): each has the  *)
(* token it was given, and only the store knows which one is current.       *)
(* Client and dispatcher retry, so everything may arrive again.             *)
EXTENDS StateStore, SequencesExt, FiniteSets, Naturals, Sequences, FiniteSetsExt

CONSTANTS Acts,       \* activations of order
          Msgs,       \* the client sends 1..Msgs
          Fanout,     \* messages a handler sends to inventory
          LostFrames, \* may a frame to inventory get lost while later ones arrive?
          MaxStarts   \* bound: activations started over a behaviour

Stride == Fanout + 1  \* outbound_derivation_stride, above any fan-out

VARIABLES store,   \* the entry of order in the state store
          stock,   \* the entry of inventory
          lane,    \* the in-memory mirror of each activation
          todo,    \* outbound ids its deliver_outbox pass has not come to yet
          acked,   \* the highest message whose reply the client has
          starts

vars == <<store, stock, lane, todo, acked, starts>>

\* pc: none, fenced (token taken), ready, and building (a handler runs).
Lane == [pc : {"none", "fenced", "ready", "building"}, fence : Nat, next : Nat,
         wm : 0..Msgs, reply : 0..Msgs, outbox : Seq(Nat), inbound : 0..Msgs]

NoLane == [pc |-> "none", fence |-> 0, next |-> 0, wm |-> 0, reply |-> 0, outbox |-> <<>>, inbound |-> 0]

Init == /\ store = EmptyEntry
        /\ stock = acquire_fence(EmptyEntry)
        /\ lane = [a \in Acts |-> NoLane]
        /\ todo = [a \in Acts |-> <<>>]
        /\ acked = 0
        /\ starts = 0

-----------------------------------------------------------------------------

\* Pure in the inbound id and the emission index, so a replay derives the same.
derive_outbound(inbound, index) == inbound * Stride + index + 1

Outbound(inbound) == [i \in 1..Fanout |-> derive_outbound(inbound, i - 1)]

\* What recover() makes of the log, in log order: high-water mark, last reply,
\* and the outbox with the delivered entries taken out.
recover(log) ==
    LET Of(kind) == SelectSeq(log, LAMBDA r : r.kind = kind)
        Ids(kind) == [i \in DOMAIN Of(kind) |-> Of(kind)[i].id]
    IN  [wm |-> Max({0} \cup Range(Ids("watermark"))),
         reply |-> IF Ids("reply") = <<>> THEN 0 ELSE Last(Ids("reply")),
         outbox |-> SelectSeq(Ids("outbox"), LAMBDA o : o \notin Range(Ids("delivered")))]

\* The batch of one commit: event, watermark, outbox, reply, with consecutive seqs.
Batch(next, inbound) ==
    LET recs == <<[kind |-> "event", id |-> inbound], [kind |-> "watermark", id |-> inbound]>>
                  \o [i \in 1..Fanout |-> [kind |-> "outbox", id |-> Outbound(inbound)[i]]]
                  \o <<[kind |-> "reply", id |-> inbound]>>
    IN  [i \in DOMAIN recs |-> [seq |-> next + i - 1, kind |-> recs[i].kind, id |-> recs[i].id]]

-----------------------------------------------------------------------------
(* Activations of order.                                                   *)

\* A new activation takes a token: every older one is superseded from here on.
Start(a) ==
    /\ lane[a].pc = "none" /\ starts < MaxStarts
    /\ starts' = starts + 1
    /\ store' = acquire_fence(store)
    /\ lane' = [lane EXCEPT ![a] = [NoLane EXCEPT !.pc = "fenced", !.fence = store.owner + 1]]
    /\ UNCHANGED <<stock, todo, acked>>

Recover(a) ==
    /\ lane[a].pc = "fenced"
    /\ LET r == recover(store.log)
       IN  lane' = [lane EXCEPT ![a] = [@ EXCEPT !.pc = "ready", !.next = store.last_seq + 1,
                                               !.wm = r.wm, !.reply = r.reply, !.outbox = r.outbox]]
    /\ UNCHANGED <<store, stock, todo, acked, starts>>

Crash(a) ==
    /\ lane[a].pc # "none"
    /\ lane' = [lane EXCEPT ![a] = NoLane]
    /\ todo' = [todo EXCEPT ![a] = <<>>]
    /\ UNCHANGED <<store, stock, acked, starts>>

is_duplicate_Last(a, m) == m = lane[a].reply

is_duplicate(a, m) == m <= lane[a].wm

\* The client's messages arrive in order (006), the earlier ones any number of
\* times.  A duplicate gets the recorded reply, if it is the one for it.
Receive(a, m) ==
    /\ lane[a].pc = "ready" /\ m <= acked + 1
    /\ IF is_duplicate(a, m)
       THEN /\ lane[a].reply = m
            /\ acked' = Max({acked, m})
            /\ UNCHANGED lane
       ELSE /\ lane' = [lane EXCEPT ![a].pc = "building", ![a].inbound = m]
            /\ UNCHANGED acked
    /\ UNCHANGED <<store, stock, todo, starts>>

\* One fenced batch, and only then the mirrors; a superseded activation aborts.
Commit(a) ==
    /\ lane[a].pc = "building"
    /\ LET m == lane[a].inbound
           batch == Batch(lane[a].next, m)
       IN  IF append_ok(store, lane[a].fence, batch)
           THEN /\ store' = append_batch(store, lane[a].fence, batch)
                /\ lane' = [lane EXCEPT ![a] = [@ EXCEPT !.pc = "ready", !.next = @ + Len(batch), !.wm = m,
                                          !.reply = m, !.outbox = @ \o Outbound(m), !.inbound = 0]]
                /\ acked' \in {acked, m}    \* the reply may get lost
           ELSE /\ lane' = [lane EXCEPT ![a] = NoLane]
                /\ UNCHANGED <<store, acked>>
    /\ todo' = IF lane'[a] = NoLane THEN [todo EXCEPT ![a] = <<>>] ELSE todo
    /\ UNCHANGED <<stock, starts>>

-----------------------------------------------------------------------------
(* deliver_outbox: a pass over the ids pending when it began.              *)

BeginDeliver(a) ==
    /\ lane[a].pc = "ready" /\ todo[a] = <<>> /\ lane[a].outbox # <<>>
    /\ todo' = [todo EXCEPT ![a] = lane[a].outbox]
    /\ UNCHANGED <<store, stock, lane, acked, starts>>

\* inventory: skip what the high-water mark covers, else commit the effect.
StockWatermark == Max({0} \cup {stock.log[i].id : i \in DOMAIN stock.log})

Consume(o) ==
    IF o <= StockWatermark THEN stock
    ELSE append_batch(stock, stock.owner, <<[seq |-> stock.last_seq + 1, id |-> o]>>)

\* mark_delivered: fenced like every commit; drops the entry from the outbox.
mark_delivered(a, o) ==
    LET rec == <<[seq |-> lane[a].next, kind |-> "delivered", id |-> o]>>
    IN  IF append_ok(store, lane[a].fence, rec)
        THEN /\ store' = append_batch(store, lane[a].fence, rec)
             /\ lane' = [lane EXCEPT ![a] = [@ EXCEPT !.next = @ + 1,
                                       !.outbox = SelectSeq(@, LAMBDA x : x # o)]]
             /\ todo' = [todo EXCEPT ![a] = Tail(@)]
        ELSE /\ todo' = [todo EXCEPT ![a] = <<>>]    \* the pass aborts
             /\ UNCHANGED <<store, lane>>

\* The sink delivers the frame and reports the acknowledgement.
DeliverAcked(a) ==
    /\ lane[a].pc = "ready" /\ todo[a] # <<>>
    /\ stock' = Consume(Head(todo[a]))
    /\ mark_delivered(a, Head(todo[a]))
    /\ UNCHANGED <<acked, starts>>

\* The frame arrives and its acknowledgement is lost.
DeliverUnacked(a) ==
    /\ lane[a].pc = "ready" /\ todo[a] # <<>>
    /\ stock' = Consume(Head(todo[a]))
    /\ todo' = [todo EXCEPT ![a] = Tail(@)]
    /\ UNCHANGED <<store, lane, acked, starts>>

\* The sink fails: the pass aborts and every entry stays pending.
DeliverFailed(a) ==
    /\ lane[a].pc = "ready" /\ todo[a] # <<>>
    /\ todo' = [todo EXCEPT ![a] = <<>>]
    /\ UNCHANGED <<store, stock, lane, acked, starts>>

\* The frame is lost and the sink says "no ack yet": the pass goes on to the next
\* entry, if there is one.
DeliverLost(a) ==
    /\ LostFrames \/ Len(todo[a]) = 1
    /\ lane[a].pc = "ready" /\ todo[a] # <<>>
    /\ todo' = [todo EXCEPT ![a] = Tail(@)]
    /\ UNCHANGED <<store, stock, lane, acked, starts>>

Next == \E a \in Acts : \/ Start(a) \/ Recover(a) \/ Crash(a)
                        \/ (\E m \in 1..Msgs : Receive(a, m)) \/ Commit(a)
                        \/ BeginDeliver(a) \/ DeliverAcked(a) \/ DeliverUnacked(a)
                        \/ DeliverFailed(a) \/ DeliverLost(a)

Spec == Init /\ [][Next]_vars

-----------------------------------------------------------------------------

Logged(kind) == {i \in DOMAIN store.log : store.log[i].kind = kind}
LoggedIds(kind) == {store.log[i].id : i \in Logged(kind)}
Stocked == {stock.log[i].id : i \in DOMAIN stock.log}

\* No message has its effect twice, neither in order nor in inventory, whatever
\* was retried, replayed after a crash or attempted by a superseded activation
\* (is_duplicate, the fenced batch of Commit::commit, derive_outbound).
EffectOnce ==
    /\ Cardinality(Logged("event")) = Cardinality(LoggedIds("event"))
    /\ Cardinality(DOMAIN stock.log) = Cardinality(Stocked)

\* A superseded activation sends nothing: what inventory acted upon, and what
\* the client was told, is in the durable log of order (dispatch after commit).
OutputDurable == /\ Stocked \subseteq LoggedIds("outbox")
                 /\ \A m \in 1..acked : m \in LoggedIds("event")

\* An outbox entry is marked delivered only when inventory has its effect:
\* the high-water mark of inventory must not swallow a message it never saw.
DeliveredHasEffect == LoggedIds("delivered") \subseteq Stocked

\* What a recovery would find pending is exactly what has no marker, so a crash
\* neither resurrects a delivered entry nor forgets one (recover()).
PendingMirrorsLog ==
    \A a \in Acts : lane[a].pc \in {"ready", "building"} /\ lane[a].fence = store.owner =>
        lane[a].outbox = recover(store.log).outbox

-----------------------------------------------------------------------------
(* At-least-once retry for plain remote sends (core/delivery.hpp):          *)
(* ReliableSender re-sends what is not acknowledged, in order, each pump;   *)
(* ReliableReceiver accepts the successor of its high-water mark, and a     *)
(* sender it does not know at the frame that carries the sender's oldest    *)
(* unacknowledged number. The receiver's table is bounded and evicts the    *)
(* sender touched longest ago. Frames and acknowledgements travel on FIFO   *)
(* connections that may lose any of them. The module follows one sender;    *)
(* the other senders of the receiver show only in the evictions.            *)

CONSTANTS MaxSeq,       \* bound: frames the sender enqueues
          MaxChan,      \* bound: frames in flight
          MaxEvictions  \* bound: times the receiver's cap evicts the sender

VARIABLES pending,    \* pending_, oldest first
          next_seq,       \* next_
          cursor,     \* the seq the running pump() comes to next, 0 = no pump
          deferred,   \* deferred_ack_, 0 = none
          wire,       \* frames in flight
          acks,       \* cumulative acknowledgements in flight
          known,      \* does the receiver's table hold the sender?
          wm,         \* its high-water mark there
          got,        \* history: the frames handed to the application
          evictions

sender == <<pending, next_seq, cursor, deferred>>
receiver == <<known, wm, got, evictions>>
gbnVars == <<sender, wire, acks, receiver>>

GbnInit == /\ pending = <<>> /\ next_seq = 1 /\ cursor = 0 /\ deferred = 0
           /\ wire = <<>> /\ acks = <<>>
           /\ known = FALSE /\ wm = 0 /\ got = <<>> /\ evictions = 0

-----------------------------------------------------------------------------
(* ReliableSender.                                                         *)

\* enqueue() is allowed at any time, also from inside the sink of a pump.
Enqueue ==
    /\ next_seq <= MaxSeq
    /\ pending' = Append(pending, next_seq)
    /\ next_seq' = next_seq + 1
    /\ UNCHANGED <<cursor, deferred, wire, acks, receiver>>

PumpBegin ==
    /\ cursor = 0 /\ pending # <<>>
    /\ cursor' = Head(pending)
    /\ UNCHANGED <<pending, next_seq, deferred, wire, acks, receiver>>

\* One turn of pump(): the first pending frame at or after the cursor.
PumpSend ==
    /\ cursor # 0
    /\ \E i \in DOMAIN pending :
         /\ pending[i] >= cursor
         /\ \A j \in 1..(i - 1) : pending[j] < cursor
         /\ cursor' = pending[i] + 1
         /\ \/ /\ Len(wire) < MaxChan
               /\ wire' = Append(wire, [seq |-> pending[i], base |-> Head(pending)])
            \/ UNCHANGED wire    \* a lossy sink
    /\ UNCHANGED <<pending, next_seq, deferred, acks, receiver>>

\* How many frames at the front pop_front takes while they are acknowledged.
AckedPrefix(q, cumulative) ==
    CHOOSE n \in 0..Len(q) : /\ \A i \in 1..n : q[i] <= cumulative
                             /\ n < Len(q) => q[n + 1] > cumulative

Unacked(q, cumulative) == SubSeq(q, AckedPrefix(q, cumulative) + 1, Len(q))

\* The window is reached or nothing is left: PumpScope applies a deferred ack.
PumpEnd ==
    /\ cursor # 0
    /\ cursor' = 0 /\ deferred' = 0
    /\ pending' = Unacked(pending, deferred)
    /\ UNCHANGED <<next_seq, wire, acks, receiver>>

on_ack(cumulative) ==
    IF cursor # 0
    THEN deferred' = Max({deferred, cumulative}) /\ UNCHANGED pending
    ELSE pending' = Unacked(pending, cumulative) /\ UNCHANGED deferred

OnAck ==
    /\ acks # <<>>
    /\ acks' = Tail(acks)
    /\ on_ack(Head(acks))
    /\ UNCHANGED <<next_seq, cursor, wire, receiver>>

-----------------------------------------------------------------------------
(* ReliableReceiver.                                                       *)

accept(f) ==
    IF ~known THEN IF f.seq = f.base THEN "Deliver" ELSE "Gap"
    ELSE IF f.seq <= wm THEN "Duplicate"
    ELSE IF f.seq = wm + 1 THEN "Deliver" ELSE "Gap"

\* The acknowledgement that goes back; 0 acknowledges nothing.  A receiver that
\* does not know the sender has no mark for it.
ack_for(f) == IF accept(f) = "Deliver" THEN f.seq ELSE IF known THEN wm ELSE 0

ReceiveFrame ==
    /\ wire # <<>>
    /\ wire' = Tail(wire)
    /\ LET f == Head(wire)
       IN  /\ IF accept(f) = "Deliver"
              THEN known' = TRUE /\ wm' = f.seq /\ got' = Append(got, f.seq)
              ELSE UNCHANGED <<known, wm, got>>
           /\ \/ ack_for(f) > 0 /\ Len(acks) < MaxChan /\ acks' = Append(acks, ack_for(f))
              \/ UNCHANGED acks    \* lost
    /\ UNCHANGED <<sender, evictions>>

\* BoundedMap::trim: other senders were touched and the cap evicts this one.
Evict ==
    /\ known /\ evictions < MaxEvictions
    /\ known' = FALSE
    /\ evictions' = evictions + 1
    /\ UNCHANGED <<sender, wire, acks, wm, got>>

GbnNext == Enqueue \/ PumpBegin \/ PumpSend \/ PumpEnd \/ OnAck \/ ReceiveFrame \/ Evict

GbnSpec == GbnInit /\ [][GbnNext]_gbnVars

-----------------------------------------------------------------------------

\* While the receiver remembers the sender, it hands out each frame once and in
\* order, although frames are re-sent and acknowledgements lost (accept()).
InOrderOnce == evictions = 0 => got = [i \in 1..Len(got) |-> i]

\* A frame leaves the sender's queue only when the application has it: the
\* cumulative acknowledgement covers nothing that was dropped (on_ack, ack_for).
AckedWasDelivered == \A n \in 1..(next_seq - 1) : n \in Range(pending) \/ n \in Range(got)

NeverStuck == known /\ pending # <<>> => Head(pending) <= wm + 1

\* While the bounded table has kept the sender, the receiver waits for a frame that
\* the sender still has, whatever frames and acknowledgements were lost: otherwise
\* every later frame is a gap and is re-sent for ever (accept, on_ack).
NeverStuckWhileKnown == evictions = 0 => NeverStuck
=============================================================================
