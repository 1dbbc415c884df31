------------------------------- MODULE Streams -------------------------------
(* The streams of one node: the inbound stream of a lane, the streaming     *)
(* reply, and the ordered fan-out to many lanes.  They are built on the     *)
(* same credit ring (core/stream_channel.hpp) and share no state; each has  *)
(* its own variables and next-state relation.                               *)
EXTENDS Naturals, Sequences, FiniteSets

(* An inbound stream (core/stream_channel.hpp, core/stream_activation.hpp): *)
(* a ring of Capacity slots between one producer and the lane's workers,    *)
(* three cursors (head, disp, tail), the readiness edge armed_, the exec-   *)
(* state word and the reverse rendezvous on stalled_ and credit_gen_ for a  *)
(* producer that ran out of credit. A frame may suspend; a carrier thread   *)
(* then transfers the parked lane back to a worker.                         *)

CONSTANTS Capacity,     \* slots of the ring
          Frames,       \* frames the producer pushes
          Budget,       \* frames of one drain turn
          Workers,
          EarlyCarrier  \* TRUE: a completion may come before the lane has parked

VARIABLES head, disp, tail, \* the cursors
          slots,            \* what each slot holds
          exec,             \* the exec-state word
          armed, ready,     \* armed_ and ready_
          stalled, gen,     \* stalled_ and credit_gen_
          parked,           \* parked_idx_ of the suspended frame; None when there is none
          prod,             \* the producer: [pc, g]
          lane,             \* each worker: [pc, n, idx]
          carrier,          \* "idle", or "readmit" between its two steps
          seen              \* the frames on_frame and on_resume were given, in order

laneVars == <<head, disp, tail, slots, exec, armed, ready, stalled, gen, parked,
              prod, lane, carrier, seen>>

None == Frames
Idling == [pc |-> "idle", n |-> 0, idx |-> 0]

LaneInit ==
    /\ head = 0 /\ disp = 0 /\ tail = 0 /\ slots = [i \in 0..(Capacity - 1) |-> None]
    /\ exec = "Idle" /\ armed = FALSE /\ ready = FALSE /\ stalled = FALSE /\ gen = 0
    /\ parked = None /\ prod = [pc |-> "push", g |-> 0]
    /\ lane = [w \in Workers |-> Idling] /\ carrier = "idle"
    /\ seen = [started |-> <<>>, resumed |-> <<>>]

occupancy == head - disp
credit_available == Capacity - (head - tail)
Slot(i) == i % Capacity

cursors == <<head, disp, tail, slots>>
credit == <<stalled, gen>>
-----------------------------------------------------------------------------
(* The producer.                                                               *)

GoProd(pc) == prod' = [prod EXCEPT !.pc = pc]

\* try_push: without credit nothing changes; else the slot is written and
\* published, and the push goes on to arm the readiness edge.
try_push ==
    /\ prod.pc = "push" /\ head < Frames
    /\ IF credit_available = 0
       THEN GoProd("capture") /\ UNCHANGED cursors
       ELSE /\ slots' = [slots EXCEPT ![Slot(head)] = head]
            /\ head' = head + 1
            /\ GoProd("edge")
            /\ UNCHANGED <<disp, tail>>
    /\ UNCHANGED <<exec, armed, ready, credit, parked, lane, carrier, seen>>

\* push_blocking captures the generation before it arms stalled_.
CaptureGen == /\ prod.pc = "capture" /\ prod' = [pc |-> "stall", g |-> gen]
              /\ UNCHANGED <<cursors, exec, armed, ready, credit, parked, lane, carrier, seen>>

ArmStall == /\ prod.pc = "stall" /\ GoProd("recheck") /\ stalled' = TRUE
            /\ UNCHANGED <<cursors, exec, armed, ready, gen, parked, lane, carrier, seen>>

\* The re-check after arming; a depleted producer goes to sleep on g.
Recheck_Sleepy == /\ prod.pc = "recheck" /\ prod' = [pc |-> "wait", g |-> gen]
                  /\ UNCHANGED <<cursors, exec, armed, ready, credit, parked, lane, carrier, seen>>
Recheck == /\ prod.pc = "recheck"
           /\ IF credit_available > 0 THEN GoProd("push") /\ stalled' = FALSE
                                      ELSE GoProd("wait") /\ UNCHANGED stalled
           /\ UNCHANGED <<cursors, exec, armed, ready, gen, parked, lane, carrier, seen>>

\* credit_gen_.wait(g) returns once the generation differs.
Woken == /\ prod.pc = "wait" /\ gen # prod.g /\ GoProd("push") /\ stalled' = FALSE
         /\ UNCHANGED <<cursors, exec, armed, ready, gen, parked, lane, carrier, seen>>

\* arm_edge: only the push that finds the edge disarmed notifies the lane.
ArmEdge == /\ prod.pc = "edge" /\ armed' = TRUE
           /\ GoProd(IF armed THEN "push" ELSE "notify")
           /\ UNCHANGED <<cursors, exec, ready, credit, parked, lane, carrier, seen>>

NotifyEnqueued == /\ prod.pc = "notify" /\ GoProd("push")
                  /\ exec' = IF exec = "Idle" THEN "Scheduled" ELSE exec
                  /\ UNCHANGED <<cursors, armed, ready, credit, parked, lane, carrier, seen>>
-----------------------------------------------------------------------------
(* A worker of the lane.                                                       *)

GoLane(w, pc) == lane' = [lane EXCEPT ![w].pc = pc]

try_acquire(w) == /\ lane[w].pc = "idle" /\ exec = "Scheduled" /\ exec' = "Running"
                  /\ lane' = [lane EXCEPT ![w] = [Idling EXCEPT !.pc = "resume"]]
                  /\ UNCHANGED <<cursors, armed, ready, credit, parked, prod, carrier, seen>>

\* A completed frame is finished here, on the lane, and only now gives its
\* credit back.
resume_if_ready(w) ==
    /\ lane[w].pc = "resume"
    /\ lane' = [lane EXCEPT ![w].pc = "drain", ![w].n = 0]
    /\ ready' = FALSE
    /\ IF ready
       THEN /\ seen' = [seen EXCEPT !.resumed = Append(@, <<parked, slots[Slot(parked)]>>)]
            /\ tail' = tail + 1 /\ parked' = None
       ELSE UNCHANGED <<seen, tail, parked>>
    /\ UNCHANGED <<head, disp, slots, exec, armed, credit, prod, carrier>>

\* One iteration of drain: the budget, the empty ring, or the next frame.
Dispatch(w) ==
    /\ lane[w].pc = "drain"
    /\ \/ (lane[w].n >= Budget \/ occupancy = 0) /\ GoLane(w, "unstall") /\ UNCHANGED disp
       \/ /\ lane[w].n < Budget /\ occupancy > 0 /\ disp' = disp + 1
          /\ lane' = [lane EXCEPT ![w] = [pc |-> "frame", n |-> @.n + 1, idx |-> disp]]
    /\ UNCHANGED <<head, tail, slots, exec, armed, ready, credit, parked, prod, carrier, seen>>

\* on_frame either completes, which returns the credit, or suspends, which
\* pins the slot and leaves the lane to park.
OnFrame(w) ==
    /\ lane[w].pc = "frame"
    /\ seen' = [seen EXCEPT !.started = Append(@, slots[Slot(lane[w].idx)])]
    /\ \/ GoLane(w, "drain") /\ tail' = tail + 1 /\ UNCHANGED parked
       \/ GoLane(w, "park") /\ parked' = lane[w].idx /\ UNCHANGED tail
    /\ UNCHANGED <<head, disp, slots, exec, armed, ready, credit, prod, carrier>>

Park(w) == /\ lane[w].pc = "park" /\ exec' = "Parked" /\ GoLane(w, "idle")
           /\ UNCHANGED <<cursors, armed, ready, credit, parked, prod, carrier, seen>>

\* poll_unstall at the end of the turn: a stalled producer is woken.
poll_unstall(w) ==
    /\ lane[w].pc = "unstall"
    /\ stalled' = FALSE /\ gen' = IF stalled THEN gen + 1 ELSE gen
    /\ GoLane(w, IF lane[w].n >= Budget THEN "yield" ELSE "release")
    /\ UNCHANGED <<cursors, exec, armed, ready, parked, prod, carrier, seen>>

yield_to_scheduled(w) == /\ lane[w].pc = "yield" /\ exec' = "Scheduled" /\ GoLane(w, "idle")
                         /\ UNCHANGED <<cursors, armed, ready, credit, parked, prod, carrier, seen>>

\* close_out: release to Idle, disarm, probe, and take the lane back when a
\* frame came in between.
Release(w) == /\ lane[w].pc = "release" /\ exec' = "Idle" /\ GoLane(w, "disarm")
              /\ UNCHANGED <<cursors, armed, ready, credit, parked, prod, carrier, seen>>

Disarm(w) == /\ lane[w].pc = "disarm" /\ armed' = FALSE /\ GoLane(w, "probe")
             /\ UNCHANGED <<cursors, exec, ready, credit, parked, prod, carrier, seen>>

Probe(w) == /\ lane[w].pc = "probe" /\ GoLane(w, IF occupancy > 0 THEN "reacquire" ELSE "idle")
            /\ UNCHANGED <<cursors, exec, armed, ready, credit, parked, prod, carrier, seen>>

Reacquire(w) == /\ lane[w].pc = "reacquire"
                /\ IF exec = "Idle" THEN exec' = "Running" /\ GoLane(w, "rearm")
                                    ELSE UNCHANGED exec /\ GoLane(w, "idle")
                /\ UNCHANGED <<cursors, armed, ready, credit, parked, prod, carrier, seen>>

Rearm(w) == /\ lane[w].pc = "rearm" /\ armed' = TRUE /\ GoLane(w, "resume")
            /\ UNCHANGED <<cursors, exec, ready, credit, parked, prod, carrier, seen>>
-----------------------------------------------------------------------------
(* The carrier thread that completes a suspended frame: it publishes ready_,   *)
(* then tries Parked -> Scheduled.                                             *)

CarrierReady == /\ carrier = "idle" /\ parked # None /\ ~ready
                /\ EarlyCarrier \/ exec = "Parked"
                /\ ready' = TRUE /\ carrier' = "readmit"
                /\ UNCHANGED <<cursors, exec, armed, credit, parked, prod, lane, seen>>

Readmit == /\ carrier = "readmit" /\ carrier' = "idle"
           /\ exec' = IF exec = "Parked" THEN "Scheduled" ELSE exec
           /\ UNCHANGED <<cursors, armed, ready, credit, parked, prod, lane, seen>>

LaneNext == \/ try_push \/ CaptureGen \/ ArmStall \/ Recheck \/ Woken \/ ArmEdge \/ NotifyEnqueued
            \/ CarrierReady \/ Readmit
            \/ \E w \in Workers :
                \/ try_acquire(w) \/ resume_if_ready(w) \/ Dispatch(w) \/ OnFrame(w) \/ Park(w)
                \/ poll_unstall(w) \/ yield_to_scheduled(w) \/ Release(w) \/ Disarm(w)
                \/ Probe(w) \/ Reacquire(w) \/ Rearm(w)

LaneSpec == LaneInit /\ [][LaneNext]_laneVars
-----------------------------------------------------------------------------

Draining(w) == lane[w].pc \in {"resume", "drain", "frame", "park", "unstall", "yield",
                               "release", "rearm"}
InCloseOut(w) == lane[w].pc \in {"disarm", "probe", "reacquire"}

\* Somebody holds the lane, or is bound to take it: a worker drains or can be
\* scheduled, or the carrier will transfer the parked frame.
Attended == \/ exec = "Scheduled" \/ \E w \in Workers : Draining(w)
            \/ exec = "Parked" /\ parked # None /\ (~ready \/ carrier = "readmit")

\* Every frame reaches on_frame once, in the order it was pushed, and a frame
\* that suspended is resumed on the frame it started with: the ring never
\* overwrites a dispatched slot whose credit is still owed, whoever stalls.
FramesInOrder == /\ \A i \in 1..Len(seen.started) : seen.started[i] = i - 1
                 /\ \A i \in 1..Len(seen.resumed) : seen.resumed[i][1] = seen.resumed[i][2]

\* A frame in the ring is never stranded: the lane is attended, or the close-out
\* in progress, or the push about to notify, will find it.
FramesHaveDrainer ==
    occupancy > 0 => \/ Attended \/ prod.pc \in {"edge", "notify"}
                     \/ \E w \in Workers : InCloseOut(w)

\* A producer asleep on the credit generation is still armed, so the next end of
\* a drain turn wakes it, and there is going to be one: it never sleeps against
\* credit that has already been returned.
StallHasWaker ==
    prod.pc = "wait" /\ gen = prod.g =>
        stalled /\ (Attended \/ \E w \in Workers : InCloseOut(w))

-----------------------------------------------------------------------------
(* A streaming reply (core/reply_stream.hpp): the callee accepts the        *)
(* request, which resolves the caller's open cell, pushes numbered items    *)
(* through a credit ring and ends with close or fail; the caller drains,    *)
(* and may cancel or run into its deadline at any time. One terminal cause  *)
(* is latched; both a returned credit and a terminal wake a callee that     *)
(* sleeps in push.                                                          *)

CONSTANTS Cap,      \* slots of the ring
          MaxItems  \* items the callee has to send

VARIABLES terminal,  \* terminal_
          error,     \* fail_error_: "none", or the error the callee failed with
          ring,      \* the producer_seq of the items in the ring
          wake,      \* wake_gen_
          open,      \* the open cell: "empty", "opened", "refused"
          callee,    \* [pc, seq, g]
          caller,    \* [pc, next, gap]
          got        \* items next() returned

replyVars == <<terminal, error, ring, wake, open, callee, caller, got>>

ReplyInit ==
    /\ terminal = "Open" /\ error = "none" /\ ring = <<>> /\ wake = 0 /\ open = "empty"
    /\ callee = [pc |-> "asked", seq |-> 0, g |-> 0]
    /\ caller = [pc |-> "awaiting", next |-> 0, gap |-> FALSE]
    /\ got = <<>>

is_open == terminal = "Open"
GoCallee(pc) == callee' = [callee EXCEPT !.pc = pc]
GoCaller(pc) == caller' = [caller EXCEPT !.pc = pc]

\* latch_terminal: the first cause wins and wakes a sleeping callee; a loser
\* changes nothing.
latch_terminal(cause) == IF is_open THEN terminal' = cause /\ wake' = wake + 1
                                    ELSE UNCHANGED <<terminal, wake>>
-----------------------------------------------------------------------------
(* The callee.                                                                 *)

\* StreamResponder::accept.
accept == /\ callee.pc = "asked" /\ open' = "opened" /\ GoCallee("next")
          /\ UNCHANGED <<terminal, error, ring, wake, caller, got>>

\* reject, and the destructor of a responder nobody answered (fire_default):
\* the stream fails first, then the open cell does.
reject == /\ callee.pc = "asked" /\ latch_terminal("Failed")
          /\ GoCallee(IF is_open THEN "rejecting" ELSE "refusing")
          /\ UNCHANGED <<error, ring, open, caller, got>>

Refused == /\ callee.pc = "refusing" /\ open' = "refused" /\ GoCallee("end")
           /\ UNCHANGED <<terminal, error, ring, wake, caller, got>>

\* push() and try_push() look at the terminal first ...
PushChecks == /\ callee.pc = "next" /\ callee.seq < MaxItems
              /\ GoCallee(IF is_open THEN "push" ELSE "end")
              /\ UNCHANGED <<terminal, error, ring, wake, open, caller, got>>

\* ... and only then at the ring, which asks nothing of the terminal.  On a full
\* ring push() goes on to sleep, try_push() gives up.
Push ==
    /\ callee.pc = "push"
    /\ \/ /\ Len(ring) < Cap
          /\ ring' = Append(ring, callee.seq)
          /\ callee' = [callee EXCEPT !.pc = "next", !.seq = @ + 1]
       \/ /\ Len(ring) = Cap /\ UNCHANGED ring
          /\ \/ callee' = [callee EXCEPT !.pc = "recheck", !.g = wake]
             \/ GoCallee("next")
    /\ UNCHANGED <<terminal, error, wake, open, caller, got>>

\* After capturing the generation: the terminal and the credit once more.
ReplyRecheck == /\ callee.pc = "recheck"
                /\ GoCallee(IF ~is_open THEN "end" ELSE IF Len(ring) < Cap THEN "next" ELSE "wait")
                /\ UNCHANGED <<terminal, error, ring, wake, open, caller, got>>

ReplyWoken == /\ callee.pc = "wait" /\ wake # callee.g /\ GoCallee("next")
              /\ UNCHANGED <<terminal, error, ring, wake, open, caller, got>>

\* close(), or the producer's destructor; fail() in two steps: the cause is
\* latched, then the winner writes the error.
close == /\ callee.pc = "next" /\ latch_terminal("Closed")
         /\ GoCallee("end")
         /\ UNCHANGED <<error, ring, open, caller, got>>

fail == /\ callee.pc = "next" /\ latch_terminal("Failed")
        /\ GoCallee(IF is_open THEN "failing" ELSE "end")
        /\ UNCHANGED <<error, ring, open, caller, got>>

WriteError == /\ callee.pc \in {"failing", "rejecting"} /\ error' = "failed"
              /\ GoCallee(IF callee.pc = "failing" THEN "end" ELSE "refusing")
              /\ UNCHANGED <<terminal, ring, wake, open, caller, got>>
-----------------------------------------------------------------------------
(* The caller.                                                                 *)

\* The open future resolves to the drain handle, or to the error.
Opened == /\ caller.pc = "awaiting" /\ open # "empty"
          /\ GoCaller(IF open = "opened" THEN "drain" ELSE "over")
          /\ UNCHANGED <<terminal, error, ring, wake, open, callee, got>>

\* The future has no destructor: dropped unawaited it leaves the stream open.
DropOpenFuture == /\ caller.pc = "awaiting" /\ GoCaller("dropped")
                  /\ UNCHANGED <<terminal, error, ring, wake, open, callee, got>>

\* next(): the item leaves the ring and its credit returns, then the callee is
\* woken; an item below the watermark is a duplicate and is not delivered.
Take == /\ caller.pc \in {"drain", "finished"} /\ ring # <<>> /\ ring' = Tail(ring)
        /\ LET seq == Head(ring) IN
             /\ got' = IF seq >= caller.next THEN Append(got, seq) ELSE got
             /\ caller' = [caller EXCEPT !.pc = "wake", !.next = IF seq >= @ THEN seq + 1 ELSE @,
                                         !.gap = @ \/ seq > caller.next]
        /\ UNCHANGED <<terminal, error, wake, open, callee>>

wake_producer == /\ caller.pc = "wake" /\ wake' = wake + 1 /\ GoCaller("drain")
                 /\ UNCHANGED <<terminal, error, ring, open, callee, got>>

\* done(): first the terminal, then the occupancy.
DoneTerminal == /\ caller.pc = "drain" /\ ~is_open
                /\ GoCaller("done")
                /\ UNCHANGED <<terminal, error, ring, wake, open, callee, got>>
Done == /\ caller.pc = "done" /\ GoCaller(IF ring = <<>> THEN "finished" ELSE "drain")
        /\ UNCHANGED <<terminal, error, ring, wake, open, callee, got>>

\* cancel() and expire_deadline() only latch the cause: the caller keeps the
\* handle and may go on with next() and done().
cancel == /\ caller.pc \in {"drain", "finished"}
          /\ \E cause \in {"Cancelled", "DeadlineExceeded"} : latch_terminal(cause)
          /\ UNCHANGED <<error, ring, open, callee, caller, got>>

\* The destructor of the drain handle cancels, and is the end of the caller.
DropStream == /\ caller.pc \in {"drain", "finished"}
              /\ latch_terminal("Cancelled") /\ GoCaller("over")
              /\ UNCHANGED <<error, ring, open, callee, got>>

ReplyNext == \/ accept \/ reject \/ Refused \/ PushChecks \/ Push \/ ReplyRecheck \/ ReplyWoken
             \/ close \/ fail \/ WriteError
             \/ Opened \/ DropOpenFuture \/ Take \/ wake_producer \/ DoneTerminal \/ Done
             \/ cancel \/ DropStream

ReplySpec == ReplyInit /\ [][ReplyNext]_replyVars
-----------------------------------------------------------------------------

\* A callee asleep in push has somebody to wake it: the stream is open, the
\* ring is full, and the caller still holds the drain handle or will get it; or
\* a credit or a terminal is about to bump the generation it sleeps on.  The one
\* exception is a caller that dropped the open future without awaiting it.
PushIsWoken ==
    callee.pc = "wait" /\ wake = callee.g =>
        \/ is_open /\ Len(ring) = Cap /\ caller.pc \in {"awaiting", "drain", "done", "dropped"}
        \/ caller.pc = "wake"

\* The end of the stream can not overtake its items: a caller that finds done()
\* on a stream the callee ended has got every item the callee got a successful
\* push for, in order and without a gap.  When the caller ended it itself, by
\* cancel or its deadline, the push that had passed is_open by then may still
\* put in one item more, and only that push.
DoneMeansDrained ==
    /\ caller.pc = "finished" =>
           /\ terminal \in {"Closed", "Failed"} => Len(got) = callee.seq
           /\ callee.seq + (IF callee.pc = "push" THEN 1 ELSE 0) <= Len(got) + 1
    /\ \A i \in 1..Len(got) : got[i] = i - 1
    /\ ~caller.gap

-----------------------------------------------------------------------------
(* Ordered fan-out of one publisher (core/fanout.hpp): every subscriber     *)
(* owns a credit-ring fan_lane. On a full fan_lane the publisher either     *)
(* drops the message for that fan_lane and counts it (EvictAfter), or       *)
(* sleeps until the fan_lane drains or its subscriber departs (Block:       *)
(* push_blocking_while, notify_departure). The subscriber learns of drops   *)
(* from gaps in the ids.                                                    *)

CONSTANTS Subs,         \* subscriptions, each made at most once
          FanCap,          \* slots of a fan_lane
          MaxMsgs,
          RacingGaps    \* TRUE: take_trailing_gap may run while a publish does

VARIABLES evicting,         \* the policy: TRUE for EvictAfter, FALSE for Block
          snapshot, member, \* as in a topic
          inflight,         \* in_flight_
          fan_lane,             \* per subscription: [q, active, stalled, gen, evicted]
          pub,              \* the publisher: [pc, id, rest, g]
          con,              \* per subscriber: [pc, base, next, reported]
          fan_got, told, lost   \* ids popped; ids reported as gaps; ids really dropped

fanVars == <<evicting, snapshot, member, inflight, fan_lane, pub, con, fan_got, told, lost>>

FanInit ==
    /\ evicting \in BOOLEAN /\ snapshot = <<>> /\ member = [s \in Subs |-> "no"] /\ inflight = 0
    /\ fan_lane = [s \in Subs |-> [q |-> <<>>, active |-> TRUE, stalled |-> FALSE, gen |-> 0, evicted |-> 0]]
    /\ pub = [pc |-> "idle", id |-> 0, rest |-> <<>>, g |-> 0]
    /\ con = [s \in Subs |-> [pc |-> "idle", base |-> FALSE, next |-> 1, reported |-> 0]]
    /\ fan_got = [s \in Subs |-> {}] /\ told = [s \in Subs |-> {}] /\ lost = [s \in Subs |-> {}]

Full(s) == Len(fan_lane[s].q) >= FanCap
heard == <<fan_got, told, lost>>
-----------------------------------------------------------------------------
(* Membership.                                                                 *)

subscribe(s) == /\ member[s] = "no" /\ member' = [member EXCEPT ![s] = "on"]
                /\ snapshot' = Append(snapshot, s)
                /\ UNCHANGED <<evicting, inflight, fan_lane, pub, con, heard>>

unsubscribe(s) == /\ member[s] = "on" /\ member' = [member EXCEPT ![s] = "depart"]
                  /\ snapshot' = SelectSeq(snapshot, LAMBDA x : x # s)
                  /\ fan_lane' = [fan_lane EXCEPT ![s].active = FALSE]
                  /\ UNCHANGED <<evicting, inflight, pub, con, heard>>

\* notify_departure wakes a publisher that sleeps on this fan_lane; EvictAfter
\* never sleeps and skips it.
notify_departure(s) ==
    /\ member[s] = "depart" /\ member' = [member EXCEPT ![s] = "quiesce"]
    /\ fan_lane' = IF evicting THEN fan_lane ELSE [fan_lane EXCEPT ![s].stalled = FALSE, ![s].gen = @ + 1]
    /\ UNCHANGED <<evicting, snapshot, inflight, pub, con, heard>>

Quiesced_Now(s) == /\ member[s] = "quiesce" /\ member' = [member EXCEPT ![s] = "gone"]
                   /\ UNCHANGED <<evicting, snapshot, inflight, fan_lane, pub, con, heard>>
Quiesced(s) == /\ member[s] = "quiesce" /\ inflight = 0 /\ member' = [member EXCEPT ![s] = "gone"]
               /\ UNCHANGED <<evicting, snapshot, inflight, fan_lane, pub, con, heard>>
-----------------------------------------------------------------------------
(* publish.                                                                    *)

Goto(pc) == pub' = [pub EXCEPT !.pc = pc]
Target == Head(pub.rest)

Enter == /\ pub.pc = "idle" /\ pub.id < MaxMsgs /\ inflight' = inflight + 1 /\ Goto("load")
         /\ RacingGaps \/ \A s \in Subs : con[s].pc # "gap"
         /\ UNCHANGED <<evicting, snapshot, member, fan_lane, con, heard>>

\* An id is used only when there is somebody to send to.
Load == /\ pub.pc = "load"
        /\ pub' = [pub EXCEPT !.pc = IF snapshot = <<>> THEN "leave" ELSE "walk", !.rest = snapshot,
                              !.id = IF snapshot = <<>> THEN @ ELSE @ + 1]
        /\ UNCHANGED <<evicting, snapshot, member, inflight, fan_lane, con, heard>>

Walk == /\ pub.pc = "walk"
        /\ IF pub.rest = <<>> THEN Goto("leave")
           ELSE IF fan_lane[Target].active THEN Goto(IF evicting THEN "push" ELSE "again")
                ELSE pub' = [pub EXCEPT !.rest = Tail(@)]
        /\ UNCHANGED <<evicting, snapshot, member, inflight, fan_lane, con, heard>>

NextTarget == pub' = [pub EXCEPT !.pc = "walk", !.rest = Tail(@)]

\* try_push, and on a full fan_lane the policy: count a drop, or prepare to sleep.
FanPush ==
    /\ pub.pc = "push"
    /\ \/ /\ ~Full(Target) /\ NextTarget /\ UNCHANGED lost
          /\ fan_lane' = [fan_lane EXCEPT ![Target].q = Append(@, pub.id)]
       \/ /\ Full(Target) /\ evicting /\ NextTarget
          /\ fan_lane' = [fan_lane EXCEPT ![Target].evicted = @ + 1]
          /\ lost' = [lost EXCEPT ![Target] = @ \cup {pub.id}]
       \/ /\ Full(Target) /\ ~evicting /\ pub' = [pub EXCEPT !.pc = "stall", !.g = fan_lane[Target].gen]
          /\ UNCHANGED <<fan_lane, lost>>
    /\ UNCHANGED <<evicting, snapshot, member, inflight, con, fan_got, told>>

FanArmStall == /\ pub.pc = "stall" /\ Goto("leaving") /\ fan_lane' = [fan_lane EXCEPT ![Target].stalled = TRUE]
               /\ UNCHANGED <<evicting, snapshot, member, inflight, con, heard>>

\* keep_going is looked at again after arming: a departed fan_lane gives up.
KeepGoing == /\ pub.pc = "leaving"
             /\ IF fan_lane[Target].active THEN Goto("recheck") /\ UNCHANGED fan_lane
                                           ELSE NextTarget /\ fan_lane' = [fan_lane EXCEPT ![Target].stalled = FALSE]
             /\ UNCHANGED <<evicting, snapshot, member, inflight, con, heard>>

FanRecheck == /\ pub.pc = "recheck"
              /\ IF Full(Target) THEN Goto("wait") /\ UNCHANGED fan_lane
                                 ELSE Goto("again") /\ fan_lane' = [fan_lane EXCEPT ![Target].stalled = FALSE]
              /\ UNCHANGED <<evicting, snapshot, member, inflight, con, heard>>

FanWoken == /\ pub.pc = "wait" /\ fan_lane[Target].gen # pub.g /\ Goto("again")
            /\ fan_lane' = [fan_lane EXCEPT ![Target].stalled = FALSE]
            /\ UNCHANGED <<evicting, snapshot, member, inflight, con, heard>>

\* The head of the retry loop: a fan_lane that departed meanwhile is given up.
Again == /\ pub.pc = "again"
         /\ IF fan_lane[Target].active THEN Goto("push") ELSE NextTarget
         /\ UNCHANGED <<evicting, snapshot, member, inflight, fan_lane, con, heard>>

Leave == /\ pub.pc = "leave" /\ inflight' = inflight - 1 /\ Goto("idle")
         /\ UNCHANGED <<evicting, snapshot, member, fan_lane, con, heard>>
-----------------------------------------------------------------------------
(* The subscriber's own thread.                                                *)

\* try_pop: the gap before this message is what the ids skip.
GapBefore(s) == IF con[s].base THEN con[s].next..(Head(fan_lane[s].q) - 1) ELSE {}

try_pop(s) ==
    /\ con[s].pc = "idle" /\ member[s] # "no" /\ fan_lane[s].q # <<>>
    /\ fan_lane' = [fan_lane EXCEPT ![s].q = Tail(@)]
    /\ fan_got' = [fan_got EXCEPT ![s] = @ \cup {Head(fan_lane[s].q)}]
    /\ told' = [told EXCEPT ![s] = @ \cup GapBefore(s)]
    /\ con' = [con EXCEPT ![s] = [pc |-> "unstall", base |-> TRUE, next |-> Head(fan_lane[s].q) + 1,
                                  reported |-> @.reported + Cardinality(GapBefore(s))]]
    /\ UNCHANGED <<evicting, snapshot, member, inflight, pub, lost>>

fan_poll_unstall(s) ==
    /\ con[s].pc = "unstall" /\ con' = [con EXCEPT ![s].pc = "idle"]
    /\ fan_lane' = [fan_lane EXCEPT ![s].stalled = FALSE, ![s].gen = IF fan_lane[s].stalled THEN @ + 1 ELSE @]
    /\ UNCHANGED <<evicting, snapshot, member, inflight, pub, heard>>

\* take_trailing_gap looks at the occupancy, then at the drop counter.
LaneLooksEmpty(s) == /\ RacingGaps \/ inflight = 0
                     /\ con[s].pc = "idle" /\ con[s].base /\ fan_lane[s].q = <<>>
                     /\ con' = [con EXCEPT ![s].pc = "gap"]
                     /\ UNCHANGED <<evicting, snapshot, member, inflight, fan_lane, pub, heard>>

take_trailing_gap(s) ==
    LET pending == fan_lane[s].evicted - con[s].reported IN
    /\ con[s].pc = "gap"
    /\ told' = [told EXCEPT ![s] = @ \cup con[s].next..(con[s].next + pending - 1)]
    /\ con' = [con EXCEPT ![s].pc = "idle", ![s].next = @ + pending, ![s].reported = @ + pending]
    /\ UNCHANGED <<evicting, snapshot, member, inflight, fan_lane, pub, fan_got, lost>>

FanNext == \/ Enter \/ Load \/ Walk \/ FanPush \/ FanArmStall \/ KeepGoing \/ FanRecheck \/ FanWoken \/ Again \/ Leave
           \/ \E s \in Subs : \/ subscribe(s) \/ unsubscribe(s) \/ notify_departure(s) \/ Quiesced(s)
                              \/ try_pop(s) \/ fan_poll_unstall(s) \/ LaneLooksEmpty(s) \/ take_trailing_gap(s)

FanSpec == FanInit /\ [][FanNext]_fanVars
-----------------------------------------------------------------------------

\* A publisher asleep on a fan_lane is woken: the fan_lane is full and its subscriber,
\* still attached, will find stalled_ set when it pops; or a pop or a departure
\* under way is about to bump the generation.
SleeperIsWoken ==
    pub.pc = "wait" /\ fan_lane[Target].gen = pub.g =>
        \/ fan_lane[Target].stalled /\ Full(Target) /\ fan_lane[Target].active
        \/ fan_lane[Target].stalled /\ con[Target].pc = "unstall"
        \/ member[Target] = "depart"

\* After unsubscribe has returned, the publisher no longer uses the fan_lane.
DepartedIsLeft == pub.pc \notin {"idle", "load", "walk", "leave"} => member[Target] # "gone"

\* What a subscriber is told it missed is what was dropped for it: every id it
\* has passed since its first message it either received or was told of, and
\* an id reported missing was really dropped.
GapsAreExact ==
    \A s \in Subs : /\ told[s] \subseteq lost[s]
                    /\ \A i, j \in fan_got[s] : \A k \in i..j : k \in fan_got[s] \cup told[s]
=============================================================================
