------------------------------- MODULE Timers --------------------------------
(***************************************************************************)
(* The timer service (core/timer_service.hpp) over its hierarchical wheel   *)
(* and entry pool (core/timer_wheel.hpp).  The driver's step() collects the *)
(* due entries under mu_, fires them without it, and takes it again to      *)
(* re-arm or release them; arm() and cancel() of other threads run in       *)
(* between.  A handle names an entry and its generation, and outlives both. *)
(***************************************************************************)
EXTENDS Naturals, FiniteSets

CONSTANTS Entries,   \* the pool
          Size,      \* kWheelSize
          Levels,    \* kLevels
          Delays,    \* delays and periods in ticks, after ticks_ceil
          Periods,   \* 0 = one-shot
          MaxTime,   \* bound: ticks
          MaxArmings \* bound: timers armed

VARIABLES now,    \* wheel_.now_
          at,     \* at[e]: the bucket <<level, slot>> that links the entry, or where else it is
          timer,  \* timer[e]: expiry, period, generation, cancelled and the payload in its storage
          batch,  \* batch_: the entries collected, with their liveness at that moment
          pc,     \* the phase of step()
          handles, \* the TimerHandles given out, with the arming each belongs to
          asked    \* history: the armings whose handle was cancelled

timerVars == <<now, at, timer, batch, pc, handles, asked>>

Overflow == <<Levels, 0>>
InBatch == <<Levels + 1, 0>>
Free == <<Levels + 2, 0>>

NoTimer == [expiry |-> 0, period |-> 0, gen |-> 0, cancelled |-> FALSE, payload |-> FALSE, arming |-> 0]

TimersInit == /\ now = 0 /\ at = [e \in Entries |-> Free]
              /\ timer = [e \in Entries |-> NoTimer]
              /\ batch = {} /\ pc = "idle" /\ handles = {} /\ asked = {}

-----------------------------------------------------------------------------
(* TimingWheel.                                                             *)

Span(lvl) == Size ^ (lvl + 1)

\* The lowest level whose span holds the delay; its slot by the expiry.
insert(expiry, t) ==
    LET fits == {l \in 0..(Levels - 1) : expiry - t < Span(l)} IN
    IF expiry <= t THEN <<0, t % Size>>
    ELSE IF fits = {} THEN Overflow
    ELSE LET l == CHOOSE l \in fits : \A k \in fits : l <= k
         IN  <<l, (expiry \div (Size ^ l)) % Size>>

promoted(e) == at[e] = Overflow /\ timer[e].expiry - now < Span(Levels - 1)

\* cascade_chain: at the turn of level 0 the current slot of level 1, and of every
\* further level as long as the one below turned over too.
cascades_One(l) == l = 1 /\ now % Size = 0
cascades(l) == \A j \in 0..(l - 1) : (now \div (Size ^ j)) % Size = 0

cascaded(e) == \E l \in 1..(Levels - 1) : cascades(l) /\ at[e] = <<l, (now \div (Size ^ l)) % Size>>

\* Where an entry is after promote_overflow and cascade_chain.
settled(e) == IF promoted(e) \/ cascaded(e) THEN insert(timer[e].expiry, now) ELSE at[e]

-----------------------------------------------------------------------------
(* step(): collect under mu_.                                               *)

Collect ==
    /\ pc = "idle" /\ now < MaxTime
    /\ LET due == {e \in Entries : settled(e) = <<0, now % Size>>} IN
       /\ batch' = {[e |-> e, live |-> ~timer[e].cancelled] : e \in due}
       /\ at' = [e \in Entries |-> IF e \in due THEN InBatch ELSE settled(e)]
       /\ pc' = IF due = {} THEN "idle" ELSE "firing"
    /\ now' = now + 1
    /\ UNCHANGED <<timer, handles, asked>>

Over(d) == ~d.live \/ timer[d.e].period = 0

\* Without mu_: every live payload is sent; the last occurrence is destroyed.
Fire ==
    /\ pc = "firing"
    /\ timer' = [e \in Entries |-> IF \E d \in batch : d.e = e /\ Over(d)
                                   THEN [timer[e] EXCEPT !.payload = FALSE] ELSE timer[e]]
    /\ pc' = "settling"
    /\ UNCHANGED <<now, at, batch, handles, asked>>

\* pool_.release: the generation ends, so that old handles miss.
release(t) == [NoTimer EXCEPT !.gen = t.gen + 1, !.payload = t.payload]

rearmed_Blind(d) == ~Over(d)

rearmed(d) == ~Over(d) /\ ~timer[d.e].cancelled

\* Under mu_ again: release what is over, re-arm the periodic ones, and keep those
\* that were cancelled in between for a last pass.
Settle ==
    /\ pc = "settling"
    /\ LET over == {d.e : d \in {x \in batch : Over(x)}}
           late == {d \in batch : ~Over(d) /\ ~rearmed(d)}
           again == {d.e : d \in {x \in batch : rearmed(x)}}
           next(e) == timer[e].expiry + timer[e].period
       IN  /\ timer' = [e \in Entries |->
                          IF e \in over THEN release(timer[e])
                          ELSE IF e \in again THEN [timer[e] EXCEPT !.expiry = next(e)]
                          ELSE timer[e]]
           /\ at' = [e \in Entries |-> IF e \in over THEN Free
                                       ELSE IF e \in again THEN insert(next(e), now) ELSE at[e]]
           /\ batch' = late
           /\ pc' = IF late = {} THEN "idle" ELSE "late"
    /\ UNCHANGED <<now, handles, asked>>

\* The late ones: destroyed without mu_, then released under it.
DestroyLate ==
    /\ pc = "late"
    /\ timer' = [e \in Entries |-> IF \E d \in batch : d.e = e
                                   THEN [timer[e] EXCEPT !.payload = FALSE] ELSE timer[e]]
    /\ pc' = "releasing"
    /\ UNCHANGED <<now, at, batch, handles, asked>>

ReleaseLate ==
    /\ pc = "releasing"
    /\ LET es == {d.e : d \in batch} IN
       /\ timer' = [e \in Entries |-> IF e \in es THEN release(timer[e]) ELSE timer[e]]
       /\ at' = [e \in Entries |-> IF e \in es THEN Free ELSE at[e]]
    /\ batch' = {} /\ pc' = "idle"
    /\ UNCHANGED <<now, handles, asked>>

-----------------------------------------------------------------------------
(* Other threads, each under mu_.                                           *)

\* schedule_after and schedule_every.
arm(e) ==
    LET h == [e |-> e, gen |-> timer[e].gen, arming |-> Cardinality(handles) + 1] IN
    /\ at[e] = Free /\ Cardinality(handles) < MaxArmings
    /\ \E delay \in Delays, period \in Periods :
         /\ timer' = [timer EXCEPT ![e] = [expiry |-> now + delay, period |-> period, gen |-> @.gen,
                                     cancelled |-> FALSE, payload |-> TRUE, arming |-> h.arming]]
         /\ at' = [at EXCEPT ![e] = insert(now + delay, now)]
    /\ handles' = handles \cup {h}
    /\ UNCHANGED <<now, batch, pc, asked>>

\* Only marks; the wheel still links the entry until it comes due.
cancel_entry(h) ==
    /\ asked' = asked \cup {h.arming}
    /\ timer' = IF at[h.e] # Free /\ timer[h.e].gen = h.gen
                THEN [timer EXCEPT ![h.e].cancelled = TRUE] ELSE timer
    /\ UNCHANGED <<now, at, batch, pc, handles>>

TimersNext == \/ Collect \/ Fire \/ Settle \/ DestroyLate \/ ReleaseLate
              \/ \E e \in Entries : arm(e)
              \/ \E h \in handles : cancel_entry(h)

TimersSpec == TimersInit /\ [][TimersNext]_timerVars

-----------------------------------------------------------------------------

Linked(e) == at[e] \notin {Free, InBatch}

\* A timer is collected in the very tick it expires: none is passed over in a
\* bucket, whatever level it went through, and none fires early (insert,
\* cascade_chain, promote_overflow).
DueOnTime == /\ \A e \in Entries : Linked(e) => timer[e].expiry >= now
             /\ \A d \in batch : timer[d.e].expiry = now - 1

\* A handle cancels its own timer and no later one that reuses the entry.
CancelsItsOwn == \A e \in Entries : timer[e].cancelled => timer[e].arming \in asked

\* The storage holds a payload exactly while an occurrence may still use it: a
\* linked entry has one, a pooled entry does not, none leaks (step, release).
PayloadOwned == \A e \in Entries : /\ Linked(e) => timer[e].payload
                                   /\ at[e] = Free => ~timer[e].payload

KeepsCancelled == \A e \in Entries : timer[e].cancelled /\ timer'[e].gen = timer[e].gen
                                        => timer'[e].expiry = timer[e].expiry

\* A cancelled timer is never armed for another occurrence: at most the one
\* collected before the cancel still fires.
CancelledNotRearmed == [][KeepsCancelled]_timerVars
=============================================================================
