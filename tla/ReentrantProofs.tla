--------------------------- MODULE ReentrantProofs ---------------------------
(***************************************************************************)
(* The reentrant lane, for any producers, carriers, monitors and messages,  *)
(* any cap and budget, any policy and restart limit.                        *)
(*                                                                          *)
(* LInv is inductive.  Its heart are three predicates on the lane's record: *)
(* Placed (a frame in flight is in one place at most: suspended, ready or   *)
(* running), Waits (the quiesce waiter leaves its place only to run alone   *)
(* behind a shut gate) and Sealed (a restart episode keeps the gate shut).  *)
(* Each member function of the lane keeps them; then each step does.        *)
(*                                                                          *)
(* That a frame is in one place at least (Covered) holds when one handler   *)
(* at most asks for quiescence: a second waiter overwrites the first.       *)
(***************************************************************************)
EXTENDS Reentrant, FiniteSetTheorems, TLAPS

Seals == {"Open", "Paused", "Draining", "Cancelling"}
Signals == {"EscalateCancel", "StopAll"}
Fates == {"new", "queued", "cancelled", "live", "waiting", "done", "dead", "freed"}

\* struct ReCore.
ReCore == [live : SUBSET Msgs, suspended : Seq(Msgs), ready : Seq(Msgs), waiter : Msgs \cup {None},
           seal : Seals, armed : BOOLEAN, actions : SUBSET Signals, told : SUBSET Msgs,
           restarting : BOOLEAN, stopped : BOOLEAN, count : Nat, decision : Policies,
           max_restarts : RestartLimits]

Shut(c) == c.seal \in {"Draining", "Cancelling"}

\* No message twice.
Distinct(q) == \A i, j \in DOMAIN q : q[i] = q[j] => i = j

\* The frames of the lane c, with f the frame that runs and s what became of
\* the messages: they are the live messages, each in one place at most.
Placed(c, f, s) ==
    /\ c \in ReCore /\ IsFiniteSet(c.live)
    /\ c.live = {m \in Msgs : s[m] \in {"live", "waiting"}} /\ c.told \subseteq c.live
    /\ Distinct(c.suspended) /\ Distinct(c.ready)
    /\ Range(c.suspended) \cap Range(c.ready) = {}
    /\ Range(c.suspended) \subseteq c.live /\ Range(c.ready) \subseteq c.live
    /\ \A m \in Range(c.suspended) : s[m] = "live"
    /\ f # None => f \in c.live /\ s[f] = "live" /\ f \notin Range(c.suspended) /\ f \notin Range(c.ready)

\* The quiesce waiter leaves its place only to run alone behind a shut gate.
Waits(c, s) ==
    /\ \A m \in Msgs : s[m] = "waiting" => m \in Quiescers
    /\ c.waiter # None => /\ s[c.waiter] = "waiting" /\ Shut(c)
                          /\ c.waiter \notin Range(c.ready)
    /\ \A m \in Range(c.ready) : s[m] = "waiting" => c.live = {m} /\ Shut(c)

\* A restart episode, when every handler heeds its stop_token: those in flight
\* were told to stop and the gate is shut, ...
Closed(c) == c.restarting => c.live # {} /\ (Stubborn = {} => c.live \subseteq c.told /\ Shut(c))

\* ... or the last of them, the frame f on the lane, has dropped a guard.
Sealed(c, f) ==
    c.restarting => /\ c.live # {}
                    /\ Stubborn = {} => c.live \subseteq c.told /\ (Shut(c) \/ c.live = {f})

\* The same before finish_restart_if_drained has looked.
Ending(c) == c.live # {} => Closed(c)

-----------------------------------------------------------------------------
\* Sequences without repetitions, and what is in them.
LEMMA TailKeeps ==
  ASSUME NEW S, NEW q \in Seq(S), q # <<>>
  PROVE  /\ Tail(q) \in Seq(S) /\ Head(q) \in S /\ Head(q) \in Range(q)
         /\ Range(Tail(q)) \subseteq Range(q) /\ Range(q) \subseteq Range(Tail(q)) \cup {Head(q)}
         /\ Distinct(q) => Distinct(Tail(q)) /\ Head(q) \notin Range(Tail(q))
  <1>1. /\ Tail(q) \in Seq(S) /\ Len(Tail(q)) = Len(q) - 1 /\ Len(q) \in Nat \ {0}
        /\ \A i \in 1..Len(Tail(q)) : Tail(q)[i] = q[i + 1] /\ i + 1 \in 1..Len(q) /\ i + 1 # 1
        /\ Head(q) \in S /\ Head(q) = q[1] /\ 1 \in 1..Len(q)
        /\ \A i \in 1..Len(q) : i = 1 \/ (i - 1 \in 1..Len(Tail(q)) /\ Tail(q)[i - 1] = q[i])
    OBVIOUS
  <1>2. DOMAIN q = 1..Len(q) /\ DOMAIN Tail(q) = 1..Len(Tail(q))
    BY <1>1
  <1>3. /\ Range(Tail(q)) \subseteq Range(q) /\ Range(q) \subseteq Range(Tail(q)) \cup {Head(q)}
        /\ Head(q) \in Range(q)
    <2>1. ASSUME NEW i \in 1..Len(Tail(q)) PROVE Tail(q)[i] \in Range(q)
      BY <1>1, <1>2 DEF Range
    <2>2. ASSUME NEW i \in 1..Len(q) PROVE q[i] \in Range(Tail(q)) \cup {Head(q)}
      BY <1>1, <1>2 DEF Range
    <2>3. Head(q) \in Range(q)
      BY <1>1, <1>2 DEF Range
    <2>. QED
      BY <1>2, <2>1, <2>2, <2>3 DEF Range
  <1>4. ASSUME Distinct(q) PROVE Distinct(Tail(q))
    <2>1. ASSUME NEW i \in 1..Len(Tail(q)), NEW j \in 1..Len(Tail(q)), Tail(q)[i] = Tail(q)[j] PROVE i = j
      <3>1. q[i + 1] = q[j + 1] /\ i + 1 \in 1..Len(q) /\ j + 1 \in 1..Len(q)
        BY <1>1, <2>1
      <3>2. i + 1 = j + 1
        BY <1>2, <1>4, <3>1 DEF Distinct
      <3>. QED
        BY <3>2
    <2>. QED
      BY <1>2, <2>1 DEF Distinct
  <1>5. ASSUME Distinct(q) PROVE Head(q) \notin Range(Tail(q))
    <2>1. ASSUME NEW i \in 1..Len(Tail(q)), Tail(q)[i] = Head(q) PROVE FALSE
      <3>1. q[i + 1] = q[1] /\ i + 1 \in 1..Len(q) /\ 1 \in 1..Len(q) /\ i + 1 # 1
        BY <1>1, <2>1
      <3>. QED
        BY <1>2, <1>5, <3>1 DEF Distinct
    <2>. QED
      BY <1>2, <2>1 DEF Range
  <1>. QED
    BY <1>1, <1>3, <1>4, <1>5

\* push_back of a new element.
LEMMA AppendKeeps ==
  ASSUME NEW S, NEW q \in Seq(S), NEW e \in S
  PROVE  /\ Append(q, e) \in Seq(S) /\ Append(q, e) # <<>>
         /\ Range(Append(q, e)) = Range(q) \cup {e}
         /\ Distinct(q) /\ e \notin Range(q) => Distinct(Append(q, e))
  <1>. DEFINE r == Append(q, e)
  <1>1. /\ r \in Seq(S) /\ Len(r) = Len(q) + 1 /\ Len(q) \in Nat
        /\ \A i \in 1..Len(q) : r[i] = q[i] /\ i \in 1..Len(r)
        /\ r[Len(q) + 1] = e /\ Len(q) + 1 \in 1..Len(r)
        /\ \A i \in 1..Len(r) : i \in 1..Len(q) \/ i = Len(q) + 1
    OBVIOUS
  <1>2. DOMAIN q = 1..Len(q) /\ DOMAIN r = 1..Len(r)
    BY <1>1
  <1>. HIDE DEF r
  <1>3. Range(r) = Range(q) \cup {e}
    BY <1>1, <1>2 DEF Range
  <1>4. ASSUME Distinct(q), e \notin Range(q) PROVE Distinct(r)
    <2>1. \A i \in 1..Len(q) : q[i] # e
      BY <1>2, <1>4 DEF Range
    <2>2. ASSUME NEW i \in 1..Len(r), NEW j \in 1..Len(r), r[i] = r[j] PROVE i = j
      <3>1. CASE i \in 1..Len(q) /\ j \in 1..Len(q)
        <4>1. q[i] = q[j]
          BY <1>1, <2>2, <3>1
        <4>. QED
          BY <1>2, <1>4, <3>1, <4>1 DEF Distinct
      <3>2. CASE ~(i \in 1..Len(q)) /\ ~(j \in 1..Len(q))
        BY <1>1, <3>2
      <3>3. CASE i \in 1..Len(q) /\ ~(j \in 1..Len(q))
        <4>1. r[j] = e /\ r[i] = q[i]
          BY <1>1, <3>3
        <4>. QED
          BY <2>1, <2>2, <3>3, <4>1
      <3>4. CASE ~(i \in 1..Len(q)) /\ j \in 1..Len(q)
        <4>1. r[i] = e /\ r[j] = q[j]
          BY <1>1, <3>4
        <4>. QED
          BY <2>1, <2>2, <3>4, <4>1
      <3>. QED
        BY <3>1, <3>2, <3>3, <3>4
    <2>. QED
      BY <1>2, <2>2 DEF Distinct
  <1>5. r # <<>>
    BY <1>1
  <1>. QED
    BY <1>1, <1>3, <1>4, <1>5 DEF r

\* Two sequences with nothing in common, one after the other.
LEMMA ConcatKeeps ==
  ASSUME NEW S, NEW p \in Seq(S), NEW q \in Seq(S)
  PROVE  /\ p \o q \in Seq(S) /\ Range(p \o q) = Range(p) \cup Range(q) /\ Len(p \o q) = Len(p) + Len(q)
         /\ Distinct(p) /\ Distinct(q) /\ Range(p) \cap Range(q) = {} => Distinct(p \o q)
  <1>. DEFINE r == p \o q
  <1>1. /\ r \in Seq(S) /\ Len(r) = Len(p) + Len(q) /\ Len(p) \in Nat /\ Len(q) \in Nat
        /\ \A i \in 1..Len(p) : r[i] = p[i] /\ i \in 1..Len(r)
        /\ \A i \in 1..Len(q) : r[Len(p) + i] = q[i] /\ Len(p) + i \in 1..Len(r)
        /\ \A i \in 1..Len(r) : i \in 1..Len(p) \/ (i - Len(p) \in 1..Len(q) /\ r[i] = q[i - Len(p)])
    OBVIOUS
  <1>2. DOMAIN p = 1..Len(p) /\ DOMAIN q = 1..Len(q) /\ DOMAIN r = 1..Len(r)
    BY <1>1
  <1>. HIDE DEF r
  <1>3. Range(r) = Range(p) \cup Range(q)
    <2>1. ASSUME NEW i \in 1..Len(r) PROVE r[i] \in Range(p) \cup Range(q)
      BY <1>1, <1>2 DEF Range
    <2>2. ASSUME NEW i \in 1..Len(p) PROVE p[i] \in Range(r)
      BY <1>1, <1>2 DEF Range
    <2>3. ASSUME NEW i \in 1..Len(q) PROVE q[i] \in Range(r)
      <3>1. Len(p) + i \in DOMAIN r /\ r[Len(p) + i] = q[i]
        BY <1>1, <1>2
      <3>. QED
        BY <3>1 DEF Range
    <2>. QED
      BY <1>2, <2>1, <2>2, <2>3 DEF Range
  <1>4. ASSUME Distinct(p), Distinct(q), Range(p) \cap Range(q) = {} PROVE Distinct(r)
    <2>1. ASSUME NEW i \in 1..Len(r), NEW j \in 1..Len(r), r[i] = r[j] PROVE i = j
      <3>1. CASE i \in 1..Len(p) /\ j \in 1..Len(p)
        <4>1. p[i] = p[j]
          BY <1>1, <2>1, <3>1
        <4>. QED
          BY <1>2, <1>4, <3>1, <4>1 DEF Distinct
      <3>2. CASE ~(i \in 1..Len(p)) /\ ~(j \in 1..Len(p))
        <4>1. i - Len(p) \in 1..Len(q) /\ j - Len(p) \in 1..Len(q) /\ q[i - Len(p)] = q[j - Len(p)]
          BY <1>1, <2>1, <3>2
        <4>2. i - Len(p) = j - Len(p)
          BY <1>2, <1>4, <4>1 DEF Distinct
        <4>. QED
          BY <1>1, <4>2
      <3>3. CASE i \in 1..Len(p) /\ ~(j \in 1..Len(p))
        <4>1. r[i] \in Range(p)
          BY <1>1, <1>2, <3>3 DEF Range
        <4>2. j - Len(p) \in DOMAIN q /\ r[j] = q[j - Len(p)]
          BY <1>1, <1>2, <3>3
        <4>3. r[j] \in Range(q)
          BY <4>2 DEF Range
        <4>. QED
          BY <1>4, <2>1, <4>1, <4>3
      <3>4. CASE ~(i \in 1..Len(p)) /\ j \in 1..Len(p)
        <4>1. r[j] \in Range(p)
          BY <1>1, <1>2, <3>4 DEF Range
        <4>2. i - Len(p) \in DOMAIN q /\ r[i] = q[i - Len(p)]
          BY <1>1, <1>2, <3>4
        <4>3. r[i] \in Range(q)
          BY <4>2 DEF Range
        <4>. QED
          BY <1>4, <2>1, <4>1, <4>3
      <3>. QED
        BY <3>1, <3>2, <3>3, <3>4
    <2>. QED
      BY <1>2, <2>1 DEF Distinct
  <1>. QED
    BY <1>1, <1>3, <1>4 DEF r

\* An empty place.
LEMMA EmptyKeeps == Range(<<>>) = {} /\ Distinct(<<>>)
  BY DEF Range, Distinct

-----------------------------------------------------------------------------
(* The member functions of the lane. *)

\* fire_cancel_all: the suspended frames become ready.
LEMMA FireKeeps ==
  ASSUME NEW f, NEW s, NEW c, Placed(c, f, s), Waits(c, s)
  PROVE  /\ Placed(fire_cancel_all(c), f, s) /\ Waits(fire_cancel_all(c), s)
         /\ fire_cancel_all(c).live = c.live /\ fire_cancel_all(c).seal = c.seal
         /\ fire_cancel_all(c).restarting = c.restarting /\ fire_cancel_all(c).waiter = c.waiter
         /\ Range(fire_cancel_all(c).ready) = Range(c.suspended) \cup Range(c.ready)
         /\ fire_cancel_all(c).suspended = <<>>
  <1>. DEFINE d == fire_cancel_all(c)
  <1>0. c \in ReCore /\ c.suspended \in Seq(Msgs) /\ c.ready \in Seq(Msgs) /\ c.live \in SUBSET Msgs
    BY DEF Placed, ReCore
  <1>1. /\ d.live = c.live /\ d.waiter = c.waiter /\ d.seal = c.seal /\ d.restarting = c.restarting
        /\ d.told = c.told \cup c.live /\ d.ready = c.ready \o c.suspended /\ d.suspended = <<>>
    BY <1>0 DEF fire_cancel_all, ReCore
  <1>2. /\ c.ready \o c.suspended \in Seq(Msgs)
        /\ Range(d.ready) = Range(c.suspended) \cup Range(c.ready) /\ Distinct(d.ready)
    BY <1>0, <1>1, ConcatKeeps DEF Placed
  <1>3. d \in ReCore
    <2>1. c.ready \o c.suspended \in Seq(Msgs) /\ <<>> \in Seq(Msgs)
      BY <1>2
    <2>. QED
      BY <1>0, <2>1 DEF fire_cancel_all, ReCore
  <1>4. Range(d.suspended) = {} /\ Distinct(d.suspended)
    BY <1>1, EmptyKeeps
  <1>. HIDE DEF d
  <1>5. Placed(d, f, s)
    BY <1>1, <1>2, <1>3, <1>4 DEF Placed
  <1>6. Waits(d, s)
    BY <1>1, <1>2 DEF Waits, Shut, Placed
  <1>. QED
    BY <1>1, <1>2, <1>5, <1>6 DEF d

\* Everybody in flight is told.
LEMMA FireTells == ASSUME NEW c \in ReCore PROVE fire_cancel_all(c).told = c.told \cup c.live
  BY DEF fire_cancel_all, ReCore

\* finish_restart_if_drained: with nobody in flight nobody waits, so the gate may open.
LEMMA FinishKeeps ==
  ASSUME NEW f, NEW s, NEW c, Placed(c, f, s), Waits(c, s), Ending(c)
  PROVE  /\ Placed(finish_restart_if_drained(c), f, s) /\ Waits(finish_restart_if_drained(c), s)
         /\ Closed(finish_restart_if_drained(c)) /\ finish_restart_if_drained(c).live = c.live
         /\ finish_restart_if_drained(c).waiter = c.waiter
         /\ finish_restart_if_drained(c).suspended = c.suspended
         /\ finish_restart_if_drained(c).ready = c.ready
  <1>1. CASE c.restarting /\ c.live = {}
    <2>. DEFINE d == finish_restart_if_drained(c)
    <2>1. /\ d \in ReCore /\ d.restarting = FALSE /\ d.live = c.live /\ d.told = c.told
          /\ d.suspended = c.suspended /\ d.ready = c.ready /\ d.waiter = c.waiter
      BY <1>1 DEF finish_restart_if_drained, Placed, ReCore, Seals
    <2>. HIDE DEF d
    <2>2. Placed(d, f, s)
      BY <2>1 DEF Placed
    <2>3. c.waiter = None
      BY <1>1 DEF Placed, Waits, ReCore
    <2>4. Waits(d, s)
      BY <1>1, <2>1, <2>3 DEF Waits, Placed
    <2>. QED
      BY <2>1, <2>2, <2>4 DEF d, Closed
  <1>2. CASE ~(c.restarting /\ c.live = {})
    BY <1>2 DEF finish_restart_if_drained, Ending, Closed
  <1>. QED
    BY <1>1, <1>2

\* maybe_resume_waiter: the waiter is alone when it becomes ready.
LEMMA ResumeWaiterKeeps ==
  ASSUME NEW s, NEW c, Placed(c, None, s), Waits(c, s)
  PROVE  /\ Placed(maybe_resume_waiter(c), None, s) /\ Waits(maybe_resume_waiter(c), s)
         /\ maybe_resume_waiter(c).live = c.live /\ maybe_resume_waiter(c).seal = c.seal
         /\ maybe_resume_waiter(c).restarting = c.restarting /\ maybe_resume_waiter(c).told = c.told
         /\ maybe_resume_waiter(c).suspended = c.suspended
         /\ \/ maybe_resume_waiter(c) = c
            \/ /\ maybe_resume_waiter(c).waiter = None /\ c.waiter # None
               /\ Range(maybe_resume_waiter(c).ready) = Range(c.ready) \cup {c.waiter}
  <1>. DEFINE d == maybe_resume_waiter(c)
  <1>1. CASE c.seal # "Open" /\ c.waiter # None /\ c.live = {c.waiter}
    <2>0. c \in ReCore /\ c.ready \in Seq(Msgs) /\ c.waiter \in Msgs
      BY <1>1 DEF Placed, ReCore
    <2>1. /\ d.live = c.live /\ d.waiter = None /\ d.seal = c.seal /\ d.restarting = c.restarting
          /\ d.told = c.told /\ d.suspended = c.suspended /\ d.ready = Append(c.ready, c.waiter)
      BY <1>1, <2>0 DEF maybe_resume_waiter, ReCore
    <2>2. /\ Append(c.ready, c.waiter) \in Seq(Msgs)
          /\ Range(d.ready) = Range(c.ready) \cup {c.waiter} /\ Distinct(d.ready)
      BY <1>1, <2>0, <2>1, AppendKeeps DEF Placed, Waits
    <2>3. d \in ReCore
      BY <1>1, <2>0, <2>2 DEF maybe_resume_waiter, ReCore
    <2>. HIDE DEF d
    <2>4. c.waiter \notin Range(c.suspended) /\ s[c.waiter] = "waiting"
      BY <1>1 DEF Placed, Waits
    <2>5. Placed(d, None, s)
      BY <1>1, <2>1, <2>2, <2>3, <2>4 DEF Placed
    <2>6. Waits(d, s)
      BY <1>1, <2>1, <2>2 DEF Waits, Shut
    <2>. QED
      BY <1>1, <2>1, <2>2, <2>5, <2>6 DEF d
  <1>2. CASE ~(c.seal # "Open" /\ c.waiter # None /\ c.live = {c.waiter})
    BY <1>2 DEF maybe_resume_waiter
  <1>. QED
    BY <1>1, <1>2

\* do_stop.
LEMMA StopKeeps ==
  ASSUME NEW f, NEW s, NEW c, Placed(c, f, s), Waits(c, s)
  PROVE  /\ Placed(do_stop(c), f, s) /\ Waits(do_stop(c), s) /\ Closed(do_stop(c))
         /\ do_stop(c).live = c.live /\ do_stop(c).waiter = c.waiter
         /\ do_stop(c).suspended = c.suspended /\ do_stop(c).ready = c.ready
  <1>. DEFINE d == do_stop(c)
  <1>0. c \in ReCore /\ c.live \in SUBSET Msgs /\ c.told \in SUBSET Msgs
    BY DEF Placed, ReCore
  <1>1. /\ d.live = c.live /\ d.told = c.told \cup c.live /\ d.suspended = c.suspended
        /\ d.ready = c.ready /\ d.waiter = c.waiter /\ d.seal = c.seal /\ d.restarting = FALSE
    BY <1>0 DEF do_stop, ReCore
  <1>2. d \in ReCore
    BY <1>0 DEF do_stop, ReCore
  <1>. HIDE DEF d
  <1>3. Placed(d, f, s)
    BY <1>1, <1>2 DEF Placed
  <1>4. Waits(d, s)
    BY <1>1 DEF Waits, Shut
  <1>. QED
    BY <1>1, <1>3, <1>4 DEF d, Closed

\* What the lane depends on: a record that differs elsewhere only is as good.
Alike(d, c) == /\ d \in ReCore /\ d.live = c.live /\ d.told = c.told /\ d.suspended = c.suspended
               /\ d.ready = c.ready /\ d.waiter = c.waiter

LEMMA AlikeKeeps ==
  ASSUME NEW f, NEW s, NEW c, NEW d, Placed(c, f, s), Waits(c, s), Alike(d, c),
         d.seal = c.seal \/ Shut(d) \/ (c.waiter = None /\ \A m \in Range(c.ready) : s[m] # "waiting")
  PROVE  Placed(d, f, s) /\ Waits(d, s)
  <1>1. Placed(d, f, s)
    BY DEF Placed, Alike
  <1>2. Waits(d, s)
    BY DEF Waits, Alike, Shut
  <1>. QED
    BY <1>1, <1>2

\* do_restart_reentrant: the episode begins behind a gate it shuts.
LEMMA RestartKeeps ==
  ASSUME NEW f, NEW s, NEW c, Placed(c, f, s), Waits(c, s), Ending(c),
         NEW refill \in BOOLEAN
  PROVE  LET d == do_restart_reentrant(c, refill)
         IN /\ Placed(d, f, s) /\ Waits(d, s) /\ Ending(d)
            /\ d.live = c.live /\ d.waiter = c.waiter
            /\ Range(d.suspended) \cup Range(d.ready) = Range(c.suspended) \cup Range(c.ready)
  <1>. DEFINE b == charge_restart(c, refill)
              e == [b EXCEPT !.restarting = TRUE, !.seal = "Cancelling"]
  <1>0. c \in ReCore /\ c.count \in Nat
    BY DEF Placed, ReCore
  <1>1. Alike(b, c) /\ b.seal = c.seal
    BY SMTT(30), <1>0 DEF charge_restart, ReCore, Alike
  <1>2. Placed(b, f, s) /\ Waits(b, s)
    BY <1>1, AlikeKeeps
  <1>3. Alike(e, b) /\ e.seal = "Cancelling"
    BY <1>1 DEF Alike, ReCore, Seals
  <1>4. Placed(e, f, s) /\ Waits(e, s)
    <2>1. Shut(e)
      BY <1>3 DEF Shut
    <2>. QED
      BY <1>2, <1>3, <2>1, AlikeKeeps
  <1>. HIDE DEF b, e
  <1>5. CASE c.restarting
    BY <1>5 DEF do_restart_reentrant
  <1>6. CASE ~c.restarting /\ b.count > c.max_restarts
    <2>1. do_restart_reentrant(c, refill) = do_stop(b)
      BY <1>6 DEF do_restart_reentrant, b
    <2>. QED
      BY <1>1, <1>2, <2>1, StopKeeps DEF Closed, Ending, Alike
  <1>7. CASE ~c.restarting /\ ~(b.count > c.max_restarts)
    <2>1. do_restart_reentrant(c, refill) = finish_restart_if_drained(fire_cancel_all(e))
      BY <1>7 DEF do_restart_reentrant, b, e
    <2>. DEFINE g == fire_cancel_all(e)
    <2>2. /\ Placed(g, f, s) /\ Waits(g, s) /\ g.live = e.live /\ g.seal = e.seal /\ g.waiter = e.waiter
          /\ Range(g.ready) = Range(e.suspended) \cup Range(e.ready) /\ g.suspended = <<>>
      BY ZenonT(40), <1>4, FireKeeps
    <2>7. g.told = e.told \cup e.live
      BY <1>4, FireTells DEF Placed
    <2>. HIDE DEF g
    <2>3. Ending(g)
      <3>1. Shut(g) /\ g.live \subseteq g.told
        BY <1>3, <2>2, <2>7 DEF Shut
      <3>. QED
        BY <3>1 DEF Ending, Closed
    <2>. DEFINE d == finish_restart_if_drained(g)
    <2>4. /\ Placed(d, f, s) /\ Waits(d, s) /\ Closed(d) /\ d.live = g.live /\ d.waiter = g.waiter
          /\ d.suspended = g.suspended /\ d.ready = g.ready
      BY <2>2, <2>3, FinishKeeps
    <2>5. d = do_restart_reentrant(c, refill)
      BY <2>1 DEF g
    <2>. HIDE DEF d
    <2>6. /\ d.live = c.live /\ d.waiter = c.waiter
          /\ Range(d.suspended) \cup Range(d.ready) = Range(c.suspended) \cup Range(c.ready)
      BY <1>1, <1>3, <2>2, <2>4, EmptyKeeps DEF Alike
    <2>. QED
      BY <2>4, <2>5, <2>6 DEF Ending
  <1>. QED
    BY <1>5, <1>6, <1>7

\* apply_lane_actions: the signals of other threads.
LEMMA ActionsKeep ==
  ASSUME NEW f, NEW s, NEW c, Placed(c, f, s), Waits(c, s), Sealed(c, f)
  PROVE  LET d == apply_lane_actions(c)
         IN /\ Placed(d, f, s) /\ Waits(d, s) /\ Sealed(d, f)
            /\ d.live = c.live /\ d.waiter = c.waiter /\ (Shut(c) => Shut(d))
            /\ Range(d.suspended) \cup Range(d.ready) = Range(c.suspended) \cup Range(c.ready)
  <1>. DEFINE b == [c EXCEPT !.actions = {},
                             !.told = IF "StopAll" \in c.actions THEN @ \cup c.live ELSE @]
              e == [b EXCEPT !.seal = "Cancelling"]
              h == [c EXCEPT !.told = IF "StopAll" \in c.actions THEN @ \cup c.live ELSE @]
  <1>0. c \in ReCore /\ c.live \in SUBSET Msgs /\ c.told \in SUBSET Msgs
    BY DEF Placed, ReCore
  <1>1. /\ b \in ReCore /\ b.live = c.live /\ b.suspended = c.suspended /\ b.ready = c.ready
        /\ b.waiter = c.waiter /\ b.seal = c.seal /\ b.restarting = c.restarting
        /\ (b.told = c.told \/ b.told = c.told \cup c.live)
    BY <1>0 DEF ReCore
  <1>2. Placed(b, f, s) /\ Waits(b, s) /\ Sealed(b, f)
    BY <1>1 DEF Placed, Waits, Sealed, Shut
  <1>3. /\ e \in ReCore /\ e.live = b.live /\ e.suspended = b.suspended /\ e.ready = b.ready
        /\ e.waiter = b.waiter /\ e.seal = "Cancelling" /\ e.restarting = b.restarting /\ e.told = b.told
    BY ZenonT(40), <1>1 DEF ReCore, Seals
  <1>. HIDE DEF b, e
  <1>4. Placed(e, f, s) /\ Waits(e, s) /\ Sealed(e, f)
    BY <1>2, <1>3 DEF Placed, Waits, Sealed, Shut
  <1>5. CASE "EscalateCancel" \in c.actions /\ c.seal = "Draining"
    <2>1. apply_lane_actions(c) = fire_cancel_all(e)
      BY <1>5 DEF apply_lane_actions, b, e
    <2>. DEFINE d == fire_cancel_all(e)
    <2>2. /\ Placed(d, f, s) /\ Waits(d, s) /\ d.live = e.live /\ d.seal = e.seal /\ d.waiter = e.waiter
          /\ d.restarting = e.restarting
          /\ Range(d.ready) = Range(e.suspended) \cup Range(e.ready) /\ d.suspended = <<>>
      BY ZenonT(40), <1>4, FireKeeps
    <2>4. d.told = e.told \cup e.live
      BY <1>4, FireTells DEF Placed
    <2>3. d = apply_lane_actions(c)
      BY <2>1
    <2>. HIDE DEF d
    <2>. QED
      BY <1>1, <1>3, <1>4, <2>2, <2>3, <2>4, EmptyKeeps DEF Sealed, Shut
  <1>6. CASE ~("EscalateCancel" \in c.actions /\ c.seal = "Draining")
    <2>1. apply_lane_actions(c) = b
      BY <1>6 DEF apply_lane_actions, b
    <2>. QED
      BY <1>1, <1>2, <2>1 DEF Shut
  <1>. QED
    BY <1>5, <1>6

\* The frame on the lane is over: it is in no place any more.  If it held the
\* guard, it was alone.
LEMMA RemoveKeeps ==
  ASSUME NEW f \in Msgs, NEW s \in [Msgs -> Fates], NEW c, NEW b,
         Placed(c, f, s), Waits(c, s), Sealed(c, f),
         b = c \/ (b = release_seal(c) /\ c.live = {f}), NEW t,
         t[f] \in {"done", "dead"}, \A m \in Msgs \ {f} : t[m] = s[m]
  PROVE  LET d == remove_live(b, f)
         IN /\ Placed(d, None, t) /\ Waits(d, t) /\ Ending(d)
            /\ d.live = c.live \ {f} /\ d.waiter = c.waiter
            /\ d.suspended = c.suspended /\ d.ready = c.ready
  <1>. DEFINE d == remove_live(b, f)
  <1>0. /\ c \in ReCore /\ c.live \in SUBSET Msgs /\ c.told \in SUBSET Msgs /\ f \in c.live
        /\ s[f] = "live" /\ f \notin Range(c.suspended) /\ f \notin Range(c.ready) /\ IsFiniteSet(c.live)
    BY MsgsAssumption DEF Placed, ReCore
  <1>1. /\ b \in ReCore /\ b.live = c.live /\ b.suspended = c.suspended /\ b.ready = c.ready
        /\ b.waiter = c.waiter /\ b.restarting = c.restarting /\ b.told = c.told
        /\ (b.seal = c.seal \/ c.live = {f})
    BY ZenonT(40), <1>0 DEF release_seal, ReCore, Seals
  <1>2. /\ d \in ReCore /\ d.live = c.live \ {f} /\ d.suspended = c.suspended /\ d.ready = c.ready
        /\ d.waiter = c.waiter /\ d.restarting = c.restarting /\ d.told = c.told \ {f}
        /\ (d.seal = c.seal \/ c.live = {f})
    BY <1>0, <1>1 DEF remove_live, ReCore
  <1>. HIDE DEF d
  <1>4. IsFiniteSet(d.live)
    BY <1>0, <1>2, FS_RemoveElement
  <1>5. Range(c.suspended) \subseteq Msgs /\ Range(c.ready) \subseteq Msgs
    BY <1>0 DEF Placed
  <1>6. Placed(d, None, t)
    <2>1. d.live = {m \in Msgs : t[m] \in {"live", "waiting"}}
      BY <1>0, <1>2 DEF Placed
    <2>. QED
      BY <1>0, <1>2, <1>4, <1>5, <2>1 DEF Placed
  <1>7. Waits(d, t)
    <2>1. \A m \in Msgs : t[m] = "waiting" => s[m] = "waiting" /\ m # f
      BY <1>0
    <2>2. d.waiter # None => /\ d.waiter \in Msgs /\ d.waiter # f /\ d.seal = c.seal
      <3>1. c.waiter # None => c.waiter \in c.live /\ c.waiter # f
        BY <1>0 DEF Waits, Placed, ReCore
      <3>. QED
        BY <1>0, <1>2, <3>1
    <2>3. \A m \in Range(c.ready) : t[m] # "waiting"
      BY <1>0, <1>5, <2>1 DEF Waits
    <2>. QED
      BY <1>2, <2>1, <2>2, <2>3 DEF Waits, Shut
  <1>8. Ending(d)
    BY <1>2 DEF Sealed, Shut, Ending, Closed
  <1>. QED
    BY <1>2, <1>6, <1>7, <1>8 DEF d

\* complete_and_remove, with the guard released before.
LEMMA ReturnKeeps ==
  ASSUME NEW f \in Msgs, NEW s \in [Msgs -> Fates], NEW c, NEW b,
         Placed(c, f, s), Waits(c, s), Sealed(c, f),
         b = c \/ (b = release_seal(c) /\ c.live = {f}),
         NEW t, t[f] \in {"done", "dead"}, \A m \in Msgs \ {f} : t[m] = s[m]
  PROVE  LET d == complete_and_remove(b, f)
         IN /\ Placed(d, None, t) /\ Waits(d, t) /\ Closed(d) /\ d.live = c.live \ {f}
            /\ (d.waiter = c.waiter \/ (d.waiter = None /\ c.waiter \in Range(d.ready)))
            /\ Range(c.suspended) \cup Range(c.ready) \subseteq Range(d.suspended) \cup Range(d.ready)
  <1>. DEFINE g == remove_live(b, f)
              h == maybe_resume_waiter(g)
              d == finish_restart_if_drained(h)
  <1>1. /\ Placed(g, None, t) /\ Waits(g, t) /\ Ending(g)
        /\ g.live = c.live \ {f} /\ g.waiter = c.waiter
        /\ g.suspended = c.suspended /\ g.ready = c.ready
    BY RemoveKeeps
  <1>. HIDE DEF g
  <1>2. /\ Placed(h, None, t) /\ Waits(h, t) /\ h.live = g.live /\ h.seal = g.seal
        /\ h.restarting = g.restarting /\ h.suspended = g.suspended /\ h.told = g.told
        /\ (h = g \/ (h.waiter = None /\ g.waiter # None /\ Range(h.ready) = Range(g.ready) \cup {g.waiter}))
    BY <1>1, ResumeWaiterKeeps
  <1>. HIDE DEF h
  <1>3. Ending(h)
    BY <1>1, <1>2 DEF Shut, Ending, Closed
  <1>4. /\ Placed(d, None, t) /\ Waits(d, t) /\ Closed(d) /\ d.live = h.live
        /\ d.waiter = h.waiter /\ d.suspended = h.suspended /\ d.ready = h.ready
    BY <1>2, <1>3, FinishKeeps
  <1>5. d = complete_and_remove(b, f)
    BY DEF complete_and_remove, h, g
  <1>. HIDE DEF d
  <1>. QED
    BY <1>1, <1>2, <1>4, <1>5

\* on_fault_reentrant, whatever the directive.
LEMMA FaultKeeps ==
  ASSUME NEW f \in Msgs, NEW s \in [Msgs -> Fates], NEW c, NEW b, NEW refill \in BOOLEAN,
         Placed(c, f, s), Waits(c, s), Sealed(c, f),
         Policies \subseteq {"Resume", "Restart", "Stop", "Escalate"},
         b = c \/ (b = release_seal(c) /\ c.live = {f}),
         NEW t, t[f] \in {"done", "dead"}, \A m \in Msgs \ {f} : t[m] = s[m]
  PROVE  LET d == on_fault_reentrant(b, f, refill)
         IN /\ Placed(d, None, t) /\ Waits(d, t) /\ Closed(d) /\ d.live = c.live \ {f}
            /\ d.waiter = c.waiter
            /\ Range(c.suspended) \cup Range(c.ready) = Range(d.suspended) \cup Range(d.ready)
  <1>. DEFINE g == remove_live(b, f)
              h == CASE b.decision = "Resume" -> g
                     [] b.decision = "Restart" -> do_restart_reentrant(g, refill)
                     [] b.decision \in {"Stop", "Escalate"} -> do_stop(g)
              d == finish_restart_if_drained(h)
  <1>0. b.decision \in {"Resume", "Restart", "Stop", "Escalate"}
    BY DEF Placed, ReCore, release_seal
  <1>1. /\ Placed(g, None, t) /\ Waits(g, t) /\ Ending(g)
        /\ g.live = c.live \ {f} /\ g.waiter = c.waiter
        /\ g.suspended = c.suspended /\ g.ready = c.ready
    BY RemoveKeeps
  <1>5. d = on_fault_reentrant(b, f, refill)
    BY DEF on_fault_reentrant
  <1>. HIDE DEF g
  <1>6. /\ b.decision = "Resume" => h = g
        /\ b.decision = "Restart" => h = do_restart_reentrant(g, refill)
        /\ b.decision \in {"Stop", "Escalate"} => h = do_stop(g)
    OBVIOUS
  <1>. HIDE DEF h
  <1>2. /\ Placed(h, None, t) /\ Waits(h, t) /\ Ending(h)
        /\ h.live = g.live /\ h.waiter = g.waiter
        /\ Range(h.suspended) \cup Range(h.ready) = Range(g.suspended) \cup Range(g.ready)
    <2>1. CASE b.decision = "Resume"
      BY <1>1, <1>6, <2>1
    <2>2. CASE b.decision = "Restart"
      <3>1. h = do_restart_reentrant(g, refill)
        BY <1>6, <2>2
      <3>. QED
        BY SMTT(30), <1>1, <3>1, RestartKeeps
    <2>3. CASE b.decision \in {"Stop", "Escalate"}
      <3>1. h = do_stop(g)
        BY <1>6, <2>3
      <3>. QED
        BY <1>1, <3>1, StopKeeps DEF Ending
    <2>. QED
      BY <1>0, <2>1, <2>2, <2>3
  <1>4. /\ Placed(d, None, t) /\ Waits(d, t) /\ Closed(d) /\ d.live = h.live
        /\ d.waiter = h.waiter /\ d.suspended = h.suspended /\ d.ready = h.ready
    BY <1>2, FinishKeeps
  <1>. HIDE DEF d
  <1>. QED
    BY <1>1, <1>2, <1>4, <1>5

-----------------------------------------------------------------------------
(* The states. *)

Types ==
    /\ exec \in {"Idle", "Scheduled", "Running", "Parked"} /\ queue \in Seq(Msgs) /\ runq \in Nat
    /\ pc \in [Threads -> PCs] /\ item \in [Threads -> Msgs \cup {None}] /\ remaining \in 0..Budget
    /\ mst \in [Msgs -> Fates] /\ guard \in Msgs \cup {None} /\ awaits \in 0..MaxAwaits

Owned == {"acts", "ready", "admitted", "resumed", "gate", "pending", "decide", "park", "yield", "relinquish"}

\* A lane in its drain is the one that holds the exec word, and it has a frame
\* while a handler runs.
LaneOwns == /\ pc[Lane] \in Owned => exec = "Running"
            /\ pc[Lane] \in {"admitted", "resumed"} <=> item[Lane] # None

Frames == Placed(rc, item[Lane], mst) /\ Waits(rc, mst) /\ Sealed(rc, item[Lane])

\* Only messages nobody has handled are in the mailbox, each once.
Mailed == Distinct(queue) /\ \A m \in Range(queue) : mst[m] \in {"queued", "cancelled"}

\* The handler with the guard is alone in flight, behind a shut gate.
Guarded == guard # None => rc.live = {guard} /\ Shut(rc)

\* The lane is none of the other threads.
LEMMA LaneApart == /\ Lane \in Threads /\ Producers \subseteq Threads /\ Carriers \subseteq Threads
                   /\ Monitors \subseteq Threads /\ Lane \notin Producers /\ Lane \notin Carriers
                   /\ Lane \notin Monitors
  BY OutsideDisjoint DEF Threads, Outside

\* The mailbox without its head.
LEMMA MailStays == ASSUME queue \in Seq(Msgs), queue # <<>>, Mailed
                   PROVE /\ Tail(queue) \in Seq(Msgs) /\ Head(queue) \in Msgs
                         /\ mst[Head(queue)] \in {"queued", "cancelled"}
                         /\ Distinct(Tail(queue)) /\ Head(queue) \notin Range(Tail(queue))
                         /\ Range(Tail(queue)) \subseteq Range(queue) /\ Range(queue) \subseteq Msgs
  <1>1. Range(queue) \subseteq Msgs
    BY DEF Range
  <1>. QED
    BY <1>1, TailKeeps DEF Mailed

\* Every step keeps the types.
LEMMA TypesStep ==
  ASSUME Types, Frames, Mailed, [Next]_vars
  PROVE  Types'
  <1>. USE DEF Types, PCs, Fates
  <1>1. ASSUME NEW p \in Producers, NEW m \in Msgs, PostExchange(p, m) PROVE Types'
    BY <1>1, LaneApart, AppendKeeps DEF PostExchange, Goto, bounds
  <1>2. ASSUME NEW p \in Producers, PostLink(p) PROVE Types'
    BY <1>2, LaneApart DEF PostLink, Goto, bounds, handlers
  <1>3. ASSUME NEW p \in Producers, WakeLoad(p) PROVE Types'
    BY <1>3, LaneApart DEF WakeLoad, Goto, bounds, handlers
  <1>4. ASSUME NEW p \in Producers, WakeCas(p) PROVE Types'
    BY <1>4, LaneApart DEF WakeCas, Cas, Goto, bounds, handlers
  <1>5. ASSUME NEW t \in Threads, Schedule(t) PROVE Types'
    BY <1>5, LaneApart DEF Schedule, Goto, bounds, handlers
  <1>6. ASSUME NEW m \in Msgs, Cancel(m) PROVE Types'
    BY <1>6, LaneApart DEF Cancel, bounds, handlers
  <1>7. ASSUME NEW t \in Carriers, CompleteOne(t) PROVE Types'
    BY <1>7, LaneApart DEF CompleteOne, Goto, bounds, handlers
  <1>8. ASSUME NEW t \in Carriers \cup Monitors, Readmit(t) PROVE Types'
    BY <1>8, LaneApart DEF Readmit, Cas, Goto, bounds, handlers
  <1>9. ASSUME NEW t \in Monitors, PollWatchdog(t) PROVE Types'
    BY <1>9, LaneApart DEF PollWatchdog, Goto, bounds, handlers
  <1>10. ASSUME NEW t \in Monitors, RaiseEscalate(t) PROVE Types'
    BY <1>10, LaneApart DEF RaiseEscalate, Goto, bounds, handlers
  <1>11. ASSUME NEW t \in Monitors, RequestStop(t) PROVE Types'
    BY <1>11, LaneApart DEF RequestStop, Goto, bounds, handlers
  <1>12. ASSUME NEW t \in Monitors, ReadmitOnly(t) PROVE Types'
    BY <1>12, LaneApart DEF ReadmitOnly, Cas, Goto, bounds, handlers
  <1>13. ASSUME pause_admission PROVE Types'
    BY <1>13, LaneApart DEF pause_admission, bounds, handlers
  <1>14. ASSUME resume_admission PROVE Types'
    BY <1>14, LaneApart DEF resume_admission, bounds, handlers
  <1>15. ASSUME TryAcquire PROVE Types'
    BY <1>15, LaneApart, LimitsAssumption DEF TryAcquire, Goto, Cas, bounds, handlers
  <1>16. ASSUME LaneActions PROVE Types'
    BY <1>16, LaneApart DEF LaneActions, Goto, bounds, handlers
  <1>17. ASSUME ResumeReady PROVE Types'
    <2>1. rc.ready \in Seq(Msgs) /\ rc.ready # <<>>
      BY <1>17 DEF ResumeReady, Frames, Placed, ReCore
    <2>2. Head(rc.ready) \in Msgs
      BY <2>1, TailKeeps
    <2>. QED
      BY <1>17, <2>2, LaneApart DEF ResumeReady, Goto, bounds
  <1>18. ASSUME ReadyDrained PROVE Types'
    BY <1>18, LaneApart DEF ReadyDrained, Goto, bounds, handlers
  <1>19. ASSUME GiveUpTurn PROVE Types'
    BY <1>19, LaneApart DEF GiveUpTurn, Goto, bounds, handlers
  <1>20. ASSUME AdmitNothing PROVE Types'
    <2>1. Tail(queue) \in Seq(Msgs) /\ Head(queue) \in Msgs
      BY <1>20, MailStays DEF AdmitNothing, CanTake
    <2>2. remaining - 1 \in 0..Budget
      BY <1>20, LimitsAssumption DEF AdmitNothing
    <2>. QED
      BY <1>20, <2>1, <2>2, LaneApart DEF AdmitNothing, Goto, bounds
  <1>21. ASSUME Admit PROVE Types'
    <2>1. Tail(queue) \in Seq(Msgs) /\ Head(queue) \in Msgs
      BY <1>21, MailStays DEF Admit, CanTake
    <2>2. remaining - 1 \in 0..Budget
      BY <1>21, LimitsAssumption DEF Admit
    <2>. QED
      BY <1>21, <2>1, <2>2, LaneApart DEF Admit, Goto, bounds
  <1>22. ASSUME NoAdmission PROVE Types'
    BY <1>22, LaneApart DEF NoAdmission, Goto, bounds, handlers
  <1>23. ASSUME PendingReady PROVE Types'
    BY <1>23, LaneApart DEF PendingReady, Goto, bounds, handlers
  <1>24. ASSUME Decide PROVE Types'
    BY <1>24, LaneApart DEF Decide, Goto, bounds, handlers
  <1>25. ASSUME ParkSc PROVE Types'
    BY <1>25, LaneApart DEF ParkSc, Goto, bounds, handlers
  <1>26. ASSUME ProbeAdmittable PROVE Types'
    BY <1>26, LaneApart DEF ProbeAdmittable, Goto, bounds, handlers
  <1>27. ASSUME ProbeReady PROVE Types'
    BY <1>27, LaneApart DEF ProbeReady, Goto, bounds, handlers
  <1>28. ASSUME ReacquireParked PROVE Types'
    BY <1>28, LaneApart DEF ReacquireParked, Cas, Goto, bounds, handlers
  <1>29. ASSUME YieldToScheduled PROVE Types'
    BY <1>29, LaneApart DEF YieldToScheduled, Goto, bounds, handlers
  <1>30. ASSUME ReleaseToIdle PROVE Types'
    BY <1>30, LaneApart DEF ReleaseToIdle, Goto, bounds, handlers
  <1>31. ASSUME ProbeIdle PROVE Types'
    BY <1>31, LaneApart DEF ProbeIdle, Goto, bounds, handlers
  <1>32. ASSUME ReacquireIdle PROVE Types'
    BY <1>32, LaneApart, LimitsAssumption DEF ReacquireIdle, Goto, Cas, bounds, handlers
  <1>33. ASSUME HandlerReturn PROVE Types'
    BY <1>33, LaneApart DEF HandlerReturn, HandlerLeaves, bounds
  <1>34. ASSUME HandlerFault PROVE Types'
    BY <1>34, LaneApart DEF HandlerFault, HandlerLeaves, bounds
  <1>35. ASSUME HandlerSuspend PROVE Types'
    BY <1>35, LaneApart, LimitsAssumption DEF HandlerSuspend, HandlerLeaves, Awaits, bounds
  <1>36. ASSUME NEW mode \in {"Drain", "Cancel"}, NEW deadline \in BOOLEAN,
               HandlerQuiesce(mode, deadline)
        PROVE Types'
    <2>1. /\ guard' \in Msgs \cup {None} /\ mst' \in [Msgs -> Fates]
          /\ item' \in [Threads -> Msgs \cup {None}] /\ pc' \in [Threads -> PCs]
      <3>1. item[Lane] \in Msgs
        BY <1>36, LaneApart, MsgsAssumption DEF HandlerQuiesce
      <3>. QED
        BY ZenonT(40), <1>36, <3>1, LaneApart DEF HandlerQuiesce, HandlerLeaves
    <2>2. awaits' \in 0..MaxAwaits
      BY <1>36, LimitsAssumption DEF HandlerQuiesce, Awaits
    <2>. QED
      BY <1>36, <2>1, <2>2 DEF HandlerQuiesce, bounds
  <1>37. CASE UNCHANGED vars
    BY <1>37 DEF vars
  <1>38. ASSUME ReleaseGuard PROVE Types'
    BY <1>38, LaneApart DEF ReleaseGuard, bounds
  <1>. QED
    BY <1>1, <1>2, <1>3, <1>4, <1>5, <1>6, <1>7, <1>8, <1>9, <1>10, <1>11, <1>12, <1>13, <1>14,
       <1>15, <1>16, <1>17, <1>18, <1>19, <1>20, <1>21, <1>22, <1>23, <1>24, <1>25, <1>26, <1>27,
       <1>28, <1>29, <1>30, <1>31, <1>32, <1>33, <1>34, <1>35, <1>36, <1>37, <1>38
      DEF Next, LaneRuns, Controlled, PostStep, CarrierStep, MonitorStep,
       LaneStep, HandlerStep, Threads, Outside

-----------------------------------------------------------------------------
(* What the other steps do to the frames. *)

\* The record d is c with other frames in flight, suspended and ready.
Moved(d, c, live, suspended, ready) ==
    /\ d \in ReCore /\ d.live = live /\ d.suspended = suspended /\ d.ready = ready
    /\ d.told = c.told /\ d.waiter = c.waiter /\ d.seal = c.seal /\ d.restarting = c.restarting

\* A message that is not in flight, before or after, is no concern of the lane.
LEMMA FateKeeps ==
  ASSUME NEW f, NEW s, NEW c, NEW t, Placed(c, f, s), Waits(c, s),
         \A m \in Msgs : t[m] = s[m] \/ (s[m] \notin {"live", "waiting"} /\ t[m] \notin {"live", "waiting"})
  PROVE  Placed(c, f, t) /\ Waits(c, t)
  <1>1. c.live \subseteq Msgs /\ \A m \in c.live : t[m] = s[m] /\ m \in Msgs
    BY DEF Placed, ReCore
  <1>2. c.live = {m \in Msgs : t[m] \in {"live", "waiting"}}
    BY DEF Placed
  <1>3. Placed(c, f, t)
    BY <1>1, <1>2 DEF Placed
  <1>4. Waits(c, t)
    <2>1. \A m \in Msgs : t[m] = "waiting" => m \in Quiescers
      BY DEF Waits
    <2>2. c.waiter # None => c.waiter \in c.live
      BY DEF Waits, Placed, ReCore
    <2>. QED
      BY <1>1, <2>1, <2>2 DEF Waits, Placed
  <1>. QED
    BY <1>3, <1>4

\* admit: the gate is open, so nobody waits.
LEMMA AdmitKeeps ==
  ASSUME NEW f \in Msgs, NEW s, NEW c, NEW d, NEW t, Placed(c, None, s),
         Waits(c, s), Sealed(c, None), c.seal = "Open",
         s[f] = "queued", t[f] = "live", \A m \in Msgs \ {f} : t[m] = s[m],
         Moved(d, c, c.live \cup {f}, c.suspended, c.ready)
  PROVE  Placed(d, f, t) /\ Waits(d, t) /\ Sealed(d, f)
  <1>0. c \in ReCore /\ c.live \in SUBSET Msgs /\ f \notin c.live /\ IsFiniteSet(c.live)
    BY DEF Placed, ReCore
  <1>1. /\ d \in ReCore /\ d.live = c.live \cup {f} /\ d.told = c.told /\ d.suspended = c.suspended
        /\ d.ready = c.ready /\ d.waiter = c.waiter /\ d.seal = "Open" /\ d.restarting = c.restarting
    BY <1>0 DEF Moved
  <1>2. IsFiniteSet(d.live)
    BY <1>0, <1>1, FS_AddElement
  <1>3. d.live = {m \in Msgs : t[m] \in {"live", "waiting"}}
    BY <1>0, <1>1 DEF Placed
  <1>. HIDE DEF Shut
  <1>4. \A m \in Range(c.suspended) \cup Range(c.ready) : m \in Msgs /\ m # f /\ t[m] = s[m]
    BY <1>0 DEF Placed
  <1>5. Placed(d, f, t)
    BY <1>0, <1>1, <1>2, <1>3, <1>4 DEF Placed
  <1>6. c.waiter = None /\ \A m \in Range(c.ready) : s[m] # "waiting"
    BY DEF Waits, Shut
  <1>7. Waits(d, t)
    BY <1>1, <1>4, <1>6 DEF Waits
  <1>. QED
    BY <1>0, <1>1, <1>5, <1>7, MsgsAssumption DEF Sealed, Shut

\* complete_one: the oldest suspended frame becomes ready.
LEMMA CompleteKeeps ==
  ASSUME NEW f, NEW s, NEW c, NEW d, Placed(c, f, s), Waits(c, s), Sealed(c, f), c.suspended # <<>>,
         Moved(d, c, c.live, Tail(c.suspended), Append(c.ready, Head(c.suspended)))
  PROVE  /\ Placed(d, f, s) /\ Waits(d, s) /\ Sealed(d, f)
         /\ d.live = c.live /\ d.waiter = c.waiter /\ d.seal = c.seal
         /\ Range(c.suspended) \cup Range(c.ready) \subseteq Range(d.suspended) \cup Range(d.ready)
  <1>. DEFINE h == Head(c.suspended)
              u == Tail(c.suspended)
              r == Append(c.ready, h)
  <1>0. c \in ReCore /\ c.suspended \in Seq(Msgs) /\ c.ready \in Seq(Msgs)
    BY DEF Placed, ReCore
  <1>1. /\ u \in Seq(Msgs) /\ h \in Msgs /\ h \in Range(c.suspended) /\ Range(u) \subseteq Range(c.suspended)
        /\ Range(c.suspended) \subseteq Range(u) \cup {h} /\ Distinct(u) /\ h \notin Range(u)
    BY <1>0, TailKeeps DEF Placed
  <1>2. h \notin Range(c.ready)
    BY <1>1 DEF Placed
  <1>. HIDE DEF h
  <1>3. r \in Seq(Msgs) /\ Range(r) = Range(c.ready) \cup {h} /\ Distinct(r)
    BY <1>0, <1>1, <1>2, AppendKeeps DEF Placed
  <1>4. /\ d \in ReCore /\ d.live = c.live /\ d.told = c.told /\ d.suspended = u
        /\ d.ready = r /\ d.waiter = c.waiter /\ d.seal = c.seal /\ d.restarting = c.restarting
    BY <1>0, <1>1, <1>3 DEF Moved, h
  <1>. HIDE DEF u, r
  <1>5. s[h] = "live"
    BY <1>1 DEF Placed
  <1>6. Placed(d, f, s)
    <2>1. Range(d.suspended) \cap Range(d.ready) = {} /\ Range(d.suspended) \subseteq d.live
          /\ Range(d.ready) \subseteq d.live
      BY <1>1, <1>3, <1>4 DEF Placed
    <2>2. f # None => f \in d.live /\ s[f] = "live" /\ f \notin Range(d.suspended) /\ f \notin Range(d.ready)
      BY <1>1, <1>3, <1>4 DEF Placed
    <2>3. \A m \in Range(d.suspended) : s[m] = "live"
      BY <1>1, <1>4 DEF Placed
    <2>. QED
      BY <1>1, <1>3, <1>4, <2>1, <2>2, <2>3 DEF Placed
  <1>7. Waits(d, s)
    BY <1>3, <1>4, <1>5 DEF Waits, Shut
  <1>. QED
    BY <1>1, <1>3, <1>4, <1>6, <1>7 DEF Sealed, Shut

\* drain_ready: a frame leaves the ready list for the lane.
LEMMA ResumeKeeps ==
  ASSUME NEW f \in Msgs, NEW s, NEW c, NEW d, NEW t, NEW r, Placed(c, None, s), Waits(c, s), Sealed(c, None),
         f \in Range(c.ready), Range(r) = Range(c.ready) \ {f}, Distinct(r),
         t[f] = "live", \A m \in Msgs \ {f} : t[m] = s[m], Moved(d, c, c.live, c.suspended, r)
  PROVE  /\ Placed(d, f, t) /\ Waits(d, t) /\ Sealed(d, f)
         /\ (s[f] = "waiting" => d.live = {f} /\ Shut(d))
  <1>0. c \in ReCore /\ c.live \in SUBSET Msgs
    BY DEF Placed, ReCore
  <1>1. f \in Range(c.ready) /\ Range(r) \subseteq Range(c.ready) /\ Distinct(r) /\ f \notin Range(r)
    OBVIOUS
  <1>2. /\ d \in ReCore /\ d.live = c.live /\ d.told = c.told /\ d.suspended = c.suspended
        /\ d.ready = r /\ d.waiter = c.waiter /\ d.seal = c.seal /\ d.restarting = c.restarting
    BY DEF Moved
  <1>3. \A m \in Range(c.suspended) \cup Range(r) : m \in Msgs /\ m # f /\ t[m] = s[m]
    BY <1>0, <1>1 DEF Placed
  <1>4. d.live = {m \in Msgs : t[m] \in {"live", "waiting"}}
    BY <1>1, <1>2 DEF Placed
  <1>5. Placed(d, f, t)
    BY <1>1, <1>2, <1>3, <1>4 DEF Placed
  <1>6. c.waiter # None => c.waiter \in Msgs /\ c.waiter # f
    BY <1>0, <1>1 DEF Waits, ReCore
  <1>7. Waits(d, t)
    BY <1>1, <1>2, <1>3, <1>6 DEF Waits, Shut
  <1>8. s[f] = "waiting" => d.live = {f} /\ Shut(d)
    BY <1>1, <1>2 DEF Waits, Shut
  <1>. QED
    BY <1>0, <1>1, <1>2, <1>5, <1>7, <1>8, MsgsAssumption DEF Sealed, Shut

\* on_async_suspend: the frame on the lane becomes the youngest suspended one.
LEMMA SuspendKeeps ==
  ASSUME NEW f \in Msgs, NEW s, NEW c, NEW d, Placed(c, f, s), Waits(c, s), Sealed(c, f),
         f \in c.told => f \in Stubborn, NEW r,
         Range(r) = Range(c.suspended) \cup {f}, Distinct(r), Moved(d, c, c.live, r, c.ready)
  PROVE  Placed(d, None, s) /\ Waits(d, s) /\ Sealed(d, None)
  <1>0. /\ c \in ReCore /\ c.suspended \in Seq(Msgs) /\ f \notin Range(c.suspended) /\ f \notin Range(c.ready)
        /\ s[f] = "live" /\ f \in c.live
    BY MsgsAssumption DEF Placed, ReCore
  <1>1. Range(r) = Range(c.suspended) \cup {f} /\ Distinct(r)
    OBVIOUS
  <1>2. /\ d \in ReCore /\ d.live = c.live /\ d.told = c.told /\ d.suspended = r
        /\ d.ready = c.ready /\ d.waiter = c.waiter /\ d.seal = c.seal /\ d.restarting = c.restarting
    BY <1>0, <1>1 DEF Moved
  <1>3. Placed(d, None, s)
    BY <1>0, <1>1, <1>2 DEF Placed
  <1>4. Waits(d, s)
    BY <1>2 DEF Waits, Shut
  <1>. QED
    BY <1>0, <1>1, <1>2, <1>3, <1>4 DEF Sealed, Shut

\* begin_quiesce shuts the gate and keeps everybody in place.
LEMMA QuiesceKeeps ==
  ASSUME NEW f, NEW s, NEW c, Placed(c, f, s), Waits(c, s), Sealed(c, f),
         NEW mode \in {"Drain", "Cancel"}, NEW a \in BOOLEAN
  PROVE  LET d == begin_quiesce([c EXCEPT !.armed = a], mode)
         IN /\ Placed(d, f, s) /\ Waits(d, s) /\ Sealed(d, f) /\ Shut(d)
            /\ d.live = c.live /\ d.waiter = c.waiter
            /\ Range(d.suspended) \cup Range(d.ready) = Range(c.suspended) \cup Range(c.ready)
  <1>. DEFINE b == [c EXCEPT !.armed = a]
              e == [b EXCEPT !.seal = IF mode = "Cancel" THEN "Cancelling" ELSE "Draining"]
  <1>0. c \in ReCore
    BY DEF Placed
  <1>1. b \in ReCore /\ Alike(b, c) /\ b.restarting = c.restarting
    BY <1>0 DEF ReCore, Alike
  <1>2. e \in ReCore /\ Alike(e, c) /\ e.restarting = c.restarting /\ e.seal \in {"Cancelling", "Draining"}
    BY <1>1 DEF ReCore, Alike, Seals
  <1>3. Shut(e)
    BY <1>2 DEF Shut
  <1>4. Placed(e, f, s) /\ Waits(e, s) /\ Sealed(e, f)
    <2>1. Placed(e, f, s) /\ Waits(e, s)
      BY <1>2, <1>3, AlikeKeeps
    <2>. QED
      BY <1>2, <1>3, <2>1 DEF Sealed, Alike
  <1>5. begin_quiesce(b, mode) = IF mode = "Cancel" THEN fire_cancel_all(e) ELSE e
    BY DEF begin_quiesce
  <1>. HIDE DEF e
  <1>6. CASE mode = "Cancel"
    <2>1. begin_quiesce(b, mode) = fire_cancel_all(e)
      BY <1>5, <1>6
    <2>. DEFINE d == fire_cancel_all(e)
    <2>2. /\ Placed(d, f, s) /\ Waits(d, s) /\ d.live = e.live /\ d.seal = e.seal
          /\ d.restarting = e.restarting /\ d.waiter = e.waiter
          /\ Range(d.ready) = Range(e.suspended) \cup Range(e.ready) /\ d.suspended = <<>>
      BY ZenonT(40), <1>4, FireKeeps
    <2>5. d.told = e.told \cup e.live
      BY <1>4, FireTells DEF Placed
    <2>3. d = begin_quiesce([c EXCEPT !.armed = a], mode)
      BY <2>1
    <2>. HIDE DEF d
    <2>4. /\ Sealed(d, f) /\ Shut(d) /\ d.live = c.live /\ d.waiter = c.waiter
          /\ Range(d.suspended) \cup Range(d.ready) = Range(c.suspended) \cup Range(c.ready)
      BY <1>2, <1>3, <1>4, <2>2, <2>5, EmptyKeeps DEF Sealed, Shut, Alike
    <2>. QED
      BY <2>2, <2>3, <2>4
  <1>7. CASE mode # "Cancel"
    <2>1. begin_quiesce(b, mode) = e
      BY <1>5, <1>7
    <2>2. begin_quiesce([c EXCEPT !.armed = a], mode) = e
      BY <2>1
    <2>. HIDE DEF b
    <2>. QED
      BY <1>2, <1>3, <1>4, <2>2 DEF Alike
  <1>. QED
    BY <1>6, <1>7

\* The handler that waits for its siblings.
LEMMA WaitKeeps ==
  ASSUME NEW f \in Quiescers, NEW s \in [Msgs -> Fates], NEW c, NEW d, NEW t,
         Placed(c, f, s), Waits(c, s), Sealed(c, f), Shut(c),
         t[f] = "waiting", \A m \in Msgs \ {f} : t[m] = s[m],
         d \in ReCore, d.live = c.live, d.told = c.told, d.suspended = c.suspended,
         d.ready = c.ready, d.waiter = f, d.seal = c.seal, d.restarting = c.restarting
  PROVE  Placed(d, None, t) /\ Waits(d, t) /\ Sealed(d, None)
  <1>0. /\ c \in ReCore /\ f \in Msgs /\ f \notin Range(c.suspended) /\ f \notin Range(c.ready)
        /\ s[f] = "live" /\ f \in c.live /\ c.live \subseteq Msgs
    BY MsgsAssumption DEF Placed, ReCore
  <1>1. /\ d \in ReCore /\ d.live = c.live /\ d.told = c.told /\ d.suspended = c.suspended
        /\ d.ready = c.ready /\ d.waiter = f /\ d.seal = c.seal /\ d.restarting = c.restarting
    OBVIOUS
  <1>2. \A m \in Range(c.suspended) \cup Range(c.ready) : m \in Msgs /\ m # f /\ t[m] = s[m]
    BY <1>0 DEF Placed
  <1>3. d.live = {m \in Msgs : t[m] \in {"live", "waiting"}}
    BY <1>0, <1>1 DEF Placed
  <1>4. Placed(d, None, t)
    BY <1>0, <1>1, <1>2, <1>3 DEF Placed
  <1>5. \A m \in Range(c.ready) : t[m] # "waiting"
    BY <1>0, <1>2 DEF Waits
  <1>6. Waits(d, t)
    BY <1>0, <1>1, <1>5 DEF Waits, Shut
  <1>. QED
    BY <1>0, <1>1, <1>4, <1>6 DEF Sealed, Shut

\* release_seal by the frame with the guard: it is alone, so nobody waits.
LEMMA ReleaseKeeps ==
  ASSUME NEW f \in Msgs, NEW s, NEW c, Placed(c, f, s), Waits(c, s), Sealed(c, f), c.live = {f}
  PROVE  LET d == release_seal(c)
         IN /\ Placed(d, f, s) /\ Waits(d, s) /\ Sealed(d, f)
            /\ d.live = c.live /\ d.waiter = c.waiter /\ d.suspended = c.suspended /\ d.ready = c.ready
  <1>. DEFINE d == release_seal(c)
  <1>0. c \in ReCore
    BY DEF Placed
  <1>1. Alike(d, c) /\ d.restarting = c.restarting
    BY <1>0 DEF release_seal, Alike, ReCore, Seals
  <1>2. s[f] = "live"
    BY MsgsAssumption DEF Placed
  <1>3. c.waiter = None /\ \A m \in Range(c.ready) : s[m] # "waiting"
    BY <1>0, <1>2 DEF Waits, Placed, ReCore
  <1>. HIDE DEF d
  <1>4. Placed(d, f, s) /\ Waits(d, s)
    BY <1>1, <1>3, AlikeKeeps
  <1>. QED
    BY <1>1, <1>4 DEF Alike, Sealed, d

-----------------------------------------------------------------------------
(* The inductive invariant. *)

\* At most one message has a handler that asks for quiescence: a second waiter
\* would overwrite the first (`waiter_frame_`), whose frame is in no queue then.
OneQuiescer == \A f, g \in Quiescers : f = g

\* No frame in flight is forgotten.
Covered == rc.live \subseteq Range(rc.suspended) \cup Range(rc.ready) \cup {rc.waiter, item[Lane]}

LInv == Types /\ LaneOwns /\ Frames /\ Guarded /\ Mailed /\ (OneQuiescer => Covered)

\* The steps that touch the frames, the guard or the mailbox.
Touch == \/ \E p \in Producers, m \in Msgs : PostExchange(p, m)
         \/ \E m \in Msgs : Cancel(m)
         \/ \E t \in Carriers : CompleteOne(t)
         \/ \E t \in Monitors : RaiseEscalate(t) \/ RequestStop(t)
         \/ pause_admission \/ resume_admission
         \/ LaneActions \/ ResumeReady \/ AdmitNothing \/ Admit \/ HandlerStep

Untouched == rc' = rc /\ mst' = mst /\ guard' = guard /\ queue' = queue /\ item'[Lane] = item[Lane]

\* The other steps leave the frames alone.
LEMMA TouchOrNot ==
  ASSUME Types, [Next]_vars
  PROVE  Touch \/ Untouched
  <1>1. ASSUME NEW p \in Producers, NEW m \in Msgs, PostExchange(p, m) PROVE Touch \/ Untouched
    BY <1>1 DEF Touch
  <1>2. ASSUME NEW p \in Producers, PostLink(p) PROVE Touch \/ Untouched
    BY <1>2, LaneApart DEF PostLink, Goto, handlers, Untouched, Types
  <1>3. ASSUME NEW p \in Producers, WakeLoad(p) PROVE Touch \/ Untouched
    BY <1>3, LaneApart DEF WakeLoad, Goto, handlers, Untouched, Types
  <1>4. ASSUME NEW p \in Producers, WakeCas(p) PROVE Touch \/ Untouched
    BY <1>4, LaneApart DEF WakeCas, Cas, Goto, handlers, Untouched, Types
  <1>5. ASSUME NEW t \in Threads, Schedule(t) PROVE Touch \/ Untouched
    BY <1>5, LaneApart DEF Schedule, Goto, handlers, Untouched, Types
  <1>6. ASSUME NEW m \in Msgs, Cancel(m) PROVE Touch \/ Untouched
    BY <1>6 DEF Touch
  <1>7. ASSUME NEW t \in Carriers, CompleteOne(t) PROVE Touch \/ Untouched
    BY <1>7 DEF Touch
  <1>8. ASSUME NEW t \in Carriers \cup Monitors, Readmit(t) PROVE Touch \/ Untouched
    BY <1>8, LaneApart DEF Readmit, Cas, Goto, handlers, Untouched, Types
  <1>9. ASSUME NEW t \in Monitors, PollWatchdog(t) PROVE Touch \/ Untouched
    BY <1>9, LaneApart DEF PollWatchdog, Goto, handlers, Untouched, Types
  <1>10. ASSUME NEW t \in Monitors, RaiseEscalate(t) PROVE Touch \/ Untouched
    BY <1>10 DEF Touch
  <1>11. ASSUME NEW t \in Monitors, RequestStop(t) PROVE Touch \/ Untouched
    BY <1>11 DEF Touch
  <1>12. ASSUME NEW t \in Monitors, ReadmitOnly(t) PROVE Touch \/ Untouched
    BY <1>12, LaneApart DEF ReadmitOnly, Cas, Goto, handlers, Untouched, Types
  <1>13. ASSUME pause_admission PROVE Touch \/ Untouched
    BY <1>13 DEF Touch
  <1>14. ASSUME resume_admission PROVE Touch \/ Untouched
    BY <1>14 DEF Touch
  <1>15. ASSUME TryAcquire PROVE Touch \/ Untouched
    BY <1>15, LaneApart DEF TryAcquire, Goto, handlers, Untouched, Types
  <1>16. ASSUME LaneActions PROVE Touch \/ Untouched
    BY <1>16 DEF Touch
  <1>17. ASSUME ResumeReady PROVE Touch \/ Untouched
    BY <1>17 DEF Touch
  <1>18. ASSUME ReadyDrained PROVE Touch \/ Untouched
    BY <1>18, LaneApart DEF ReadyDrained, Goto, handlers, Untouched, Types
  <1>19. ASSUME GiveUpTurn PROVE Touch \/ Untouched
    BY <1>19, LaneApart DEF GiveUpTurn, Goto, handlers, Untouched, Types
  <1>20. ASSUME AdmitNothing PROVE Touch \/ Untouched
    BY <1>20 DEF Touch
  <1>21. ASSUME Admit PROVE Touch \/ Untouched
    BY <1>21 DEF Touch
  <1>22. ASSUME NoAdmission PROVE Touch \/ Untouched
    BY <1>22, LaneApart DEF NoAdmission, Goto, handlers, Untouched, Types
  <1>23. ASSUME PendingReady PROVE Touch \/ Untouched
    BY <1>23, LaneApart DEF PendingReady, Goto, handlers, Untouched, Types
  <1>24. ASSUME Decide PROVE Touch \/ Untouched
    BY <1>24, LaneApart DEF Decide, Goto, handlers, Untouched, Types
  <1>25. ASSUME ParkSc PROVE Touch \/ Untouched
    BY <1>25, LaneApart DEF ParkSc, Goto, handlers, Untouched, Types
  <1>26. ASSUME ProbeAdmittable PROVE Touch \/ Untouched
    BY <1>26, LaneApart DEF ProbeAdmittable, Goto, handlers, Untouched, Types
  <1>27. ASSUME ProbeReady PROVE Touch \/ Untouched
    BY <1>27, LaneApart DEF ProbeReady, Goto, handlers, Untouched, Types
  <1>28. ASSUME ReacquireParked PROVE Touch \/ Untouched
    BY <1>28, LaneApart DEF ReacquireParked, Cas, Goto, handlers, Untouched, Types
  <1>29. ASSUME YieldToScheduled PROVE Touch \/ Untouched
    BY <1>29, LaneApart DEF YieldToScheduled, Goto, handlers, Untouched, Types
  <1>30. ASSUME ReleaseToIdle PROVE Touch \/ Untouched
    BY <1>30, LaneApart DEF ReleaseToIdle, Goto, handlers, Untouched, Types
  <1>31. ASSUME ProbeIdle PROVE Touch \/ Untouched
    BY <1>31, LaneApart DEF ProbeIdle, Goto, handlers, Untouched, Types
  <1>32. ASSUME ReacquireIdle PROVE Touch \/ Untouched
    BY <1>32, LaneApart DEF ReacquireIdle, Cas, Goto, handlers, Untouched, Types
  <1>33. ASSUME HandlerReturn PROVE Touch \/ Untouched
    BY <1>33 DEF Touch, HandlerStep
  <1>34. ASSUME HandlerFault PROVE Touch \/ Untouched
    BY <1>34 DEF Touch, HandlerStep
  <1>35. ASSUME HandlerSuspend PROVE Touch \/ Untouched
    BY <1>35 DEF Touch, HandlerStep
  <1>36. ASSUME NEW mode \in {"Drain", "Cancel"}, NEW deadline \in BOOLEAN,
               HandlerQuiesce(mode, deadline)
        PROVE Touch \/ Untouched
    BY <1>36 DEF Touch, HandlerStep
  <1>37. CASE UNCHANGED vars
    BY <1>37 DEF vars, Untouched
  <1>38. ASSUME ReleaseGuard PROVE Touch \/ Untouched
    BY <1>38 DEF Touch, HandlerStep
  <1>. QED
    BY <1>1, <1>2, <1>3, <1>4, <1>5, <1>6, <1>7, <1>8, <1>9, <1>10, <1>11, <1>12, <1>13, <1>14,
       <1>15, <1>16, <1>17, <1>18, <1>19, <1>20, <1>21, <1>22, <1>23, <1>24, <1>25, <1>26, <1>27,
       <1>28, <1>29, <1>30, <1>31, <1>32, <1>33, <1>34, <1>35, <1>36, <1>37, <1>38
      DEF Next, LaneRuns, Controlled, PostStep, CarrierStep, MonitorStep,
       LaneStep, HandlerStep, Threads, Outside

\* Alone in a set with at most one element.
LEMMA AloneInside ==
  ASSUME NEW S, IsFiniteSet(S), Cardinality(S) <= 1, NEW f \in S
  PROVE  S = {f}
  <1>. DEFINE R == S \ {f}
  <1>1. /\ IsFiniteSet(R) /\ Cardinality(R) = Cardinality(S) - 1 /\ Cardinality(R) \in Nat
        /\ Cardinality(S) \in Nat
    BY FS_RemoveElement, FS_CardinalityType
  <1>2. Cardinality(R) = 0
    BY <1>1
  <1>3. R = {}
    BY <1>1, <1>2, FS_EmptySet
  <1>. QED
    BY <1>3

\* Every step keeps the frames in place, the guard alone and the mailbox fresh.
LEMMA FramesStep ==
  ASSUME LInv, [Next]_vars
  PROVE  (Frames /\ Guarded /\ Mailed /\ (OneQuiescer => Covered))'
  <1>. DEFINE Goal == (Frames /\ Guarded /\ Mailed /\ (OneQuiescer => Covered))'
              f == item[Lane]
  <1>0. /\ Frames /\ Guarded /\ Mailed /\ Types /\ LaneOwns /\ (OneQuiescer => Covered)
        /\ mst \in [Msgs -> Fates] /\ queue \in Seq(Msgs)
        /\ Placed(rc, f, mst) /\ Waits(rc, mst) /\ Sealed(rc, f) /\ rc \in ReCore
    BY DEF LInv, Frames, Types, Placed
  <1>17. Placed(rc, f, mst) /\ Waits(rc, mst) /\ Sealed(rc, f)
    BY <1>0
  <1>1. CASE Untouched
    BY <1>0, <1>1 DEF Untouched, Frames, Guarded, Mailed, Covered
  <1>2. ASSUME NEW p \in Producers, NEW m \in Msgs, PostExchange(p, m) PROVE Goal
    <2>1. /\ mst[m] = "new" /\ mst' = [mst EXCEPT ![m] = "queued"] /\ queue' = Append(queue, m)
          /\ rc' = rc /\ guard' = guard /\ item'[Lane] = f
      BY <1>0, <1>2, LaneApart DEF PostExchange, handlers, Types
    <2>2. Frames'
      <3>1. \A x \in Msgs :
                \/ mst'[x] = mst[x]
                \/ mst[x] \notin {"live", "waiting"} /\ mst'[x] \notin {"live", "waiting"}
        BY <1>0, <2>1
      <3>2. Placed(rc, f, mst') /\ Waits(rc, mst')
        BY <1>0, <3>1, FateKeeps
      <3>. QED
        BY <1>0, <2>1, <3>2 DEF Frames
    <2>3. Mailed'
      <3>1. m \notin Range(queue) /\ \A x \in Range(queue) : x \in Msgs
        BY <1>0, <2>1 DEF Mailed, Range
      <3>2. Distinct(queue') /\ Range(queue') = Range(queue) \cup {m}
        BY <1>0, <2>1, <3>1, AppendKeeps DEF Mailed
      <3>. QED
        BY <1>0, <2>1, <3>1, <3>2 DEF Mailed
    <2>. QED
      BY <1>0, <2>1, <2>2, <2>3 DEF Guarded, Covered
  <1>3. ASSUME NEW m \in Msgs, Cancel(m) PROVE Goal
    <2>1. /\ mst[m] = "queued" /\ mst' = [mst EXCEPT ![m] = "cancelled"] /\ queue' = queue
          /\ rc' = rc /\ guard' = guard /\ item' = item
      BY <1>3 DEF Cancel
    <2>2. \A x \in Msgs :
              \/ mst'[x] = mst[x]
              \/ mst[x] \notin {"live", "waiting"} /\ mst'[x] \notin {"live", "waiting"}
      BY <1>0, <2>1
    <2>3. Placed(rc, f, mst') /\ Waits(rc, mst')
      BY <1>0, <2>2, FateKeeps
    <2>4. Frames'
      BY <1>0, <2>1, <2>3 DEF Frames
    <2>5. Mailed'
      <3>1. \A x \in Range(queue) : x \in Msgs
        BY <1>0 DEF Range
      <3>. QED
        BY <1>0, <2>1, <3>1 DEF Mailed
    <2>. QED
      BY <1>0, <2>1, <2>4, <2>5 DEF Guarded, Covered
  <1>4. ASSUME NEW t \in Carriers, CompleteOne(t) PROVE Goal
    <2>1. /\ mst' = mst /\ queue' = queue /\ guard' = guard /\ item' = item /\ rc.suspended # <<>>
          /\ rc' = [rc EXCEPT !.suspended = Tail(@), !.ready = Append(@, Head(rc.suspended))]
      BY <1>4 DEF CompleteOne, handlers
    <2>2. /\ Placed(rc', f, mst) /\ Waits(rc', mst) /\ Sealed(rc', f)
          /\ rc'.live = rc.live /\ rc'.waiter = rc.waiter /\ rc'.seal = rc.seal
          /\ Range(rc.suspended) \cup Range(rc.ready) \subseteq Range(rc'.suspended) \cup Range(rc'.ready)
      <3>. DEFINE u == Tail(rc.suspended)
                  r == Append(rc.ready, Head(rc.suspended))
      <3>1. rc.suspended \in Seq(Msgs) /\ rc.ready \in Seq(Msgs)
        BY <1>0 DEF ReCore
      <3>2. u \in Seq(Msgs) /\ Head(rc.suspended) \in Msgs /\ r \in Seq(Msgs)
        BY <2>1, <3>1, TailKeeps, AppendKeeps
      <3>3. rc' = [rc EXCEPT !.suspended = u, !.ready = r]
        BY <2>1
      <3>. HIDE DEF u, r
      <3>4. Moved(rc', rc, rc.live, u, r)
        BY <1>0, <3>2, <3>3 DEF Moved, ReCore
      <3>5. /\ rc.suspended # <<>>
            /\ Moved(rc', rc, rc.live, Tail(rc.suspended), Append(rc.ready, Head(rc.suspended)))
        BY <2>1, <3>4 DEF u, r
      <3>. QED
        BY <1>17, <3>5, CompleteKeeps
    <2>. QED
      BY <1>0, <2>1, <2>2 DEF Frames, Mailed, Guarded, Covered, Shut
  <1>5. ASSUME NEW t \in Monitors, RaiseEscalate(t) \/ RequestStop(t) PROVE Goal
    <2>1. /\ mst' = mst /\ queue' = queue /\ guard' = guard /\ item' = item
          /\ \E a \in Signals : rc' = [rc EXCEPT !.actions = @ \cup {a}]
      BY <1>5 DEF RaiseEscalate, RequestStop, handlers, Signals
    <2>2. /\ Alike(rc', rc) /\ rc'.seal = rc.seal /\ rc'.restarting = rc.restarting
      <3>1. PICK a \in Signals : rc' = [rc EXCEPT !.actions = @ \cup {a}]
        BY <2>1
      <3>2. rc \in ReCore
        BY <1>0
      <3>3. rc' \in ReCore
        BY <3>1, <3>2 DEF ReCore
      <3>. QED
        BY <3>1, <3>2, <3>3 DEF Alike, ReCore
    <2>3. Placed(rc', f, mst) /\ Waits(rc', mst)
      BY <1>0, <2>2, AlikeKeeps
    <2>. QED
      BY <1>0, <2>1, <2>2, <2>3 DEF Frames, Mailed, Guarded, Covered, Shut, Sealed, Alike
  <1>6. ASSUME pause_admission \/ resume_admission PROVE Goal
    <2>1. mst' = mst /\ queue' = queue /\ guard' = guard /\ item' = item
      BY <1>6 DEF pause_admission, resume_admission, handlers
    <2>2. /\ rc'.seal = rc.seal \/ ~Shut(rc)
          /\ Alike(rc', rc) /\ rc'.restarting = rc.restarting
      BY ZenonT(40), <1>0, <1>6 DEF pause_admission, resume_admission, Alike, ReCore, Seals, Shut
    <2>3. ~Shut(rc) => rc.waiter = None /\ \A m \in Range(rc.ready) : mst[m] # "waiting"
      BY <1>0 DEF Waits
    <2>4. Placed(rc', f, mst) /\ Waits(rc', mst)
      BY <1>0, <2>2, <2>3, AlikeKeeps
    <2>. QED
      BY <1>0, <2>1, <2>2, <2>4 DEF Frames, Mailed, Guarded, Covered, Shut, Sealed, Alike
  <1>7. ASSUME LaneActions PROVE Goal
    <2>1. mst' = mst /\ queue' = queue /\ guard' = guard /\ item' = item /\ rc' = apply_lane_actions(rc)
      BY <1>7 DEF LaneActions, handlers
    <2>2. /\ Placed(rc', f, mst) /\ Waits(rc', mst) /\ Sealed(rc', f)
          /\ rc'.live = rc.live /\ rc'.waiter = rc.waiter /\ (Shut(rc) => Shut(rc'))
          /\ Range(rc'.suspended) \cup Range(rc'.ready) = Range(rc.suspended) \cup Range(rc.ready)
      BY <1>17, <2>1, ActionsKeep
    <2>. QED
      BY <1>0, <2>1, <2>2 DEF Frames, Mailed, Guarded, Covered
  <1>8. ASSUME ResumeReady PROVE Goal
    <2>. DEFINE h == Head(rc.ready)
    <2>0. f = None
      BY <1>0, <1>8, LaneApart DEF LaneOwns, ResumeReady, Goto
    <2>1. /\ queue' = queue /\ rc.ready # <<>> /\ item' = [item EXCEPT ![Lane] = h]
          /\ guard' = IF mst[h] = "waiting" THEN h ELSE guard
          /\ mst' = IF mst[h] = "waiting" THEN [mst EXCEPT ![h] = "live"] ELSE mst
          /\ rc' = [rc EXCEPT !.ready = Tail(@)]
      BY <1>8 DEF ResumeReady
    <2>2. /\ Placed(rc, None, mst) /\ rc.ready \in Seq(Msgs) /\ h \in Range(rc.ready) /\ h \in Msgs
      BY <1>0, <2>0, <2>1, TailKeeps DEF ReCore
    <2>3. item'[Lane] = h
      BY <1>0, <2>1, LaneApart DEF Types
    <2>4. mst[h] \in {"live", "waiting"}
      BY <2>2 DEF Placed
    <2>5. mst'[h] = "live" /\ \A m \in Msgs \ {h} : mst'[m] = mst[m]
      BY <1>0, <2>1, <2>2, <2>4
    <2>. DEFINE r == Tail(rc.ready)
    <2>6. /\ r \in Seq(Msgs) /\ Range(r) = Range(rc.ready) \ {h} /\ Distinct(r)
      BY <2>1, <2>2, TailKeeps DEF Placed
    <2>7. rc' = [rc EXCEPT !.ready = r]
      BY <2>1
    <2>. HIDE DEF h, r
    <2>8. Moved(rc', rc, rc.live, rc.suspended, r)
      BY <1>0, <2>6, <2>7 DEF Moved, ReCore
    <2>9. /\ Placed(rc', h, mst') /\ Waits(rc', mst') /\ Sealed(rc', h)
          /\ (mst[h] = "waiting" => rc'.live = {h} /\ Shut(rc'))
      <3>1. Placed(rc, None, mst) /\ Waits(rc, mst) /\ Sealed(rc, None) /\ h \in Msgs /\ h \in Range(rc.ready)
        BY <1>17, <2>0, <2>2
      <3>. DEFINE d == rc'
                  t == mst'
      <3>2. /\ Range(r) = Range(rc.ready) \ {h} /\ Distinct(r) /\ Moved(d, rc, rc.live, rc.suspended, r)
            /\ t[h] = "live" /\ \A m \in Msgs \ {h} : t[m] = mst[m]
        BY <2>5, <2>6, <2>8
      <3>. HIDE DEF d, t
      <3>3. /\ Placed(d, h, t) /\ Waits(d, t) /\ Sealed(d, h)
            /\ (mst[h] = "waiting" => d.live = {h} /\ Shut(d))
        BY <3>1, <3>2, ResumeKeeps
      <3>. QED
        BY <3>3 DEF d, t
    <2>10. guard # None => guard = h /\ rc'.live = {h} /\ Shut(rc')
      BY <1>0, <2>2, <2>8 DEF Guarded, Placed, Moved, Shut
    <2>11. Guarded'
      BY <2>1, <2>3, <2>10, <2>9 DEF Guarded
    <2>12. Mailed'
      <3>1. h \notin Range(queue) /\ \A m \in Range(queue) : m \in Msgs
        BY <1>0, <2>4 DEF Mailed, Range
      <3>. QED
        BY <1>0, <2>1, <2>5, <3>1 DEF Mailed
    <2>13. OneQuiescer => Covered'
      BY <1>0, <2>0, <2>3, <2>8, <2>6, MsgsAssumption DEF Covered, Placed, ReCore, Moved
    <2>. QED
      BY <2>3, <2>11, <2>12, <2>13, <2>9 DEF Frames
  <1>9. ASSUME AdmitNothing PROVE Goal
    <2>. DEFINE h == Head(queue)
    <2>1. /\ rc' = rc /\ guard' = guard /\ item' = item /\ queue' = Tail(queue) /\ queue # <<>>
          /\ mst' = [mst EXCEPT ![h] = IF @ = "cancelled" THEN "freed" ELSE "dead"]
      BY <1>9 DEF AdmitNothing, CanTake
    <2>2. /\ h \in Msgs /\ mst[h] \in {"queued", "cancelled"} /\ Distinct(Tail(queue))
          /\ h \notin Range(Tail(queue)) /\ Range(Tail(queue)) \subseteq Range(queue)
          /\ Range(queue) \subseteq Msgs
      BY <1>0, <2>1, MailStays
    <2>. HIDE DEF h
    <2>3. \A x \in Msgs :
              \/ mst'[x] = mst[x]
              \/ mst[x] \notin {"live", "waiting"} /\ mst'[x] \notin {"live", "waiting"}
      BY <1>0, <2>1, <2>2
    <2>4. Placed(rc, f, mst') /\ Waits(rc, mst')
      BY <1>0, <2>3, FateKeeps
    <2>5. Frames'
      BY <1>0, <2>1, <2>4 DEF Frames
    <2>6. Mailed'
      BY <1>0, <2>1, <2>2 DEF Mailed
    <2>. QED
      BY <1>0, <2>1, <2>5, <2>6 DEF Guarded, Covered
  <1>10. ASSUME Admit PROVE Goal
    <2>. DEFINE h == Head(queue)
    <2>0. f = None /\ rc.seal = "Open"
      BY <1>0, <1>10, LaneApart DEF LaneOwns, Admit, Goto, Admissible
    <2>1. /\ guard' = guard /\ item' = [item EXCEPT ![Lane] = h] /\ queue' = Tail(queue) /\ queue # <<>>
          /\ mst[h] = "queued" /\ mst' = [mst EXCEPT ![h] = "live"]
          /\ rc' = [rc EXCEPT !.live = @ \cup {h}]
      BY <1>10 DEF Admit, CanTake
    <2>2. /\ h \in Msgs /\ Distinct(Tail(queue)) /\ h \notin Range(Tail(queue))
          /\ Range(Tail(queue)) \subseteq Range(queue) /\ Range(queue) \subseteq Msgs
      BY <1>0, <2>1, MailStays
    <2>. HIDE DEF h
    <2>3. item'[Lane] = h /\ mst'[h] = "live" /\ \A m \in Msgs \ {h} : mst'[m] = mst[m]
      BY <1>0, <2>1, <2>2, LaneApart DEF Types
    <2>4. Placed(rc', h, mst') /\ Waits(rc', mst') /\ Sealed(rc', h)
      <3>1. Moved(rc', rc, rc.live \cup {h}, rc.suspended, rc.ready)
        BY <1>0, <2>1, <2>2 DEF Moved, ReCore
      <3>2. Placed(rc, None, mst) /\ Sealed(rc, None) /\ h \in Msgs /\ mst[h] = "queued"
        BY <1>0, <1>17, <2>0, <2>1, <2>2
      <3>. QED
        BY <1>17, <2>0, <2>3, <3>1, <3>2, AdmitKeeps
    <2>5. guard = None
      BY <1>0, <2>0 DEF Guarded, Shut
    <2>6. Mailed'
      BY <1>0, <2>1, <2>2 DEF Mailed
    <2>7. /\ rc'.live = rc.live \cup {h} /\ rc'.suspended = rc.suspended /\ rc'.ready = rc.ready
          /\ rc'.waiter = rc.waiter
      BY <1>0, <2>1 DEF ReCore
    <2>8. OneQuiescer => Covered'
      BY <1>0, <2>0, <2>3, <2>7, MsgsAssumption DEF Covered, Placed, ReCore
    <2>. QED
      BY <2>1, <2>3, <2>4, <2>5, <2>6, <2>8 DEF Frames, Guarded
  <1>11. ASSUME HandlerLeaves PROVE f \in Msgs /\ f \in rc.live /\ mst[f] = "live" /\ item'[Lane] = None
    BY <1>0, <1>11, LaneApart DEF HandlerLeaves, LaneOwns, Placed, ReCore, Types
  <1>12. ASSUME f \in Msgs
         PROVE  AfterGuard(f) = rc \/ (AfterGuard(f) = release_seal(rc) /\ rc.live = {f})
    BY <1>0, <1>12, MsgsAssumption DEF AfterGuard, Guarded
  <1>13. ASSUME HandlerReturn PROVE Goal
    <2>. DEFINE b == AfterGuard(f)
    <2>1. /\ rc' = complete_and_remove(b, f) /\ guard' = (IF guard = f THEN None ELSE guard)
          /\ mst' = [mst EXCEPT ![f] = "done"] /\ queue' = queue /\ HandlerLeaves
      BY <1>13 DEF HandlerReturn
    <2>2. f \in Msgs /\ f \in rc.live /\ mst[f] = "live" /\ item'[Lane] = None
      BY <1>11, <2>1
    <2>3. b = rc \/ (b = release_seal(rc) /\ rc.live = {f})
      BY <1>12, <2>2
    <2>. HIDE DEF b
    <2>4. mst'[f] = "done" /\ \A m \in Msgs \ {f} : mst'[m] = mst[m]
      BY <1>0, <2>1, <2>2
    <2>. HIDE DEF f
    <2>5. /\ Placed(rc', None, mst') /\ Waits(rc', mst') /\ Sealed(rc', None) /\ rc'.live = rc.live \ {f}
          /\ (rc'.waiter = rc.waiter \/ (rc'.waiter = None /\ rc.waiter \in Range(rc'.ready)))
          /\ Range(rc.suspended) \cup Range(rc.ready) \subseteq Range(rc'.suspended) \cup Range(rc'.ready)
      <3>1. LET d == complete_and_remove(b, f)
            IN /\ Placed(d, None, mst') /\ Waits(d, mst') /\ Closed(d) /\ d.live = rc.live \ {f}
               /\ (d.waiter = rc.waiter \/ (d.waiter = None /\ rc.waiter \in Range(d.ready)))
               /\ Range(rc.suspended) \cup Range(rc.ready) \subseteq Range(d.suspended) \cup Range(d.ready)
        <4>1. /\ f \in Msgs /\ mst \in [Msgs -> Fates] /\ Placed(rc, f, mst) /\ Waits(rc, mst) /\ Sealed(rc, f)
              /\ mst'[f] \in {"done", "dead"} /\ \A m \in Msgs \ {f} : mst'[m] = mst[m]
          BY <1>0, <1>17, <2>2, <2>4 DEF f
        <4>. QED
          BY <2>3, <4>1, ReturnKeeps
      <3>. QED
        BY <2>1, <3>1 DEF Closed, Sealed
    <2>6. guard' = None
      BY <1>0, <2>1, <2>2 DEF Guarded, f
    <2>7. Mailed'
      <3>1. f \notin Range(queue) /\ \A m \in Range(queue) : m \in Msgs
        BY <1>0, <2>2 DEF Mailed, Range
      <3>. QED
        BY <1>0, <2>1, <2>4, <3>1 DEF Mailed
    <2>8. OneQuiescer => Covered'
      BY <1>0, <2>2, <2>5 DEF Covered, f
    <2>. QED
      BY <2>2, <2>5, <2>6, <2>7, <2>8 DEF Frames, Guarded
  <1>14. ASSUME HandlerFault PROVE Goal
    <2>. DEFINE b == AfterGuard(f)
    <2>1. /\ \E refill \in BOOLEAN : rc' = on_fault_reentrant(b, f, refill)
          /\ guard' = (IF guard = f THEN None ELSE guard)
          /\ mst' = [mst EXCEPT ![f] = "dead"] /\ queue' = queue /\ HandlerLeaves
      BY <1>14 DEF HandlerFault
    <2>2. f \in Msgs /\ f \in rc.live /\ mst[f] = "live" /\ item'[Lane] = None
      BY <1>11, <2>1
    <2>3. b = rc \/ (b = release_seal(rc) /\ rc.live = {f})
      BY <1>12, <2>2
    <2>. HIDE DEF b
    <2>4. mst'[f] = "dead" /\ \A m \in Msgs \ {f} : mst'[m] = mst[m]
      BY <1>0, <2>1, <2>2
    <2>. HIDE DEF f
    <2>5. /\ Placed(rc', None, mst') /\ Waits(rc', mst') /\ Sealed(rc', None) /\ rc'.live = rc.live \ {f}
          /\ rc'.waiter = rc.waiter
          /\ Range(rc.suspended) \cup Range(rc.ready) = Range(rc'.suspended) \cup Range(rc'.ready)
      <3>1. PICK refill \in BOOLEAN : rc' = on_fault_reentrant(b, f, refill)
        BY <2>1
      <3>2. LET d == on_fault_reentrant(b, f, refill)
            IN /\ Placed(d, None, mst') /\ Waits(d, mst') /\ Closed(d) /\ d.live = rc.live \ {f}
               /\ d.waiter = rc.waiter
               /\ Range(rc.suspended) \cup Range(rc.ready) = Range(d.suspended) \cup Range(d.ready)
        <4>1. /\ f \in Msgs /\ mst \in [Msgs -> Fates] /\ Placed(rc, f, mst) /\ Waits(rc, mst) /\ Sealed(rc, f)
              /\ mst'[f] \in {"done", "dead"} /\ \A m \in Msgs \ {f} : mst'[m] = mst[m]
          BY <1>0, <1>17, <2>2, <2>4 DEF f
        <4>. QED
          BY SMTT(30), <2>3, <4>1, PoliciesAssumption, FaultKeeps
      <3>. QED
        BY <3>1, <3>2 DEF Closed, Sealed
    <2>6. guard' = None
      BY <1>0, <2>1, <2>2 DEF Guarded, f
    <2>7. Mailed'
      <3>1. f \notin Range(queue) /\ \A m \in Range(queue) : m \in Msgs
        BY <1>0, <2>2 DEF Mailed, Range
      <3>. QED
        BY <1>0, <2>1, <2>4, <3>1 DEF Mailed
    <2>8. OneQuiescer => Covered'
      BY <1>0, <2>2, <2>5 DEF Covered, f
    <2>. QED
      BY <2>2, <2>5, <2>6, <2>7, <2>8 DEF Frames, Guarded
  <1>15. ASSUME HandlerSuspend PROVE Goal
    <2>1. /\ rc' = [rc EXCEPT !.suspended = Append(@, f)] /\ guard' = guard /\ (f \in rc.told => f \in Stubborn)
          /\ mst' = mst /\ queue' = queue /\ HandlerLeaves
      BY <1>15 DEF HandlerSuspend
    <2>2. f \in Msgs /\ f \in rc.live /\ mst[f] = "live" /\ item'[Lane] = None
      BY <1>11, <2>1
    <2>. HIDE DEF f
    <2>3. /\ Placed(rc', None, mst) /\ Waits(rc', mst) /\ Sealed(rc', None)
          /\ rc'.live = rc.live /\ rc'.waiter = rc.waiter /\ rc'.ready = rc.ready /\ rc'.seal = rc.seal
          /\ Range(rc'.suspended) = Range(rc.suspended) \cup {f}
      <3>. DEFINE r == Append(rc.suspended, f)
      <3>1. /\ r \in Seq(Msgs) /\ rc' = [rc EXCEPT !.suspended = r]
            /\ Range(r) = Range(rc.suspended) \cup {f}
        BY <1>0, <2>1, <2>2, AppendKeeps DEF ReCore
      <3>2. Distinct(r)
        <4>1. Distinct(rc.suspended) /\ rc.suspended \in Seq(Msgs) /\ f \notin Range(rc.suspended)
          BY <1>0, <2>2, MsgsAssumption DEF Placed, ReCore
        <4>. QED
          BY <2>2, <4>1, AppendKeeps
      <3>. HIDE DEF r
      <3>3. Moved(rc', rc, rc.live, r, rc.ready)
        BY <1>0, <3>1 DEF Moved, ReCore
      <3>4. Placed(rc, f, mst) /\ f \in Msgs
        BY <1>17, <2>2 DEF f
      <3>5. Placed(rc', None, mst) /\ Waits(rc', mst) /\ Sealed(rc', None)
        BY <1>17, <2>1, <3>1, <3>2, <3>3, <3>4, SuspendKeeps DEF f
      <3>. QED
        BY <3>1, <3>3, <3>5 DEF Moved
    <2>4. Guarded'
      BY <1>0, <2>1, <2>3 DEF Guarded, Shut
    <2>5. OneQuiescer => Covered'
      BY <1>0, <2>2, <2>3 DEF Covered, f
    <2>. QED
      BY <1>0, <2>1, <2>2, <2>3, <2>4, <2>5 DEF Frames, Mailed
  <1>16. ASSUME NEW mode \in {"Drain", "Cancel"}, NEW deadline \in BOOLEAN, HandlerQuiesce(mode, deadline)
         PROVE  Goal
    <2>. DEFINE a == rc.armed \/ (mode = "Drain" /\ deadline)
                c == begin_quiesce([rc EXCEPT !.armed = a], mode)
    <2>1. /\ f \in Quiescers /\ guard # f /\ queue' = queue
          /\ \/ no_siblings(c) /\ rc' = c /\ guard' = f /\ item' = item /\ mst' = mst
             \/ /\ HandlerLeaves /\ rc' = [c EXCEPT !.waiter = f] /\ guard' = guard
                /\ mst' = [mst EXCEPT ![f] = "waiting"]
      BY <1>16 DEF HandlerQuiesce
    <2>2. f \in Msgs /\ f # None /\ f \in rc.live /\ mst[f] = "live"
      BY <1>0, <2>1, MsgsAssumption DEF Placed
    <2>3. /\ Placed(c, f, mst) /\ Waits(c, mst) /\ Sealed(c, f) /\ Shut(c)
          /\ c.live = rc.live /\ c.waiter = rc.waiter
          /\ Range(c.suspended) \cup Range(c.ready) = Range(rc.suspended) \cup Range(rc.ready)
      <3>1. a \in BOOLEAN
        BY <1>0 DEF ReCore
      <3>. HIDE DEF a, f
      <3>. QED
        BY <1>17, <3>1, QuiesceKeeps
    <2>4. guard = None
      BY <1>0, <2>1, <2>2 DEF Guarded
    <2>. HIDE DEF c, a
    <2>5. CASE no_siblings(c) /\ rc' = c /\ guard' = f /\ item' = item /\ mst' = mst
      <3>1. Cardinality(rc.live) <= 1 /\ IsFiniteSet(rc.live)
        BY <1>0, <2>3, <2>5 DEF no_siblings, Placed
      <3>2. rc.live = {f}
        BY <2>2, <3>1, AloneInside
      <3>3. Frames' /\ Guarded' /\ Mailed'
        BY <1>0, <2>1, <2>3, <2>5, <3>2 DEF Frames, Guarded, Mailed
      <3>4. OneQuiescer => Covered'
        BY <1>0, <2>3, <2>5 DEF Covered
      <3>. QED
        BY <3>3, <3>4
    <2>6. CASE /\ HandlerLeaves /\ rc' = [c EXCEPT !.waiter = f] /\ guard' = guard
               /\ mst' = [mst EXCEPT ![f] = "waiting"]
      <3>1. mst'[f] = "waiting" /\ (\A m \in Msgs \ {f} : mst'[m] = mst[m]) /\ item'[Lane] = None
        BY <1>0, <1>11, <2>2, <2>6
      <3>. HIDE DEF f
      <3>2. /\ Placed(rc', None, mst') /\ Waits(rc', mst') /\ Sealed(rc', None)
            /\ rc'.live = c.live /\ rc'.waiter = f /\ rc'.suspended = c.suspended /\ rc'.ready = c.ready
        <4>1. /\ rc' \in ReCore /\ rc'.live = c.live /\ rc'.told = c.told /\ rc'.suspended = c.suspended
              /\ rc'.ready = c.ready /\ rc'.waiter = f /\ rc'.seal = c.seal /\ rc'.restarting = c.restarting
          BY <2>2, <2>3, <2>6 DEF Placed, ReCore
        <4>2. /\ f \in Quiescers /\ mst \in [Msgs -> Fates] /\ mst'[f] = "waiting"
              /\ \A m \in Msgs \ {f} : mst'[m] = mst[m]
          BY <1>0, <2>1, <3>1
        <4>3. Placed(rc', None, mst') /\ Waits(rc', mst') /\ Sealed(rc', None)
          BY <2>3, <4>1, <4>2, WaitKeeps
        <4>. QED
          BY <4>1, <4>3
      <3>3. Mailed'
        <4>1. f \notin Range(queue) /\ \A m \in Range(queue) : m \in Msgs
          BY <1>0, <2>2 DEF Mailed, Range
        <4>. QED
          BY <1>0, <2>1, <3>1, <4>1 DEF Mailed
      <3>4. OneQuiescer => Covered'
        <4>1. OneQuiescer => rc.waiter = None
          <5>1. ASSUME OneQuiescer, rc.waiter # None PROVE FALSE
            <6>1. rc.waiter \in Msgs /\ mst[rc.waiter] = "waiting" /\ rc.waiter \in Quiescers
              BY <1>0, <5>1 DEF Waits, ReCore
            <6>2. rc.waiter = f
              BY <2>1, <5>1, <6>1 DEF OneQuiescer
            <6>. QED
              BY <2>2, <6>1, <6>2
          <5>. QED
            BY <5>1
        <4>2. OneQuiescer => None \notin rc.live
          BY <1>0, MsgsAssumption DEF ReCore
        <4>. QED
          BY <1>0, <2>3, <3>1, <3>2, <4>1, <4>2 DEF Covered, f
      <3>. QED
        BY <2>4, <2>6, <3>1, <3>2, <3>3, <3>4 DEF Frames, Guarded
    <2>. QED
      BY <2>1, <2>5, <2>6
  <1>18. ASSUME ReleaseGuard PROVE Goal
    <2>1. /\ rc' = release_seal(rc) /\ guard' = None /\ guard # None /\ guard = f
          /\ mst' = mst /\ queue' = queue /\ item' = item
      BY <1>18 DEF ReleaseGuard
    <2>2. f \in Msgs /\ rc.live = {f}
      BY <1>0, <2>1 DEF Guarded, Types
    <2>. HIDE DEF f
    <2>3. /\ Placed(rc', f, mst) /\ Waits(rc', mst) /\ Sealed(rc', f) /\ rc'.live = rc.live
          /\ rc'.waiter = rc.waiter /\ rc'.suspended = rc.suspended /\ rc'.ready = rc.ready
      BY <1>17, <2>1, <2>2, ReleaseKeeps
    <2>. QED
      BY <1>0, <2>1, <2>3 DEF Frames, Guarded, Mailed, Covered, f
  <1>. QED
    BY <1>1, <1>2, <1>3, <1>4, <1>5, <1>6, <1>7, <1>8, <1>9, <1>10, <1>13, <1>14, <1>15, <1>16, <1>18, TouchOrNot
       DEF Touch, HandlerStep, LInv

\* Nobody else stores the exec word while the lane drains.
LEMMA OwnsStep ==
  ASSUME LInv, [Next]_vars
  PROVE  LaneOwns'
  <1>. USE DEF LInv, Types, LaneOwns, Owned, PCs
  <1>1. ASSUME NEW p \in Producers, NEW m \in Msgs, PostExchange(p, m) PROVE LaneOwns'
    BY <1>1, LaneApart DEF PostExchange, Goto
  <1>2. ASSUME NEW p \in Producers, PostLink(p) PROVE LaneOwns'
    BY <1>2, LaneApart DEF PostLink, Goto
  <1>3. ASSUME NEW p \in Producers, WakeLoad(p) PROVE LaneOwns'
    BY <1>3, LaneApart DEF WakeLoad, Goto
  <1>4. ASSUME NEW p \in Producers, WakeCas(p) PROVE LaneOwns'
    BY <1>4, LaneApart DEF WakeCas, Cas, Goto
  <1>5. ASSUME NEW t \in Threads, Schedule(t) PROVE LaneOwns'
    BY <1>5, LaneApart DEF Schedule, Goto
  <1>6. ASSUME NEW m \in Msgs, Cancel(m) PROVE LaneOwns'
    BY <1>6, LaneApart DEF Cancel
  <1>7. ASSUME NEW t \in Carriers, CompleteOne(t) PROVE LaneOwns'
    BY <1>7, LaneApart DEF CompleteOne, Goto
  <1>8. ASSUME NEW t \in Carriers \cup Monitors, Readmit(t) PROVE LaneOwns'
    BY <1>8, LaneApart DEF Readmit, Cas, Goto
  <1>9. ASSUME NEW t \in Monitors, PollWatchdog(t) PROVE LaneOwns'
    BY <1>9, LaneApart DEF PollWatchdog, Goto
  <1>10. ASSUME NEW t \in Monitors, RaiseEscalate(t) PROVE LaneOwns'
    BY <1>10, LaneApart DEF RaiseEscalate, Goto
  <1>11. ASSUME NEW t \in Monitors, RequestStop(t) PROVE LaneOwns'
    BY <1>11, LaneApart DEF RequestStop, Goto
  <1>12. ASSUME NEW t \in Monitors, ReadmitOnly(t) PROVE LaneOwns'
    BY <1>12, LaneApart DEF ReadmitOnly, Cas, Goto
  <1>13. ASSUME pause_admission PROVE LaneOwns'
    BY <1>13, LaneApart DEF pause_admission
  <1>14. ASSUME resume_admission PROVE LaneOwns'
    BY <1>14, LaneApart DEF resume_admission
  <1>15. ASSUME TryAcquire PROVE LaneOwns'
    BY <1>15, LaneApart DEF TryAcquire, Goto
  <1>16. ASSUME LaneActions PROVE LaneOwns'
    BY <1>16, LaneApart DEF LaneActions, Goto
  <1>17. ASSUME ResumeReady PROVE LaneOwns'
    <2>1. rc.ready \in Seq(Msgs) /\ rc.ready # <<>>
      BY <1>17 DEF ResumeReady, Frames, Placed, ReCore
    <2>2. Head(rc.ready) \in Msgs
      BY <2>1, TailKeeps
    <2>. QED
      BY <1>17, <2>2, LaneApart, MsgsAssumption DEF ResumeReady, Goto
  <1>18. ASSUME ReadyDrained PROVE LaneOwns'
    BY <1>18, LaneApart DEF ReadyDrained, Goto
  <1>19. ASSUME GiveUpTurn PROVE LaneOwns'
    BY <1>19, LaneApart DEF GiveUpTurn, Goto
  <1>20. ASSUME AdmitNothing PROVE LaneOwns'
    BY <1>20, LaneApart DEF AdmitNothing, Goto
  <1>21. ASSUME Admit PROVE LaneOwns'
    BY <1>21, LaneApart, MailStays, MsgsAssumption DEF Admit, Goto, CanTake
  <1>22. ASSUME NoAdmission PROVE LaneOwns'
    BY <1>22, LaneApart DEF NoAdmission, Goto
  <1>23. ASSUME PendingReady PROVE LaneOwns'
    BY <1>23, LaneApart DEF PendingReady, Goto
  <1>24. ASSUME Decide PROVE LaneOwns'
    BY <1>24, LaneApart DEF Decide, Goto
  <1>25. ASSUME ParkSc PROVE LaneOwns'
    BY <1>25, LaneApart DEF ParkSc, Goto
  <1>26. ASSUME ProbeAdmittable PROVE LaneOwns'
    BY <1>26, LaneApart DEF ProbeAdmittable, Goto
  <1>27. ASSUME ProbeReady PROVE LaneOwns'
    BY <1>27, LaneApart DEF ProbeReady, Goto
  <1>28. ASSUME ReacquireParked PROVE LaneOwns'
    BY <1>28, LaneApart DEF ReacquireParked, Cas, Goto
  <1>29. ASSUME YieldToScheduled PROVE LaneOwns'
    BY <1>29, LaneApart DEF YieldToScheduled, Goto
  <1>30. ASSUME ReleaseToIdle PROVE LaneOwns'
    BY <1>30, LaneApart DEF ReleaseToIdle, Goto
  <1>31. ASSUME ProbeIdle PROVE LaneOwns'
    BY <1>31, LaneApart DEF ProbeIdle, Goto
  <1>32. ASSUME ReacquireIdle PROVE LaneOwns'
    BY <1>32, LaneApart DEF ReacquireIdle, Cas, Goto
  <1>33. ASSUME HandlerReturn PROVE LaneOwns'
    BY <1>33, LaneApart DEF HandlerReturn, HandlerLeaves
  <1>34. ASSUME HandlerFault PROVE LaneOwns'
    BY <1>34, LaneApart DEF HandlerFault, HandlerLeaves
  <1>35. ASSUME HandlerSuspend PROVE LaneOwns'
    BY <1>35, LaneApart DEF HandlerSuspend, HandlerLeaves
  <1>36. ASSUME NEW mode \in {"Drain", "Cancel"}, NEW deadline \in BOOLEAN,
               HandlerQuiesce(mode, deadline)
        PROVE LaneOwns'
    BY <1>36, LaneApart DEF HandlerQuiesce, HandlerLeaves
  <1>37. CASE UNCHANGED vars
    BY <1>37 DEF vars
  <1>38. ASSUME ReleaseGuard PROVE LaneOwns'
    BY <1>38, LaneApart DEF ReleaseGuard
  <1>. QED
    BY <1>1, <1>2, <1>3, <1>4, <1>5, <1>6, <1>7, <1>8, <1>9, <1>10, <1>11, <1>12, <1>13, <1>14,
       <1>15, <1>16, <1>17, <1>18, <1>19, <1>20, <1>21, <1>22, <1>23, <1>24, <1>25, <1>26, <1>27,
       <1>28, <1>29, <1>30, <1>31, <1>32, <1>33, <1>34, <1>35, <1>36, <1>37, <1>38
      DEF Next, LaneRuns, Controlled, PostStep, CarrierStep, MonitorStep,
       LaneStep, HandlerStep, Threads, Outside

\* A frame made ready has somebody who will look.
LEMMA ReadyStep ==
  ASSUME LInv, NoLostCompletion, [Next]_vars
  PROVE  NoLostCompletion'
  <1>. USE DEF LInv, Types, LaneOwns, Owned, PCs, NoLostCompletion
  <1>1. ASSUME NEW p \in Producers, NEW m \in Msgs, PostExchange(p, m) PROVE NoLostCompletion'
    BY <1>1, LaneApart DEF PostExchange, Goto
  <1>2. ASSUME NEW p \in Producers, PostLink(p) PROVE NoLostCompletion'
    BY <1>2, LaneApart DEF PostLink, Goto
  <1>3. ASSUME NEW p \in Producers, WakeLoad(p) PROVE NoLostCompletion'
    BY <1>3, LaneApart DEF WakeLoad, Goto
  <1>4. ASSUME NEW p \in Producers, WakeCas(p) PROVE NoLostCompletion'
    BY <1>4, LaneApart DEF WakeCas, Cas, Goto
  <1>5. ASSUME NEW t \in Threads, Schedule(t) PROVE NoLostCompletion'
    BY <1>5, LaneApart DEF Schedule, Goto
  <1>6. ASSUME NEW m \in Msgs, Cancel(m) PROVE NoLostCompletion'
    BY <1>6, LaneApart DEF Cancel
  <1>7. ASSUME NEW t \in Carriers, CompleteOne(t) PROVE NoLostCompletion'
    BY <1>7, LaneApart DEF CompleteOne, Goto
  <1>8. ASSUME NEW t \in Carriers \cup Monitors, Readmit(t) PROVE NoLostCompletion'
    BY <1>8, LaneApart DEF Readmit, Cas, Goto
  <1>9. ASSUME NEW t \in Monitors, PollWatchdog(t) PROVE NoLostCompletion'
    BY <1>9, LaneApart DEF PollWatchdog, Goto
  <1>10. ASSUME NEW t \in Monitors, RaiseEscalate(t) PROVE NoLostCompletion'
    BY <1>10, LaneApart DEF RaiseEscalate, Goto
  <1>11. ASSUME NEW t \in Monitors, RequestStop(t) PROVE NoLostCompletion'
    BY <1>11, LaneApart DEF RequestStop, Goto
  <1>12. ASSUME NEW t \in Monitors, ReadmitOnly(t) PROVE NoLostCompletion'
    BY <1>12, LaneApart DEF ReadmitOnly, Cas, Goto
  <1>13. ASSUME pause_admission PROVE NoLostCompletion'
    BY <1>13, LaneApart DEF pause_admission
  <1>14. ASSUME resume_admission PROVE NoLostCompletion'
    BY <1>14, LaneApart DEF resume_admission
  <1>15. ASSUME TryAcquire PROVE NoLostCompletion'
    BY <1>15, LaneApart DEF TryAcquire, Goto
  <1>16. ASSUME LaneActions PROVE NoLostCompletion'
    BY <1>16, LaneApart DEF LaneActions, Goto
  <1>17. ASSUME ResumeReady PROVE NoLostCompletion'
    BY <1>17, LaneApart DEF ResumeReady, Goto
  <1>18. ASSUME ReadyDrained PROVE NoLostCompletion'
    BY <1>18, LaneApart DEF ReadyDrained, Goto
  <1>19. ASSUME GiveUpTurn PROVE NoLostCompletion'
    BY <1>19, LaneApart DEF GiveUpTurn, Goto
  <1>20. ASSUME AdmitNothing PROVE NoLostCompletion'
    BY <1>20, LaneApart DEF AdmitNothing, Goto
  <1>21. ASSUME Admit PROVE NoLostCompletion'
    BY <1>21, LaneApart DEF Admit, Goto
  <1>22. ASSUME NoAdmission PROVE NoLostCompletion'
    BY <1>22, LaneApart DEF NoAdmission, Goto
  <1>23. ASSUME PendingReady PROVE NoLostCompletion'
    BY <1>23, LaneApart DEF PendingReady, Goto
  <1>24. ASSUME Decide PROVE NoLostCompletion'
    BY <1>24, LaneApart DEF Decide, Goto
  <1>25. ASSUME ParkSc PROVE NoLostCompletion'
    BY <1>25, LaneApart DEF ParkSc, Goto
  <1>26. ASSUME ProbeAdmittable PROVE NoLostCompletion'
    BY <1>26, LaneApart DEF ProbeAdmittable, Goto
  <1>27. ASSUME ProbeReady PROVE NoLostCompletion'
    BY <1>27, LaneApart DEF ProbeReady, Goto
  <1>28. ASSUME ReacquireParked PROVE NoLostCompletion'
    BY <1>28, LaneApart DEF ReacquireParked, Cas, Goto
  <1>29. ASSUME YieldToScheduled PROVE NoLostCompletion'
    BY <1>29, LaneApart DEF YieldToScheduled, Goto
  <1>30. ASSUME ReleaseToIdle PROVE NoLostCompletion'
    BY <1>30, LaneApart DEF ReleaseToIdle, Goto
  <1>31. ASSUME ProbeIdle PROVE NoLostCompletion'
    BY <1>31, LaneApart DEF ProbeIdle, Goto
  <1>32. ASSUME ReacquireIdle PROVE NoLostCompletion'
    BY <1>32, LaneApart DEF ReacquireIdle, Cas, Goto
  <1>33. ASSUME HandlerReturn PROVE NoLostCompletion'
    BY <1>33, LaneApart DEF HandlerReturn, HandlerLeaves
  <1>34. ASSUME HandlerFault PROVE NoLostCompletion'
    BY <1>34, LaneApart DEF HandlerFault, HandlerLeaves
  <1>35. ASSUME HandlerSuspend PROVE NoLostCompletion'
    BY <1>35, LaneApart DEF HandlerSuspend, HandlerLeaves
  <1>36. ASSUME NEW mode \in {"Drain", "Cancel"}, NEW deadline \in BOOLEAN,
               HandlerQuiesce(mode, deadline)
        PROVE NoLostCompletion'
    BY <1>36, LaneApart DEF HandlerQuiesce, HandlerLeaves
  <1>37. CASE UNCHANGED vars
    BY <1>37 DEF vars
  <1>38. ASSUME ReleaseGuard PROVE NoLostCompletion'
    BY <1>38, LaneApart DEF ReleaseGuard
  <1>. QED
    BY <1>1, <1>2, <1>3, <1>4, <1>5, <1>6, <1>7, <1>8, <1>9, <1>10, <1>11, <1>12, <1>13, <1>14,
       <1>15, <1>16, <1>17, <1>18, <1>19, <1>20, <1>21, <1>22, <1>23, <1>24, <1>25, <1>26, <1>27,
       <1>28, <1>29, <1>30, <1>31, <1>32, <1>33, <1>34, <1>35, <1>36, <1>37, <1>38
      DEF Next, LaneRuns, Controlled, PostStep, CarrierStep, MonitorStep,
       LaneStep, HandlerStep, Threads, Outside

-----------------------------------------------------------------------------
\* The lane starts empty.
LEMMA InitOK == ASSUME Init PROVE LInv /\ NoLostCompletion
  <1>. USE DEF Init
  <1>1. rc \in ReCore /\ rc.live = {} /\ rc.told = {} /\ rc.suspended = <<>> /\ rc.ready = <<>>
        /\ rc.waiter = None /\ ~rc.restarting
    BY LimitsAssumption DEF ReCore, Seals, Signals
  <1>2. Types
    BY LimitsAssumption DEF Types, PCs, Fates
  <1>3. LaneOwns
    BY LaneApart DEF LaneOwns, Owned
  <1>4. item[Lane] = None
    BY LaneApart
  <1>5. IsFiniteSet({})
    BY FS_EmptySet
  <1>6. Placed(rc, None, mst)
    BY <1>1, <1>5, EmptyKeeps DEF Placed
  <1>7. Waits(rc, mst)
    BY <1>1, EmptyKeeps DEF Waits
  <1>8. Frames /\ Guarded /\ Covered
    BY <1>1, <1>4, <1>6, <1>7 DEF Frames, Sealed, Guarded, Covered
  <1>9. Mailed
    BY EmptyKeeps DEF Mailed
  <1>. QED
    BY <1>2, <1>3, <1>8, <1>9 DEF LInv, NoLostCompletion

\* The lane's invariant.
LEMMA LInvHolds == Spec => [](LInv /\ NoLostCompletion)
  <1>1. LInv /\ NoLostCompletion /\ [Next]_vars => (LInv /\ NoLostCompletion)'
    BY TypesStep, FramesStep, OwnsStep, ReadyStep DEF LInv
  <1>. QED
    BY <1>1, InitOK, PTL DEF Spec

\* Types of the exec-state word, of ReCore and of the threads' places.
THEOREM TypesHold == Spec => []TypeOK
  <1>1. LInv => TypeOK
    <2>1. ASSUME LInv PROVE TypeOK
      <3>1. rc \in ReCore /\ rc.told \subseteq rc.live /\ Types
        BY <2>1 DEF LInv, Frames, Placed
      <3>. QED
        BY <3>1 DEF TypeOK, Types, ReCore, Seals, Signals
    <2>. QED
      BY <2>1
  <1>. QED
    BY <1>1, LInvHolds, PTL

\* quiesce(): while its guard is held the caller is the only frame in flight
\* and the gate stays shut.
THEOREM GuardExclusiveHolds == Spec => []GuardExclusive
  <1>1. LInv => GuardExclusive
    BY DEF LInv, Guarded, GuardExclusive, Shut
  <1>. QED
    BY <1>1, LInvHolds, PTL

\* do_restart_reentrant: as long as handlers heed their stop_token, those in
\* flight in an episode are the ones it told to stop, and the gate stays shut
\* but while the last of them runs.
THEOREM EpisodeSealedHolds == ASSUME Stubborn = {} PROVE Spec => []EpisodeSealed
  <1>1. LInv => EpisodeSealed
    BY DEF LInv, Frames, Sealed, EpisodeSealed, Shut
  <1>. QED
    BY <1>1, LInvHolds, PTL

\* complete_one and the park: a parked lane with a ready frame is looked after.
THEOREM NoLostCompletionHolds == Spec => []NoLostCompletion
  BY LInvHolds, PTL

\* The places of the frames, without gaps and repetitions.
LEMMA PlacesCount ==
  ASSUME NEW q \in Seq(Msgs), Distinct(q)
  PROVE  IsFiniteSet(Range(q)) /\ Cardinality(Range(q)) = Len(q)
  <1>1. Len(q) \in Nat /\ DOMAIN q = 1..Len(q)
    OBVIOUS
  <1>2. q \in Bijection(1..Len(q), Range(q))
    BY <1>1 DEF Range, Distinct, Bijection, Injection, Surjection, IsInjective
  <1>3. ExistsBijection(1..Len(q), Range(q))
    BY <1>2 DEF ExistsBijection
  <1>4. IsFiniteSet(Range(q))
    BY <1>1, <1>3, FS_NatBijection
  <1>. QED
    BY <1>1, <1>3, <1>4, FS_CountingElements

\* A place of one frame.
LEMMA OneKeeps == ASSUME NEW f \in Msgs PROVE <<f>> \in Seq(Msgs) /\ Range(<<f>>) = {f} /\ Distinct(<<f>>)
  BY DEF Range, Distinct

\* With one quiescing handler, every frame in flight is in exactly one place.
THEOREM FramesAccountedHold == ASSUME OneQuiescer PROVE Spec => []FramesAccounted
  <1>1. LInv => FramesAccounted
    <2>. SUFFICES ASSUME LInv PROVE FramesAccounted
      OBVIOUS
    <2>. DEFINE w == IF rc.waiter = None THEN <<>> ELSE <<rc.waiter>>
                f == IF item[Lane] = None THEN <<>> ELSE <<item[Lane]>>
                q == rc.suspended \o rc.ready
                places == q \o w \o f
    <2>1. /\ Placed(rc, item[Lane], mst) /\ Waits(rc, mst) /\ rc \in ReCore /\ Covered
          /\ rc.suspended \in Seq(Msgs) /\ rc.ready \in Seq(Msgs)
      BY DEF LInv, Frames, Placed, ReCore
    <2>2. /\ q \in Seq(Msgs) /\ Range(q) = Range(rc.suspended) \cup Range(rc.ready) /\ Distinct(q)
      BY <2>1, ConcatKeeps DEF Placed
    <2>3. /\ w \in Seq(Msgs) /\ Distinct(w) /\ Range(w) = IF rc.waiter = None THEN {} ELSE {rc.waiter}
      <3>1. CASE rc.waiter = None
        <4>1. w = <<>>
          BY <3>1
        <4>. QED
          BY <3>1, <4>1, EmptyKeeps
      <3>2. CASE rc.waiter # None
        <4>1. rc.waiter \in Msgs /\ w = <<rc.waiter>>
          BY <2>1, <3>2 DEF ReCore
        <4>. QED
          BY <3>2, <4>1, OneKeeps
      <3>. QED
        BY <3>1, <3>2
    <2>4. /\ f \in Seq(Msgs) /\ Distinct(f) /\ Range(f) = IF item[Lane] = None THEN {} ELSE {item[Lane]}
      <3>1. CASE item[Lane] = None
        <4>1. f = <<>>
          BY <3>1
        <4>. QED
          BY <3>1, <4>1, EmptyKeeps
      <3>2. CASE item[Lane] # None
        <4>1. item[Lane] \in Msgs /\ f = <<item[Lane]>>
          BY <2>1, <3>2 DEF Placed, ReCore
        <4>. QED
          BY <3>2, <4>1, OneKeeps
      <3>. QED
        BY <3>1, <3>2
    <2>5. Range(q) \cap Range(w) = {}
      BY <2>1, <2>2, <2>3 DEF Placed, Waits
    <2>6. (Range(q) \cup Range(w)) \cap Range(f) = {}
      BY <2>1, <2>2, <2>3, <2>4 DEF Placed, Waits
    <2>7. Range(q) \cup Range(w) \cup Range(f) = rc.live
      <3>1. rc.waiter # None => rc.waiter \in rc.live
        BY <2>1 DEF Placed, Waits, ReCore
      <3>2. None \notin rc.live
        BY <2>1, MsgsAssumption DEF ReCore
      <3>. QED
        BY <2>1, <2>2, <2>3, <2>4, <3>1, <3>2 DEF Placed, Covered
    <2>. HIDE DEF q, w, f
    <2>8. q \o w \in Seq(Msgs) /\ Range(q \o w) = Range(q) \cup Range(w) /\ Distinct(q \o w)
      BY <2>2, <2>3, <2>5, ConcatKeeps
    <2>9. places \in Seq(Msgs) /\ Range(places) = rc.live /\ Distinct(places)
      <3>1. Range(q \o w) \cap Range(f) = {} /\ Range(q \o w) \cup Range(f) = rc.live
        BY <2>6, <2>7, <2>8
      <3>. DEFINE p == q \o w
      <3>2. /\ p \in Seq(Msgs) /\ f \in Seq(Msgs) /\ Distinct(p) /\ Distinct(f)
            /\ Range(p) \cap Range(f) = {} /\ Range(p) \cup Range(f) = rc.live
        BY <2>4, <2>8, <3>1
      <3>. HIDE DEF p
      <3>3. p \o f \in Seq(Msgs) /\ Range(p \o f) = Range(p) \cup Range(f)
        BY <3>2, ConcatKeeps
      <3>4. Distinct(p \o f)
        BY <3>2, ConcatKeeps
      <3>. USE DEF p
      <3>. QED
        BY <3>2, <3>3, <3>4
    <2>10. Len(places) = Cardinality(rc.live)
      BY <2>9, PlacesCount
    <2>11. rc.live = {m \in Msgs : mst[m] \in {"live", "waiting"}}
      BY <2>1 DEF Placed
    <2>. QED
      BY <2>9, <2>10, <2>11 DEF FramesAccounted, q, w, f
  <1>. QED
    BY <1>1, LInvHolds, PTL

\* The lane's safety, as the run reentrant_live checks it.
THEOREM ReentrantSafeHolds == ASSUME OneQuiescer, Stubborn = {} PROVE Spec => []ReentrantSafe
  BY TypesHold, GuardExclusiveHolds, EpisodeSealedHolds, NoLostCompletionHolds, FramesAccountedHold, PTL
     DEF ReentrantSafe

=============================================================================
