------------------------------ MODULE SimEngine ------------------------------
(* The deterministic simulation: one thread that runs the real activations,    *)
(* picking the next runnable actor with a seeded generator, moving a virtual   *)
(* clock, and dropping posts and failing handlers on demand.  The generators   *)
(* are any choice; a seed fixes one.  The oracle tests rely on                 *)
(* (no_lost_message) and the timers must be right for every choice.            *)
EXTENDS Naturals, Sequences, SequencesExt, FiniteSets

CONSTANTS Actors,
          Tick,       \* tick_ns_, in units of the virtual clock
          Advances,   \* the distances a test advances the clock by
          Delays,     \* the delays and periods a test arms timers with
          Drops,      \* post numbers a test may have dropped
          Faulty,     \* the sequential actors whose handler a test may fail
          Reentrants, \* the actors with a reentrant lane
          Cap,        \* max_concurrency of such a lane
          MaxPosts, MaxTicks, MaxTimers

VARIABLES exec,       \* ExecState of each actor's activation
          stopped,    \* the activation was stopped by supervision
          mail,       \* descriptors in each mailbox
          runnable,   \* runnable_
          queued,     \* SimNode::queued
          drops,      \* drop_next_to: post numbers to be dropped
          post_seq,
          fault,      \* arm_handler_fault: calls until the handler fails, 0 for never
          posted, delivered, dropped, dead_letters,
          phase,      \* what the test's thread is in: "test", "ticking", "running"
          live,       \* suspended handlers of each reentrant lane
          todo,       \* ticks advance has still to do and has done: [left, moved]
          ticks,      \* the wheel's tick count
          now,        \* now_ns_
          timers      \* the armed entries: [to, expiry, period, deadline, cancelled, armed, fired]

simVars == <<exec, stopped, mail, runnable, queued, drops, post_seq, fault, posted, delivered,
             dropped, dead_letters, phase, live, todo, ticks, now, timers>>
clock == <<live, todo, ticks, now, timers>>

SimInit ==
    /\ exec = [a \in Actors |-> "Idle"] /\ stopped = [a \in Actors |-> FALSE]
    /\ mail = [a \in Actors |-> 0] /\ runnable = <<>> /\ queued = [a \in Actors |-> FALSE]
    /\ drops \in SUBSET Drops /\ post_seq = [a \in Actors |-> 0]
    /\ fault \in {f \in [Actors -> 0..1] : \A a \in Actors \ Faulty : f[a] = 0}
    /\ posted = 0 /\ delivered = 0 /\ dropped = 0 /\ dead_letters = 0
    /\ phase = "test" /\ live = [a \in Actors |-> 0]
    /\ todo = [left |-> 0, moved |-> 0] /\ ticks = 0 /\ now = 0 /\ timers = <<>>

\* What a post changes.
sim == [exec |-> exec, mail |-> mail, runnable |-> runnable, queued |-> queued,
        post_seq |-> post_seq, posted |-> posted, dropped |-> dropped]
Become(s) == /\ exec' = s.exec /\ mail' = s.mail /\ runnable' = s.runnable /\ queued' = s.queued
             /\ post_seq' = s.post_seq /\ posted' = s.posted /\ dropped' = s.dropped

mark_runnable(s, a) ==
    IF s.queued[a] THEN s ELSE [s EXCEPT !.queued[a] = TRUE, !.runnable = Append(@, a)]

\* post: the nth post to an actor may be dropped; otherwise the activation takes
\* it, and the post that finds the actor idle makes it runnable.
post(s, a) ==
    LET n == s.post_seq[a] + 1
        t == [s EXCEPT !.post_seq[a] = n]
    IN IF n \in drops THEN [t EXCEPT !.dropped = @ + 1]
       ELSE LET u == [t EXCEPT !.mail[a] = @ + 1, !.posted = @ + 1]
            IN IF u.exec[a] = "Idle" THEN mark_runnable([u EXCEPT !.exec[a] = "Scheduled"], a) ELSE u


\* The last one takes the place of the one removed.
remove_runnable(s, i) ==
    [s EXCEPT !.queued[s.runnable[i]] = FALSE,
              !.runnable = SubSeq([@ EXCEPT ![i] = Last(s.runnable)], 1, Len(s.runnable) - 1)]

RoomToPost == posted + dropped < MaxPosts

\* A test posts from outside.
Post(a) == /\ phase = "test" /\ RoomToPost
           /\ Become(post(sim, a))
           /\ UNCHANGED <<stopped, drops, fault, delivered, dead_letters, phase>> /\ UNCHANGED clock

RunUntilIdle == /\ phase = "test" /\ runnable # <<>> /\ phase' = "running"
                /\ UNCHANGED <<exec, stopped, mail, runnable, queued, drops, post_seq, fault,
                               posted, delivered, dropped, dead_letters>> /\ UNCHANGED clock
Idle == /\ phase = "running" /\ runnable = <<>> /\ phase' = "test"
        /\ UNCHANGED <<exec, stopped, mail, runnable, queued, drops, post_seq, fault,
                       posted, delivered, dropped, dead_letters>> /\ UNCHANGED clock

\* step_node finds the mailbox empty and nothing in flight: the actor goes idle.
StepEmpty(i) ==
    LET a == runnable[i]
    IN /\ phase = "running" /\ exec[a] = "Scheduled" /\ mail[a] = 0 /\ live[a] = 0
       /\ Become(remove_runnable([sim EXCEPT !.exec[a] = "Idle"], i))
       /\ UNCHANGED <<stopped, drops, fault, delivered, dead_letters, phase>> /\ UNCHANGED clock

\* step_node with a message: a stopped actor's is dead-lettered, an armed fault
\* fails the handler (the message is dead-lettered and supervision restarts or
\* stops the actor), otherwise the handler runs and may post.  The actor stays
\* runnable and yields.
StepMessage(i, sends, stops) ==
    LET a == runnable[i]
        fails == ~stopped[a] /\ fault[a] = 1
        runs == ~stopped[a] /\ ~fails
        taken == [sim EXCEPT !.mail[a] = @ - 1]
    IN /\ phase = "running" /\ exec[a] = "Scheduled" /\ mail[a] > 0
       /\ sends # {} => runs /\ RoomToPost
       /\ stops => fails
       /\ Become(IF sends = {} THEN taken ELSE post(taken, CHOOSE b \in sends : TRUE))
       /\ delivered' = delivered + 1
       /\ dead_letters' = IF runs THEN dead_letters ELSE dead_letters + 1
       /\ stopped' = [stopped EXCEPT ![a] = @ \/ stops]
       /\ fault' = IF stopped[a] \/ fault[a] = 0 THEN fault ELSE [fault EXCEPT ![a] = @ - 1]
       /\ UNCHANGED <<drops, phase>> /\ UNCHANGED clock

Parked(s, i) == remove_runnable([s EXCEPT !.exec[runnable[i]] = "Suspended"], i)

\* The handler suspends.  A sequential actor is parked and leaves the runnable
\* list; a reentrant one yields as long as its lane has room for another handler.
\* Nothing completes a suspended handler: there is no carrier here.
StepSuspend(i) ==
    LET a == runnable[i]
        taken == [sim EXCEPT !.mail[a] = @ - 1]
        room == a \in Reentrants /\ live[a] + 1 < Cap
    IN /\ phase = "running" /\ exec[a] = "Scheduled" /\ mail[a] > 0 /\ ~stopped[a] /\ fault[a] # 1
       /\ Become(IF room THEN taken ELSE Parked(taken, i))
       /\ live' = IF a \in Reentrants THEN [live EXCEPT ![a] = @ + 1] ELSE live
       /\ delivered' = delivered + 1
       /\ UNCHANGED <<stopped, drops, fault, dead_letters, phase, todo, ticks, now, timers>>

\* A reentrant lane with handlers in flight and no mail parks as well, and step_node
\* counts a delivery though no message was taken.
StepPark(i) ==
    LET a == runnable[i]
    IN /\ phase = "running" /\ exec[a] = "Scheduled" /\ mail[a] = 0 /\ live[a] > 0
       /\ Become(Parked(sim, i))
       /\ delivered' = delivered + 1
       /\ UNCHANGED <<stopped, drops, fault, dead_letters, phase>> /\ UNCHANGED clock

------------------------------------------------------------------------------

ticks_ceil(d) == IF d = 0 THEN 1 ELSE (d + Tick - 1) \div Tick

\* schedule_after and schedule_every.
Arm(a, delay, periodic) ==
    /\ phase = "test" /\ Len(timers) < MaxTimers
    /\ timers' = Append(timers, [to |-> a, expiry |-> ticks + ticks_ceil(delay),
                                 period |-> IF periodic /\ delay > 0 THEN ticks_ceil(delay) ELSE 0,
                                 deadline |-> now + delay, cancelled |-> FALSE, active |-> TRUE,
                                 armed |-> ticks, fired |-> 0, early |-> FALSE])
    /\ UNCHANGED <<live, todo, ticks, now, phase, drops, stopped, fault, delivered, dead_letters>>
    /\ Become(sim)

Cancel(t) ==
    /\ phase = "test" /\ timers[t].active /\ ~timers[t].cancelled
    /\ timers' = [timers EXCEPT ![t].cancelled = TRUE]
    /\ UNCHANGED <<live, todo, ticks, now, phase, drops, stopped, fault, delivered, dead_letters>>
    /\ Become(sim)

\* advance: whole ticks only, and the rest of the distance is forgotten.
Advance(by) ==
    /\ phase = "test" /\ phase' = "ticking"
    /\ todo' = [left |-> by \div Tick, moved |-> 0]
    /\ ticks + (by \div Tick) <= MaxTicks
    /\ UNCHANGED <<live, ticks, now, timers, drops, stopped, fault, delivered, dead_letters>>
    /\ Become(sim)

\* on_expire: the next expiry is counted from this one.
rearmed(t) == t.expiry + t.period

\* on_expire of one entry, once the wheel reached it.
Expired(t) ==
    IF t.cancelled THEN [t EXCEPT !.active = FALSE]
    ELSE LET f == [t EXCEPT !.fired = @ + 1, !.early = @ \/ (ticks + 1) * Tick < t.deadline]
         IN IF t.period = 0 THEN [f EXCEPT !.active = FALSE]
            ELSE [f EXCEPT !.expiry = rearmed(t), !.deadline = @ + t.period * Tick]
due == {i \in DOMAIN timers : timers[i].active /\ timers[i].expiry <= ticks + 1}

WheelTick ==
    /\ phase = "ticking" /\ todo.left > 0
    /\ todo' = [left |-> todo.left - 1, moved |-> todo.moved + 1] /\ ticks' = ticks + 1
    /\ timers' = [i \in DOMAIN timers |-> IF i \in due THEN Expired(timers[i]) ELSE timers[i]]
    /\ LET firing == SetToSeq({i \in due : ~timers[i].cancelled})
       IN /\ posted + dropped + Len(firing) <= MaxPosts
          /\ Become(FoldLeft(LAMBDA s, i : post(s, timers[i].to), sim, firing))
    /\ UNCHANGED <<live, now, phase, drops, stopped, fault, delivered, dead_letters>>

\* The clock follows once every tick is done, and what the timers posted runs.
AdvanceEnds ==
    /\ phase = "ticking" /\ todo.left = 0
    /\ now' = now + todo.moved * Tick /\ phase' = "running"
    /\ UNCHANGED <<live, todo, ticks, timers, drops, stopped, fault, delivered, dead_letters>>
    /\ Become(sim)

SimNext ==
    \/ \E a \in Actors : Post(a)
    \/ RunUntilIdle \/ Idle
    \/ \E i \in DOMAIN runnable :
          StepEmpty(i) \/ StepSuspend(i) \/ StepPark(i) \/ StepMessage(i, {}, TRUE)
          \/ \E sends \in {{}} \cup {{b} : b \in Actors} : StepMessage(i, sends, FALSE)
    \/ \E a \in Actors, d \in Delays, p \in BOOLEAN : Arm(a, d, p)
    \/ \E t \in DOMAIN timers : Cancel(t)
    \/ \E by \in Advances : Advance(by)
    \/ WheelTick \/ AdvanceEnds

SimSpec == SimInit /\ [][SimNext]_simVars

------------------------------------------------------------------------------
\* The runnable list, the queued flags and the activations agree: exactly the
\* scheduled actors are on the list, each once, so that no wake is swallowed by
\* a flag left behind and the run to idleness strands nobody.
RunnableAgrees ==
    /\ \A a \in Actors : (exec[a] = "Scheduled") <=> a \in Range(runnable)
    /\ \A a \in Actors : queued[a] <=> a \in Range(runnable)
    /\ \A i, j \in DOMAIN runnable : runnable[i] = runnable[j] => i = j

MailOf[as \in SUBSET Actors] ==
    IF as = {} THEN 0 ELSE LET a == CHOOSE x \in as : TRUE IN mail[a] + MailOf[as \ {a}]

\* What the oracle (no_lost_message) compares: under dropped posts, failing
\* handlers, stopped and parked actors each delivery counted is a message that
\* left its mailbox, so an idle simulation is lossless just when the counts agree,
\* except that a reentrant lane that parked with room left was counted once more.
OracleIsExact ==
    posted + Cardinality({a \in Reentrants : exec[a] = "Suspended" /\ live[a] < Cap})
        = delivered + MailOf[Actors]

\* No timer fires before its deadline, whatever fractions of a tick delays and
\* advances are made of.
NeverEarly == \A i \in DOMAIN timers : ~timers[i].early

\* Virtual time is exact: a periodic timer fires once for every period that went
\* by, however far one advance went and although the clock stands while it ticks.
OncePerPeriod ==
    \A i \in DOMAIN timers :
        LET t == timers[i]
        IN t.period # 0 /\ t.active /\ ~t.cancelled => t.fired = (ticks - t.armed) \div t.period
==============================================================================
