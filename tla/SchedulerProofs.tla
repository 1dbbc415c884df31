--------------------------- MODULE SchedulerProofs ---------------------------
(***************************************************************************)
(* Proofs about module Scheduler, for any numbers of workers, shards and   *)
(* producers, and any bounds.                                              *)
(*                                                                         *)
(* The argument has three layers.  Shape: the types, with the places where *)
(* a thread has a shard in its hands; a drain slot names the thread inside *)
(* the session; and a lane is never empty, so that popping it never moves  *)
(* its tail.  Watched: a shard whose tail is off the stub has a caller on  *)
(* its way to a wakeup, or a worker that has not looked past it; the       *)
(* workers that have looked past it are announced in idle_mask_, which is  *)
(* why the caller finds one to wake.  Tended: entries hidden in front of a *)
(* re-armed stub, which the probe does not see, are in the hands of the    *)
(* drain session that re-armed it.                                         *)
(***************************************************************************)
EXTENDS Scheduler, TLAPS

Nodes == Threads \cup {Stub, Item}

\* Where a worker has a shard in its hands.
SessionPCs == {"missed", "top", "select", "rearm", "reload", "run", "wheel", "clear", "probe",
               "recas", "vacate", "vacated", "acknowledge", "probing", "asking", "awaiting"}

\* A thread is where its role allows, with the shard it is at.
Placed == /\ \A t \in Workers \cup {Backstop} : pc[t] \in SessionPCs => at[t] \in Shards
          /\ \A w \in Workers : pc[w] \in WorkerPCs
          /\ pc[Backstop] \in {"sleep", "round", "wheel", "exited"}

\* What schedule_and_wake works on: a shard, then a worker.
Calling == \A t \in Threads : /\ epc[t] = "link" => target[t] \in Shards
                              /\ epc[t] = "bump" => target[t] \in Workers

\* A run-queue holds its stub or an entry, and two nodes once the stub is
\* re-armed behind the front one (only the owner of the drain slot removes).
Fed == /\ \A s \in Shards : Len(lane[s]) >= 1
       /\ \A w \in Workers : pc[w] = "reload" => Len(lane[at[w]]) >= 2

\* The inductive part the others stand on.
Shape == TypeOK /\ Placed /\ Calling /\ DrainExclusive /\ Fed

-----------------------------------------------------------------------------
(* What the operations of a run-queue do to its tail.                      *)

\* An enqueue moves the tail to the new node.
LEMMA AppendKeeps == ASSUME NEW S, NEW q \in Seq(S), NEW e \in S
                     PROVE /\ Append(q, e) \in Seq(S)
                           /\ Len(Append(q, e)) = Len(q) + 1
                           /\ Last(Append(q, e)) = e
  BY DEF Last

\* Removing the front node of several leaves the tail alone ...
LEMMA TailKeeps == ASSUME NEW S, NEW q \in Seq(S), Len(q) > 1
                   PROVE /\ Tail(q) \in Seq(S)
                         /\ Len(Tail(q)) = Len(q) - 1
                         /\ Last(Tail(q)) = Last(q)
  BY DEF Last

\* ... and so does skipping the stub (try_pop).
LEMMA SkipStubKeeps == ASSUME NEW S, NEW q \in Seq(S), Len(q) >= 1
                       PROVE /\ SkipStub(q) \in Seq(S)
                             /\ Len(SkipStub(q)) >= 1
                             /\ Last(SkipStub(q)) = Last(q)
  BY TailKeeps DEF SkipStub

\* Storing the predecessor link changes no position and moves no stub.
LEMMA LinkKeeps == ASSUME NEW q \in Seq(Nodes), NEW t \in Threads
                   PROVE /\ ReplaceAll(q, t, Item) \in Seq(Nodes)
                         /\ Len(ReplaceAll(q, t, Item)) = Len(q)
                         /\ \A i \in 1..Len(q) : ReplaceAll(q, t, Item)[i] = Stub <=> q[i] = Stub
                         /\ Len(q) >= 1 => (Last(ReplaceAll(q, t, Item)) = Stub <=> Last(q) = Stub)
  BY ThreadsAssumption DEF ReplaceAll, Last, Nodes

\* The second half of an enqueue is on the shard of the first.
LEMMA LinkTarget == ASSUME Calling, NEW t \in Threads, epc[t] = "link" PROVE target[t] \in Shards
  BY SMTT(30) DEF Calling

-----------------------------------------------------------------------------

\* Every step keeps the shape: no hand-over of a drain slot leaves two threads
\* inside a session of one shard (VisitShard, RetakeDrain, StealTake,
\* BackstopVisit take a free slot; only its owner frees it).
LEMMA ShapeStep == ASSUME Shape, [Next]_vars PROVE Shape'
  <1>. USE ThreadsAssumption, BoundsAssumption DEF Shape, TypeOK, Placed, Calling, Fed, DrainExclusive, DrainPCs, SessionPCs, WorkerPCs, Threads, Goto, enq, evict, stopvars
  <1>1. ASSUME NEW p \in Producers, NEW s \in Shards, Post(p, s) PROVE Shape'
    BY SMTT(30), <1>1 DEF Post, ScheduleOn
  <1>2. ASSUME NEW w \in Workers, NEW s \in Shards, HandlerPosts(w, s) PROVE Shape'
    <2>1. lane' \in [Shards -> Seq(Nodes)] /\ \A r \in Shards : Len(lane'[r]) >= Len(lane[r])
      BY SMTT(30), <1>2, AppendKeeps DEF HandlerPosts, ScheduleOn, Nodes
    <2>2. posts' \in 0..MaxPosts /\ epc' \in [Threads -> {"no", "link", "wake", "bump"}]
      BY <1>2 DEF HandlerPosts, ScheduleOn
    <2>3. TypeOK'
      BY <1>2, <2>1, <2>2 DEF HandlerPosts, ScheduleOn, Nodes
    <2>4. Calling'
      BY <1>2 DEF HandlerPosts, ScheduleOn
    <2>5. Fed'
      BY <1>2, <2>1 DEF HandlerPosts, ScheduleOn, Nodes
    <2>. QED
      BY <1>2, <2>3, <2>4, <2>5 DEF HandlerPosts, ScheduleOn
  <1>3. ASSUME NEW t \in Workers \cup {Backstop}, WheelFires(t) PROVE Shape'
    BY SMTT(30), <1>3 DEF WheelFires, ScheduleOn
  <1>4. ASSUME NEW t \in Threads, EnqueueLink(t) PROVE Shape'
    <2>1. target[t] \in Shards /\ lane[target[t]] \in Seq(Nodes)
      <3>1. target[t] \in Shards
        <4>1. epc[t] = "link"
          BY <1>4 DEF EnqueueLink
        <4>2. Calling
          BY DEF Shape
        <4>. QED
          BY <4>1, <4>2, LinkTarget, Zenon
      <3>. QED
        BY <3>1 DEF Nodes
    <2>2. /\ ReplaceAll(lane[target[t]], t, Item) \in Seq(Nodes)
          /\ Len(ReplaceAll(lane[target[t]], t, Item)) = Len(lane[target[t]])
      BY <2>1, LinkKeeps
    <2>3. /\ lane' \in [Shards -> Seq(Nodes)]
          /\ \A r \in Shards : Len(lane'[r]) = Len(lane[r])
      BY <1>4, <2>1, <2>2 DEF EnqueueLink, Nodes
    <2>4. TypeOK' /\ Calling'
      BY <1>4, <2>3 DEF EnqueueLink, Nodes
    <2>5. Fed'
      BY <1>4, <2>3 DEF EnqueueLink
    <2>. QED
      BY <1>4, <2>4, <2>5 DEF EnqueueLink
  <1>5. ASSUME NEW t \in Threads, WakePick(t) PROVE Shape'
    <2>1. CASE idle = {}
      <3>1. /\ epc' = [epc EXCEPT ![t] = "no"]
            /\ target' = [target EXCEPT ![t] = None]
            /\ idle' = {}
        BY <1>5, <2>1 DEF WakePick
      <3>. QED
        BY <1>5, <2>1, <3>1 DEF WakePick
    <2>2. ASSUME NEW w \in idle, idle' = idle \ {w}, epc' = [epc EXCEPT ![t] = "bump"],
                 target' = [target EXCEPT ![t] = w]
          PROVE Shape'
      BY <1>5, <2>2 DEF WakePick
    <2>. QED
      BY <1>5, <2>1, <2>2 DEF WakePick
  <1>6. ASSUME NEW t \in Threads, WakeBump(t) PROVE Shape'
    BY <1>6 DEF WakeBump, Bump
  <1>7. ASSUME NEW w \in Workers, NEW s \in Shards, VisitShard(w, s) PROVE Shape'
    BY SMTT(30), <1>7 DEF VisitShard
  <1>8. ASSUME NEW w \in Workers, NEW s \in Shards, RescanShard(w, s) PROVE Shape'
    BY SMTT(30), <1>8 DEF RescanShard
  <1>9. ASSUME NEW w \in Workers, SkipShard(w) PROVE Shape'
    BY <1>9 DEF SkipShard, NextShard
  <1>10. ASSUME NEW w \in Workers, ScanFoundNothing(w) PROVE Shape'
    <2>1. final' \in [Workers -> BOOLEAN]
      BY ZenonT(40), <1>10 DEF ScanFoundNothing
    <2>2. todo' \in [Workers \cup {Backstop} -> SUBSET Shards]
      <3>1. todo' = todo \/ todo' = [todo EXCEPT ![w] = Shards]
        BY <1>10 DEF ScanFoundNothing
      <3>2. todo \in [Workers \cup {Backstop} -> SUBSET Shards]
        OBVIOUS
      <3>3. [todo EXCEPT ![w] = Shards] \in [Workers \cup {Backstop} -> SUBSET Shards]
        BY <3>2
      <3>. QED
        BY <3>1, <3>2, <3>3, Zenon
    <2>3. PICK p \in {"scan", "exited", "spin"} : pc' = [pc EXCEPT ![w] = p]
      BY <1>10 DEF ScanFoundNothing
    <2>. QED
      BY <1>10, <2>1, <2>2, <2>3 DEF ScanFoundNothing
  <1>11. ASSUME NEW w \in Workers, SpinSeesWork(w) PROVE Shape'
    BY <1>11 DEF SpinSeesWork
  <1>12. ASSUME NEW w \in Workers, AnnounceIdle(w) PROVE Shape'
    BY <1>12 DEF AnnounceIdle
  <1>13. ASSUME NEW w \in Workers, RescanDone(w) PROVE Shape'
    BY <1>13 DEF RescanDone
  <1>14. ASSUME NEW w \in Workers, LeavePark(w) PROVE Shape'
    BY <1>14 DEF LeavePark
  <1>15. ASSUME NEW w \in Workers, Checkpoint(w) PROVE Shape'
    BY <1>15 DEF Checkpoint
  <1>16. ASSUME NEW w \in Workers, SelectItem(w) PROVE Shape'
    <2>1. /\ lane' \in [Shards -> Seq(Nodes)]
          /\ \A r \in Shards : Len(lane'[r]) >= 1
          /\ \A r \in Shards \ {at[w]} : lane'[r] = lane[r]
      BY <1>16, TailKeeps, SkipStubKeeps DEF SelectItem, Nodes
    <2>2. TypeOK'
      BY <1>16, <2>1 DEF SelectItem, Nodes, RunItem
    <2>3. Fed'
      BY <1>16, <2>1 DEF SelectItem, RunItem
    <2>4. Placed' /\ Calling' /\ DrainExclusive'
      BY SMTT(30), <1>16 DEF SelectItem, RunItem
    <2>. QED
      BY <2>2, <2>3, <2>4
  <1>17. ASSUME NEW w \in Workers, SelectEmpty(w) PROVE Shape'
    BY ZenonT(40), <1>17 DEF SelectEmpty
  <1>18. ASSUME NEW w \in Workers, SelectBusy(w) PROVE Shape'
    <2>1. PICK p \in {"top", "wheel"} : Goto(w, "select", p)
      BY <1>18 DEF SelectBusy
    <2>2. /\ lane' \in [Shards -> Seq(Nodes)]
          /\ \A r \in Shards : Len(lane'[r]) >= 1
          /\ \A r \in Shards \ {at[w]} : lane'[r] = lane[r]
      BY <1>18, TailKeeps, SkipStubKeeps DEF SelectBusy, Nodes
    <2>3. TypeOK'
      BY <1>18, <2>1, <2>2 DEF SelectBusy, Nodes
    <2>4. Fed'
      BY <1>18, <2>1, <2>2 DEF SelectBusy
    <2>5. Placed' /\ Calling' /\ DrainExclusive'
      BY <1>18, <2>1 DEF SelectBusy
    <2>. QED
      BY <2>3, <2>4, <2>5
  <1>19. ASSUME NEW w \in Workers, SelectSingle(w) PROVE Shape'
    <2>1. /\ lane' \in [Shards -> Seq(Nodes)]
          /\ \A r \in Shards : Len(lane'[r]) >= 1
          /\ \A r \in Shards \ {at[w]} : lane'[r] = lane[r]
      BY <1>19, TailKeeps, SkipStubKeeps DEF SelectSingle, Nodes
    <2>2. TypeOK'
      BY <1>19, <2>1 DEF SelectSingle, Nodes
    <2>3. Fed'
      BY <1>19, <2>1 DEF SelectSingle
    <2>. QED
      BY <1>19, <2>2, <2>3 DEF SelectSingle
  <1>20. ASSUME NEW w \in Workers, RearmStub(w) PROVE Shape'
    BY SMTT(30), <1>20 DEF RearmStub
  <1>21. ASSUME NEW w \in Workers, ReloadItem(w) PROVE Shape'
    BY SMTT(30), <1>21 DEF ReloadItem, RunItem
  <1>22. ASSUME NEW w \in Workers, ReloadBusy(w) PROVE Shape'
    <2>1. CASE Goto(w, "reload", "top")
      BY SMTT(30), <1>22, <2>1 DEF ReloadBusy
    <2>2. CASE Goto(w, "reload", "wheel")
      BY <1>22, <2>2 DEF ReloadBusy
    <2>. QED
      BY <1>22, <2>1, <2>2 DEF ReloadBusy
  <1>23. ASSUME NEW w \in Workers, RunDone(w) PROVE Shape'
    <2>1. /\ lane' \in [Shards -> Seq(Nodes)]
          /\ \A r \in Shards : Len(lane'[r]) >= Len(lane[r])
      <3>1. at[w] \in Shards /\ lane[at[w]] \in Seq(Nodes) /\ Item \in Nodes
        BY <1>23 DEF RunDone, Nodes
      <3>2. /\ Append(lane[at[w]], Item) \in Seq(Nodes)
            /\ Len(Append(lane[at[w]], Item)) = Len(lane[at[w]]) + 1
        BY <3>1, AppendKeeps
      <3>3. CASE lane' = [lane EXCEPT ![at[w]] = Append(@, Item)]
        BY <3>1, <3>2, <3>3 DEF Nodes
      <3>4. CASE lane' = lane
        BY <3>4 DEF Nodes
      <3>. QED
        BY <1>23, <3>3, <3>4 DEF RunDone
    <2>2. moved' \in [Workers -> BOOLEAN]
      BY <1>23, Zenon DEF RunDone
    <2>3. posts' \in 0..MaxPosts
      BY <1>23 DEF RunDone
    <2>4. TypeOK'
      BY <1>23, <2>1, <2>2, <2>3 DEF RunDone, Nodes
    <2>5. Fed'
      BY <1>23, <2>1 DEF RunDone, Nodes
    <2>. QED
      BY SMTT(30), <1>23, <2>4, <2>5 DEF RunDone
  <1>24. ASSUME NEW w \in Workers, ReleaseDrain(w) PROVE Shape'
    BY <1>24 DEF ReleaseDrain
  <1>25. ASSUME NEW w \in Workers, ClearRequest(w) PROVE Shape'
    BY <1>25 DEF ClearRequest
  <1>26. ASSUME NEW w \in Workers, ProbeFindsWork(w) PROVE Shape'
    BY SMTT(30), <1>26 DEF ProbeFindsWork
  <1>27. ASSUME NEW w \in Workers, ProbeFindsNone(w) PROVE Shape'
    BY <1>27 DEF ProbeFindsNone, SessionEnds, AfterSession
  <1>28. ASSUME NEW w \in Workers, RetakeDrain(w) PROVE Shape'
    BY <1>28 DEF RetakeDrain
  <1>29. ASSUME NEW w \in Workers, RetakeFails(w) PROVE Shape'
    BY <1>29 DEF RetakeFails, SessionEnds, AfterSession
  <1>30. ASSUME NEW w \in Workers, Vacate(w) PROVE Shape'
    BY <1>30 DEF Vacate
  <1>31. ASSUME NEW w \in Workers, VacateClear(w) PROVE Shape'
    BY <1>31 DEF VacateClear
  <1>32. ASSUME NEW w \in Workers, VacateAck(w) PROVE Shape'
    BY <1>32 DEF VacateAck, SessionEnds, AfterSession
  <1>33. ASSUME NEW w \in Workers, StealProbe(w) PROVE Shape'
    BY <1>33 DEF StealProbe
  <1>34. ASSUME NEW w \in Workers, StealBackOff(w) PROVE Shape'
    BY <1>34 DEF StealBackOff, NextShard
  <1>35. ASSUME NEW w \in Workers, StealRequest(w) PROVE Shape'
    <2>1. gen[at[w]] \in Nat /\ at[w] \in Shards
      BY <1>35 DEF StealRequest
    <2>2. gen' \in [Shards -> Nat] /\ myreq' \in [Workers -> Nat]
      BY <1>35, <2>1 DEF StealRequest
    <2>. QED
      BY <1>35, <2>2 DEF StealRequest
  <1>36. ASSUME NEW w \in Workers, StealPost(w) PROVE Shape'
    BY <1>36 DEF StealPost
  <1>37. ASSUME NEW w \in Workers, StealRefused(w) PROVE Shape'
    BY <1>37 DEF StealRefused, NextShard
  <1>38. ASSUME NEW w \in Workers, StealTake(w) PROVE Shape'
    BY <1>38 DEF StealTake
  <1>39. ASSUME NEW w \in Workers, StealTimeout(w) PROVE Shape'
    BY <1>39 DEF StealTimeout, NextShard
  <1>40. ASSUME NEW s \in Shards, BackstopVisit(s) PROVE Shape'
    BY <1>40 DEF BackstopVisit
  <1>41. ASSUME NEW s \in Shards, BackstopSkip(s) PROVE Shape'
    BY <1>41 DEF BackstopSkip
  <1>42. ASSUME BackstopRound PROVE Shape'
    BY <1>42 DEF BackstopRound
  <1>43. ASSUME BackstopRelease PROVE Shape'
    BY <1>43 DEF BackstopRelease
  <1>44. ASSUME BackstopSleep PROVE Shape'
    BY <1>44 DEF BackstopSleep
  <1>45. ASSUME Stop PROVE Shape'
    BY <1>45 DEF Stop
  <1>46. ASSUME NEW w \in Workers, WakeAll(w) PROVE Shape'
    BY <1>46 DEF WakeAll, Bump
  <1>47. CASE UNCHANGED vars
    BY SMTT(30), <1>47 DEF vars
  <1>. QED
    BY ZenonT(40), <1>1, <1>2, <1>3, <1>4, <1>5, <1>6, <1>7, <1>8, <1>9, <1>10, <1>11, <1>12, <1>13, <1>14,
       <1>15, <1>16, <1>17, <1>18, <1>19, <1>20, <1>21, <1>22, <1>23, <1>24, <1>25, <1>26, <1>27,
       <1>28, <1>29, <1>30, <1>31, <1>32, <1>33, <1>34, <1>35, <1>36, <1>37, <1>38, <1>39, <1>40,
       <1>41, <1>42, <1>43, <1>44, <1>45, <1>46, <1>47 DEF Next, EnqueueStep, WorkerStep, BackstopStep

-----------------------------------------------------------------------------

\* The worker will go to sleep, or sleeps, without looking at the shard again.
Passed(w, s) == ~bumped[w] /\ (pc[w] = "sleep" \/ (pc[w] = "rescan" /\ s \notin todo[w]))

\* Some thread is inside schedule_and_wake.
InHand == \E t \in Threads : epc[t] \in {"link", "wake", "bump"}

\* Whoever is about to sleep is in idle_mask_, or was just taken out of it by a
\* thread that is going to bump it.
Announced == \A w \in Workers :
                pc[w] \in {"rescan", "sleep"} /\ ~bumped[w]
                  => w \in idle \/ \E t \in Threads : epc[t] = "bump" /\ target[t] = w

\* Work is watched: the rendezvous of park() and schedule_and_wake.
Watched == \A s \in Shards : has_work(s) => InHand \/ \E w \in Workers : ~Passed(w, s)

\* Every step keeps work watched.  A wake_one that finds nobody idle proves that
\* every worker is still going to look.
LEMMA WatchedStep == ASSUME Shape, Announced, Watched, [Next]_vars PROVE Announced' /\ Watched'
  <1>a. /\ pc \in [Workers \cup {Backstop} -> WorkerPCs \cup {"round"}]
        /\ epc \in [Threads -> {"no", "link", "wake", "bump"}]
        /\ target \in [Threads -> Shards \cup Workers \cup {None}]
        /\ bumped \in [Workers -> BOOLEAN]
        /\ todo \in [Workers \cup {Backstop} -> SUBSET Shards]
        /\ idle \subseteq Workers
        /\ Backstop \notin Workers /\ Workers # {}
    BY ThreadsAssumption, WorkersAssumption DEF Shape, TypeOK
  <1>b. /\ lane \in [Shards -> Seq(Nodes)]
        /\ \A s \in Shards : Len(lane[s]) >= 1
        /\ \A w \in Workers : pc[w] \in SessionPCs => at[w] \in Shards
        /\ \A w \in Workers : pc[w] = "reload" => Len(lane[at[w]]) >= 2
        /\ Stub \in Nodes /\ Item \in Nodes
    BY DEF Shape, TypeOK, Placed, Fed, Nodes
  <1>. USE <1>a DEF Announced, Watched, Passed, InHand, has_work, Threads, Goto, enq, evict, stopvars
  <1>1. ASSUME NEW p \in Producers, NEW s \in Shards, Post(p, s) PROVE Announced' /\ Watched'
    BY <1>1 DEF Post, ScheduleOn
  <1>2. ASSUME NEW w \in Workers, NEW s \in Shards, HandlerPosts(w, s) PROVE Announced' /\ Watched'
    BY <1>2 DEF HandlerPosts, ScheduleOn
  <1>3. ASSUME NEW t \in Workers \cup {Backstop}, WheelFires(t) PROVE Announced' /\ Watched'
    BY <1>3 DEF WheelFires, ScheduleOn
  <1>4. ASSUME NEW t \in Threads, EnqueueLink(t) PROVE Announced' /\ Watched'
    BY <1>4 DEF EnqueueLink
  <1>5. ASSUME NEW t \in Threads, WakePick(t) PROVE Announced' /\ Watched'
    BY <1>5 DEF WakePick
  <1>6. ASSUME NEW t \in Threads, WakeBump(t) PROVE Announced' /\ Watched'
    <2>1. PICK v \in Workers : v = target[t]
      BY <1>6 DEF WakeBump, Shape, Calling
    <2>2. /\ bumped'[v] \/ pc[v] \notin {"rescan", "sleep"}
          /\ \A w \in Workers : bumped[w] => bumped'[w]
          /\ \A w \in Workers \ {v} : bumped'[w] = bumped[w]
      BY ZenonT(40), <1>6, <2>1 DEF WakeBump, Bump
    <2>. QED
      BY <1>6, <2>1, <2>2 DEF WakeBump
  <1>7. ASSUME NEW w \in Workers, NEW s \in Shards, VisitShard(w, s) PROVE Announced' /\ Watched'
    BY <1>7 DEF VisitShard
  <1>8. ASSUME NEW w \in Workers, NEW s \in Shards, RescanShard(w, s) PROVE Announced' /\ Watched'
    BY <1>8 DEF RescanShard
  <1>9. ASSUME NEW w \in Workers, SkipShard(w) PROVE Announced' /\ Watched'
    BY <1>9 DEF SkipShard, NextShard
  <1>10. ASSUME NEW w \in Workers, ScanFoundNothing(w) PROVE Announced' /\ Watched'
    BY <1>10 DEF ScanFoundNothing
  <1>11. ASSUME NEW w \in Workers, SpinSeesWork(w) PROVE Announced' /\ Watched'
    BY <1>11 DEF SpinSeesWork
  <1>12. ASSUME NEW w \in Workers, AnnounceIdle(w) PROVE Announced' /\ Watched'
    BY <1>12 DEF AnnounceIdle
  <1>13. ASSUME NEW w \in Workers, RescanDone(w) PROVE Announced' /\ Watched'
    BY <1>13 DEF RescanDone
  <1>14. ASSUME NEW w \in Workers, LeavePark(w) PROVE Announced' /\ Watched'
    BY <1>14 DEF LeavePark
  <1>15. ASSUME NEW w \in Workers, Checkpoint(w) PROVE Announced' /\ Watched'
    BY <1>15 DEF Checkpoint
  <1>16. ASSUME NEW w \in Workers, SelectItem(w) PROVE Announced' /\ Watched'
    BY <1>16 DEF SelectItem, RunItem
  <1>17. ASSUME NEW w \in Workers, SelectEmpty(w) PROVE Announced' /\ Watched'
    BY <1>17 DEF SelectEmpty
  <1>18. ASSUME NEW w \in Workers, SelectBusy(w) PROVE Announced' /\ Watched'
    BY <1>18 DEF SelectBusy
  <1>19. ASSUME NEW w \in Workers, SelectSingle(w) PROVE Announced' /\ Watched'
    BY <1>19 DEF SelectSingle
  <1>20. ASSUME NEW w \in Workers, RearmStub(w) PROVE Announced' /\ Watched'
    BY <1>20 DEF RearmStub
  <1>21. ASSUME NEW w \in Workers, ReloadItem(w) PROVE Announced' /\ Watched'
    BY <1>21 DEF ReloadItem, RunItem
  <1>22. ASSUME NEW w \in Workers, ReloadBusy(w) PROVE Announced' /\ Watched'
    BY <1>22 DEF ReloadBusy
  <1>23. ASSUME NEW w \in Workers, RunDone(w) PROVE Announced' /\ Watched'
    BY <1>23 DEF RunDone
  <1>24. ASSUME NEW w \in Workers, ReleaseDrain(w) PROVE Announced' /\ Watched'
    BY <1>24 DEF ReleaseDrain
  <1>25. ASSUME NEW w \in Workers, ClearRequest(w) PROVE Announced' /\ Watched'
    BY <1>25 DEF ClearRequest
  <1>26. ASSUME NEW w \in Workers, ProbeFindsWork(w) PROVE Announced' /\ Watched'
    BY <1>26 DEF ProbeFindsWork
  <1>27. ASSUME NEW w \in Workers, ProbeFindsNone(w) PROVE Announced' /\ Watched'
    BY <1>27 DEF ProbeFindsNone, SessionEnds, AfterSession
  <1>28. ASSUME NEW w \in Workers, RetakeDrain(w) PROVE Announced' /\ Watched'
    BY <1>28 DEF RetakeDrain
  <1>29. ASSUME NEW w \in Workers, RetakeFails(w) PROVE Announced' /\ Watched'
    BY <1>29 DEF RetakeFails, SessionEnds, AfterSession
  <1>30. ASSUME NEW w \in Workers, Vacate(w) PROVE Announced' /\ Watched'
    BY <1>30 DEF Vacate
  <1>31. ASSUME NEW w \in Workers, VacateClear(w) PROVE Announced' /\ Watched'
    BY <1>31 DEF VacateClear
  <1>32. ASSUME NEW w \in Workers, VacateAck(w) PROVE Announced' /\ Watched'
    BY <1>32 DEF VacateAck, SessionEnds, AfterSession
  <1>33. ASSUME NEW w \in Workers, StealProbe(w) PROVE Announced' /\ Watched'
    BY <1>33 DEF StealProbe
  <1>34. ASSUME NEW w \in Workers, StealBackOff(w) PROVE Announced' /\ Watched'
    BY <1>34 DEF StealBackOff, NextShard
  <1>35. ASSUME NEW w \in Workers, StealRequest(w) PROVE Announced' /\ Watched'
    BY <1>35 DEF StealRequest
  <1>36. ASSUME NEW w \in Workers, StealPost(w) PROVE Announced' /\ Watched'
    BY <1>36 DEF StealPost
  <1>37. ASSUME NEW w \in Workers, StealRefused(w) PROVE Announced' /\ Watched'
    BY <1>37 DEF StealRefused, NextShard
  <1>38. ASSUME NEW w \in Workers, StealTake(w) PROVE Announced' /\ Watched'
    BY <1>38 DEF StealTake
  <1>39. ASSUME NEW w \in Workers, StealTimeout(w) PROVE Announced' /\ Watched'
    BY <1>39 DEF StealTimeout, NextShard
  <1>40. ASSUME NEW s \in Shards, BackstopVisit(s) PROVE Announced' /\ Watched'
    BY <1>40 DEF BackstopVisit
  <1>41. ASSUME NEW s \in Shards, BackstopSkip(s) PROVE Announced' /\ Watched'
    BY <1>41 DEF BackstopSkip
  <1>42. ASSUME BackstopRound PROVE Announced' /\ Watched'
    BY <1>42 DEF BackstopRound
  <1>43. ASSUME BackstopRelease PROVE Announced' /\ Watched'
    BY <1>43 DEF BackstopRelease
  <1>44. ASSUME BackstopSleep PROVE Announced' /\ Watched'
    BY <1>44 DEF BackstopSleep
  <1>45. ASSUME Stop PROVE Announced' /\ Watched'
    BY <1>45 DEF Stop
  <1>46. ASSUME NEW w \in Workers, WakeAll(w) PROVE Announced' /\ Watched'
    BY <1>46 DEF WakeAll, Bump
  <1>47. CASE UNCHANGED vars
    BY <1>47 DEF vars
  <1>. QED
    BY <1>1, <1>2, <1>3, <1>4, <1>5, <1>6, <1>7, <1>8, <1>9, <1>10, <1>11, <1>12, <1>13, <1>14,
       <1>15, <1>16, <1>17, <1>18, <1>19, <1>20, <1>21, <1>22, <1>23, <1>24, <1>25, <1>26, <1>27,
       <1>28, <1>29, <1>30, <1>31, <1>32, <1>33, <1>34, <1>35, <1>36, <1>37, <1>38, <1>39, <1>40,
       <1>41, <1>42, <1>43, <1>44, <1>45, <1>46, <1>47 DEF Next, EnqueueStep, WorkerStep, BackstopStep

-----------------------------------------------------------------------------

\* A session that has not found the run-queue empty.
TendingPCs == {"top", "select", "rearm", "reload", "run"}

\* Entries in front of a stub at the tail belong to a session that will still
\* take them.
Tended == \A s \in Shards : Queued(s) /\ ~has_work(s) =>
             \E w \in Workers : at[w] = s /\ pc[w] \in TendingPCs

\* Every step keeps them tended, when a session neither gives up on a producer in
\* mid-publish (the spin limit) nor vacates between two activations (stealing).
LEMMA TendedStep == ASSUME ~SpinsOut, ~Steal, Shape, Tended, [Next]_vars PROVE Tended'
  <1>a. /\ pc \in [Workers \cup {Backstop} -> WorkerPCs \cup {"round"}]
        /\ at \in [Workers \cup {Backstop} -> Shards \cup {None}]
        /\ Backstop \notin Workers
        /\ pc[Backstop] \in {"sleep", "round", "wheel", "exited"}
    BY ThreadsAssumption DEF Shape, TypeOK, Placed
  <1>b. /\ lane \in [Shards -> Seq(Nodes)]
        /\ \A s \in Shards : Len(lane[s]) >= 1
        /\ \A w \in Workers : pc[w] \in TendingPCs => at[w] \in Shards
        /\ \A t \in Workers \cup {Backstop} : pc[t] = "wheel" => at[t] \in Shards
        /\ Stub \in Nodes /\ Item \in Nodes /\ Stub # Item /\ Stub \notin Threads
    BY ThreadsAssumption DEF Shape, TypeOK, Placed, Fed, Nodes, TendingPCs, SessionPCs
  <1>. USE <1>a DEF Tended, Queued, has_work, Threads, Goto, enq, evict, stopvars, TendingPCs
  <1>1. ASSUME NEW p \in Producers, NEW s \in Shards, Post(p, s) PROVE Tended'
    <2>1. Append(lane[s], p) \in Seq(Nodes) /\ Last(Append(lane[s], p)) = p
      BY <1>1, <1>b, AppendKeeps DEF Post, Nodes
    <2>2. \A r \in Shards : lane'[r] = lane[r] \/ Last(lane'[r]) # Stub
      BY <1>1, <1>b, <2>1 DEF Post, ScheduleOn
    <2>3. at' = at /\ pc' = pc
      BY <1>1 DEF Post
    <2>. QED
      BY <2>2, <2>3
  <1>2. ASSUME NEW w \in Workers, NEW s \in Shards, HandlerPosts(w, s) PROVE Tended'
    <2>1. Append(lane[s], w) \in Seq(Nodes) /\ Last(Append(lane[s], w)) = w
      BY <1>2, <1>b, AppendKeeps DEF HandlerPosts, Nodes
    <2>2. \A r \in Shards : lane'[r] = lane[r] \/ Last(lane'[r]) # Stub
      BY <1>2, <1>b, <2>1 DEF HandlerPosts, ScheduleOn
    <2>3. at' = at /\ pc' = pc
      BY <1>2 DEF HandlerPosts
    <2>. QED
      BY <2>2, <2>3
  <1>3. ASSUME NEW t \in Workers \cup {Backstop}, WheelFires(t) PROVE Tended'
    <2>1. Append(lane[at[t]], t) \in Seq(Nodes) /\ Last(Append(lane[at[t]], t)) = t
      BY <1>3, <1>b, AppendKeeps DEF WheelFires, Nodes
    <2>2. \A r \in Shards : lane'[r] = lane[r] \/ Last(lane'[r]) # Stub
      BY <1>3, <1>b, <2>1 DEF WheelFires, ScheduleOn
    <2>3. at' = at /\ pc' = pc
      BY <1>3 DEF WheelFires
    <2>. QED
      BY <2>2, <2>3
  <1>4. ASSUME NEW t \in Threads, EnqueueLink(t) PROVE Tended'
    <2>1. /\ target[t] \in Shards
          /\ lane' = [lane EXCEPT ![target[t]] = ReplaceAll(@, t, Item)]
      BY <1>4, LinkTarget DEF EnqueueLink, Shape
    <2>2. /\ Len(lane'[target[t]]) = Len(lane[target[t]])
          /\ \A i \in 1..Len(lane[target[t]]) : lane'[target[t]][i] = Stub <=> lane[target[t]][i] = Stub
          /\ Last(lane'[target[t]]) = Stub <=> Last(lane[target[t]]) = Stub
      BY <2>1, <1>b, LinkKeeps
    <2>3. \A r \in Shards : r # target[t] => lane'[r] = lane[r]
      BY <2>1, <1>b
    <2>4. \A r \in Shards : (Queued(r)' => Queued(r)) /\ (has_work(r) => has_work(r)')
      BY <2>2, <2>3
    <2>. QED
      BY <1>4, <2>4 DEF EnqueueLink
  <1>5. ASSUME NEW t \in Threads, WakePick(t) PROVE Tended'
    BY <1>5 DEF WakePick
  <1>6. ASSUME NEW t \in Threads, WakeBump(t) PROVE Tended'
    BY <1>6 DEF WakeBump, Bump
  <1>7. ASSUME NEW w \in Workers, NEW s \in Shards, VisitShard(w, s) PROVE Tended'
    BY <1>7 DEF VisitShard
  <1>8. ASSUME NEW w \in Workers, NEW s \in Shards, RescanShard(w, s) PROVE Tended'
    BY <1>8 DEF RescanShard
  <1>9. ASSUME NEW w \in Workers, SkipShard(w) PROVE Tended'
    BY <1>9 DEF SkipShard, NextShard
  <1>10. ASSUME NEW w \in Workers, ScanFoundNothing(w) PROVE Tended'
    BY <1>10 DEF ScanFoundNothing
  <1>11. ASSUME NEW w \in Workers, SpinSeesWork(w) PROVE Tended'
    BY <1>11 DEF SpinSeesWork
  <1>12. ASSUME NEW w \in Workers, AnnounceIdle(w) PROVE Tended'
    BY <1>12 DEF AnnounceIdle
  <1>13. ASSUME NEW w \in Workers, RescanDone(w) PROVE Tended'
    BY <1>13 DEF RescanDone
  <1>14. ASSUME NEW w \in Workers, LeavePark(w) PROVE Tended'
    BY <1>14 DEF LeavePark
  <1>15. ASSUME NEW w \in Workers, Checkpoint(w) PROVE Tended'
    BY <1>15 DEF Checkpoint
  <1>16. ASSUME NEW w \in Workers, SelectItem(w) PROVE Tended'
    BY <1>16 DEF SelectItem, RunItem
  <1>17. ASSUME NEW w \in Workers, SelectEmpty(w) PROVE Tended'
    BY <1>17 DEF SelectEmpty
  <1>18. ASSUME NEW w \in Workers, SelectBusy(w) PROVE Tended'
    BY <1>18 DEF SelectBusy
  <1>19. ASSUME NEW w \in Workers, SelectSingle(w) PROVE Tended'
    BY <1>19 DEF SelectSingle
  <1>20. ASSUME NEW w \in Workers, RearmStub(w) PROVE Tended'
    BY <1>20 DEF RearmStub
  <1>21. ASSUME NEW w \in Workers, ReloadItem(w) PROVE Tended'
    BY <1>21 DEF ReloadItem, RunItem
  <1>22. ASSUME NEW w \in Workers, ReloadBusy(w) PROVE Tended'
    BY <1>22 DEF ReloadBusy
  <1>23. ASSUME NEW w \in Workers, RunDone(w) PROVE Tended'
    <2>1. Append(lane[at[w]], Item) \in Seq(Nodes) /\ Last(Append(lane[at[w]], Item)) = Item
      BY <1>23, <1>b, AppendKeeps DEF RunDone, Nodes
    <2>2. \A r \in Shards : lane'[r] = lane[r] \/ Last(lane'[r]) # Stub
      BY <1>23, <1>b, <2>1 DEF RunDone
    <2>. QED
      BY <1>23, <2>2 DEF RunDone
  <1>24. ASSUME NEW w \in Workers, ReleaseDrain(w) PROVE Tended'
    BY <1>24 DEF ReleaseDrain
  <1>25. ASSUME NEW w \in Workers, ClearRequest(w) PROVE Tended'
    BY <1>25 DEF ClearRequest
  <1>26. ASSUME NEW w \in Workers, ProbeFindsWork(w) PROVE Tended'
    BY <1>26 DEF ProbeFindsWork
  <1>27. ASSUME NEW w \in Workers, ProbeFindsNone(w) PROVE Tended'
    BY <1>27 DEF ProbeFindsNone, SessionEnds, AfterSession
  <1>28. ASSUME NEW w \in Workers, RetakeDrain(w) PROVE Tended'
    BY <1>28 DEF RetakeDrain
  <1>29. ASSUME NEW w \in Workers, RetakeFails(w) PROVE Tended'
    BY <1>29 DEF RetakeFails, SessionEnds, AfterSession
  <1>30. ASSUME NEW w \in Workers, Vacate(w) PROVE Tended'
    BY <1>30 DEF Vacate
  <1>31. ASSUME NEW w \in Workers, VacateClear(w) PROVE Tended'
    BY <1>31 DEF VacateClear
  <1>32. ASSUME NEW w \in Workers, VacateAck(w) PROVE Tended'
    BY <1>32 DEF VacateAck, SessionEnds, AfterSession
  <1>33. ASSUME NEW w \in Workers, StealProbe(w) PROVE Tended'
    BY <1>33 DEF StealProbe
  <1>34. ASSUME NEW w \in Workers, StealBackOff(w) PROVE Tended'
    BY <1>34 DEF StealBackOff, NextShard
  <1>35. ASSUME NEW w \in Workers, StealRequest(w) PROVE Tended'
    BY <1>35 DEF StealRequest
  <1>36. ASSUME NEW w \in Workers, StealPost(w) PROVE Tended'
    BY <1>36 DEF StealPost
  <1>37. ASSUME NEW w \in Workers, StealRefused(w) PROVE Tended'
    BY <1>37 DEF StealRefused, NextShard
  <1>38. ASSUME NEW w \in Workers, StealTake(w) PROVE Tended'
    BY <1>38 DEF StealTake
  <1>39. ASSUME NEW w \in Workers, StealTimeout(w) PROVE Tended'
    BY <1>39 DEF StealTimeout, NextShard
  <1>40. ASSUME NEW s \in Shards, BackstopVisit(s) PROVE Tended'
    BY <1>40 DEF BackstopVisit
  <1>41. ASSUME NEW s \in Shards, BackstopSkip(s) PROVE Tended'
    BY <1>41 DEF BackstopSkip
  <1>42. ASSUME BackstopRound PROVE Tended'
    BY <1>42 DEF BackstopRound
  <1>43. ASSUME BackstopRelease PROVE Tended'
    BY <1>43 DEF BackstopRelease
  <1>44. ASSUME BackstopSleep PROVE Tended'
    BY <1>44 DEF BackstopSleep
  <1>45. ASSUME Stop PROVE Tended'
    BY <1>45 DEF Stop
  <1>46. ASSUME NEW w \in Workers, WakeAll(w) PROVE Tended'
    BY <1>46 DEF WakeAll, Bump
  <1>47. CASE UNCHANGED vars
    BY <1>47 DEF vars
  <1>. QED
    BY <1>1, <1>2, <1>3, <1>4, <1>5, <1>6, <1>7, <1>8, <1>9, <1>10, <1>11, <1>12, <1>13, <1>14,
       <1>15, <1>16, <1>17, <1>18, <1>19, <1>20, <1>21, <1>22, <1>23, <1>24, <1>25, <1>26, <1>27,
       <1>28, <1>29, <1>30, <1>31, <1>32, <1>33, <1>34, <1>35, <1>36, <1>37, <1>38, <1>39, <1>40,
       <1>41, <1>42, <1>43, <1>44, <1>45, <1>46, <1>47 DEF Next, EnqueueStep, WorkerStep, BackstopStep


-----------------------------------------------------------------------------
\* The inductive invariant.
IInv == Shape /\ Announced /\ Watched

\* It holds when the engine starts: lanes hold their stubs, nobody is idle.
LEMMA InitOK == ASSUME Init PROVE IInv
  <1>. USE ThreadsAssumption, BoundsAssumption DEF Init
  <1>1. TypeOK
    <2>1. lane \in [Shards -> Seq(Threads \cup {Stub, Item})]
      OBVIOUS
    <2>2. pc \in [Workers \cup {Backstop} -> WorkerPCs \cup {"round"}]
      BY DEF WorkerPCs
    <2>3. stopping \in BOOLEAN /\ moved \in [Workers -> BOOLEAN] /\ final \in [Workers -> BOOLEAN]
      BY Zenon
    <2>4. bumped \in [Workers -> BOOLEAN] /\ processed \in [Workers -> BOOLEAN]
      BY Zenon
    <2>. QED
      BY <2>1, <2>2, <2>3, <2>4 DEF TypeOK
  <1>2. Placed
    BY DEF Placed, SessionPCs, WorkerPCs
  <1>3. Calling /\ DrainExclusive /\ Fed
    BY DEF Calling, DrainExclusive, DrainPCs, Fed
  <1>4. Announced /\ Watched
    BY DEF Announced, Watched, has_work, Last
  <1>. QED
    BY <1>1, <1>2, <1>3, <1>4 DEF IInv, Shape

\* It holds throughout.
LEMMA Correct == Spec => []IInv
  <1>1. Init => IInv
    BY InitOK
  <1>2. IInv /\ [Next]_vars => IInv'
    BY ShapeStep, WatchedStep DEF IInv
  <1>. QED
    BY <1>1, <1>2, PTL DEF Spec

\* One thread at a time is inside a shard's drain session, through every
\* hand-over of the slot between workers, contenders and the backstop, and a
\* run-queue whose tail has moved is never left to workers that sleep (engine.hpp:
\* try_drain_shard, cooperative_evict, park, schedule_and_wake).
THEOREM SchedulerSafeHolds == Spec => []SchedulerSafe
  <1>1. IInv => SchedulerSafe
    BY WorkersAssumption DEF IInv, Shape, Watched, Passed, InHand, SleepersSawNoTail, SchedulerSafe
  <1>. QED
    BY <1>1, Correct, PTL


\* No lost wakeup: with cooperative eviction off and producers that publish
\* within the spin limit, workers never all sleep on queued work, though the
\* probe they trust looks at the tail only (park, has_work).
THEOREM SleepersHaveNoWorkHolds ==
    ASSUME ~SpinsOut, ~Steal PROVE Spec => []SleepersHaveNoWork
  <1>1. Init => Tended
    BY DEF Init, Tended, Queued
  <1>2. IInv /\ Tended /\ [Next]_vars => Tended'
    BY TendedStep DEF IInv
  <1>3. IInv /\ Tended => SleepersHaveNoWork
    BY WorkersAssumption DEF IInv, Watched, Passed, InHand, Tended, TendingPCs, SleepersHaveNoWork
  <1>. QED
    BY <1>1, <1>2, <1>3, Correct, PTL DEF Spec
=============================================================================
