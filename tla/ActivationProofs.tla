--------------------------- MODULE ActivationProofs --------------------------
(***************************************************************************)
(* Proofs about module Activation, for any numbers of producers, workers,  *)
(* carriers and messages, and any budget.                                  *)
(*                                                                         *)
(* The argument is an accounting of who holds the activation.  The exec-   *)
(* state word says which kind of thread that is, and the invariant says    *)
(* that there is exactly one: a run-queue entry or a thread about to make  *)
(* or claim one (Scheduled), an owner (Running), a carrier (Parked); and   *)
(* in the two states that nobody owns (Idle, Dormant) a non-empty mailbox  *)
(* has a thread that is still going to look at the word.                   *)
(***************************************************************************)
EXTENDS Activation, TLAPS

\* Running is held by exactly one thread.
Owned == /\ \A t \in Threads : pc[t] \in OwnerPCs => exec = "Running"
         /\ \A t, u \in Threads : pc[t] \in OwnerPCs /\ pc[u] \in OwnerPCs => t = u
         /\ exec = "Running" => \E t \in Threads : pc[t] \in OwnerPCs

\* A suspended handler has exactly one carrier, which passes the gate only
\* once its worker has parked.
Carried ==
    /\ \A t, u \in Threads : pc[t] \in CarrierPCs /\ pc[u] \in CarrierPCs => t = u
    /\ \A t \in Threads : pc[t] \in CarrierPCs \ {"gate"} => exec = "Parked"
    /\ \A t \in Threads : pc[t] = "gate" =>
          exec = "Parked" \/ \E u \in Threads : pc[u] \in {"write", "park"}
    /\ \A t \in Threads : pc[t] \in {"write", "park"} => \E u \in Threads : pc[u] = "gate"
    /\ \A t \in Threads : pc[t] \in CarrierPCs => awaits >= 1
    /\ \A t \in Threads : pc[t] \in {"check", "finish"} => frame \in {"done", "faulted"}
    /\ exec = "Parked" => \E t \in Threads : pc[t] \in CarrierPCs

\* Unowned work is watched: the two Dekker rendezvous of the close-outs.
Watched ==
    /\ exec = "Idle" /\ queue # <<>> => \E t \in Threads : pc[t] \in WatchesIdle
    /\ exec = "Dormant" /\ queue # <<>> => \E t \in Threads : pc[t] \in WatchesDormant

\* The inductive invariant of the control part.
ControlInv == Owned /\ ScheduledOnce /\ Carried /\ Watched

IInv == TypeOK /\ ControlInv

-----------------------------------------------------------------------------

\* Every step keeps the variables in their types (the parked slot only ever
\* gets the message of the handler that suspends).
LEMMA TypeStep == ASSUME TypeOK, [Next]_vars PROVE TypeOK'
  <1>. USE DEF TypeOK, ExecStates, PCs, Items, Threads, Goto, Cas, framevars, msgvars
  <1>1. ASSUME NEW p \in Producers, NEW m \in Msgs, PostExchange(p, m) PROVE TypeOK'
    BY <1>1 DEF PostExchange
  <1>2. ASSUME NEW p \in Producers, DeactivateExchange(p) PROVE TypeOK'
    BY <1>2 DEF DeactivateExchange
  <1>3. ASSUME NEW p \in Producers, PostLink(p) PROVE TypeOK'
    BY <1>3 DEF PostLink
  <1>4. ASSUME NEW p \in Producers, WakeLoad(p) PROVE TypeOK'
    BY <1>4 DEF WakeLoad
  <1>5. ASSUME NEW p \in Producers, WakeCas(p) PROVE TypeOK'
    BY <1>5 DEF WakeCas
  <1>6. ASSUME NEW p \in Producers, WakeRecheck(p) PROVE TypeOK'
    BY <1>6 DEF WakeRecheck
  <1>7. ASSUME NEW p \in Producers, WakeReadmit(p) PROVE TypeOK'
    BY <1>7 DEF WakeReadmit
  <1>8. ASSUME NEW p \in Producers, ClaimDeactivate(p) PROVE TypeOK'
    BY <1>8 DEF ClaimDeactivate
  <1>9. ASSUME NEW t \in Threads, Schedule(t) PROVE TypeOK'
    BY <1>9 DEF Schedule
  <1>10. ASSUME NEW m \in Msgs, Cancel(m) PROVE TypeOK'
    BY <1>10 DEF Cancel
  <1>11. ASSUME NEW w \in Workers, PopRunQueue(w) PROVE TypeOK'
    BY <1>11 DEF PopRunQueue
  <1>12. ASSUME NEW w \in Workers, TryAcquire(w) PROVE TypeOK'
    BY <1>12, BudgetAssumption DEF TryAcquire
  <1>13. ASSUME NEW w \in Workers, DrainTombstone(w) PROVE TypeOK'
    BY <1>13, BudgetAssumption DEF DrainTombstone, CanTake
  <1>14. ASSUME NEW w \in Workers, DrainDeactivate(w) PROVE TypeOK'
    <2>1. queue' \in Seq(Items) /\ remaining' \in 0..Budget
      BY <1>14, BudgetAssumption DEF DrainDeactivate, CanTake
    <2>2. retire' \in BOOLEAN /\ token' \in BOOLEAN
      BY <1>14, Zenon DEF DrainDeactivate
    <2>. QED
      BY <1>14, <2>1, <2>2 DEF DrainDeactivate
  <1>15. ASSUME NEW w \in Workers, DrainStopped(w) PROVE TypeOK'
    BY <1>15, BudgetAssumption DEF DrainStopped, CanTake
  <1>16. ASSUME NEW w \in Workers, Dispatch(w) PROVE TypeOK'
    BY <1>16, BudgetAssumption, AwaitsAssumption DEF Dispatch, CanTake
  <1>17. ASSUME NEW w \in Workers, HandlerReturn(w) PROVE TypeOK'
    <2>1. stopped' \in BOOLEAN
      BY <1>17, Zenon DEF HandlerReturn, Complete, OnFault
    <2>2. mst' \in [Msgs -> {"new", "queued", "cancelled", "running", "done", "dead"}]
      BY <1>17 DEF HandlerReturn, Complete, OnFault
    <2>3. reclaims' \in [Msgs -> Nat]
      BY <1>17 DEF HandlerReturn, Complete, OnFault
    <2>. QED
      BY <1>17, <2>1, <2>2, <2>3 DEF HandlerReturn
  <1>18. ASSUME NEW w \in Workers, WriteParked(w) PROVE TypeOK'
    BY <1>18 DEF WriteParked
  <1>19. ASSUME NEW w \in Workers, Park(w) PROVE TypeOK'
    BY <1>19 DEF Park
  <1>20. ASSUME NEW w \in Workers, GiveUpTurn(w) PROVE TypeOK'
    BY <1>20 DEF GiveUpTurn
  <1>21. ASSUME NEW w \in Workers, YieldToScheduled(w) PROVE TypeOK'
    BY <1>21 DEF YieldToScheduled
  <1>22. ASSUME NEW w \in Workers, Requeue(w) PROVE TypeOK'
    BY <1>22 DEF Requeue
  <1>23. ASSUME NEW w \in Workers, DrainedEmpty(w) PROVE TypeOK'
    BY ZenonT(40), <1>23 DEF DrainedEmpty
  <1>24. ASSUME NEW w \in Workers, ReleaseToIdle(w) PROVE TypeOK'
    BY <1>24 DEF ReleaseToIdle
  <1>25. ASSUME NEW w \in Workers, ProbeIdle(w) PROVE TypeOK'
    BY <1>25 DEF ProbeIdle
  <1>26. ASSUME NEW w \in Workers, ReacquireIdle(w) PROVE TypeOK'
    BY <1>26, BudgetAssumption DEF ReacquireIdle
  <1>27. ASSUME NEW w \in Workers, DeactivateHook(w) PROVE TypeOK'
    BY <1>27 DEF DeactivateHook
  <1>28. ASSUME NEW w \in Workers, RetireToDormant(w) PROVE TypeOK'
    BY <1>28 DEF RetireToDormant
  <1>29. ASSUME NEW w \in Workers, ProbeDormant(w) PROVE TypeOK'
    BY <1>29 DEF ProbeDormant
  <1>30. ASSUME NEW w \in Workers, ReacquireDormant(w) PROVE TypeOK'
    BY <1>30, BudgetAssumption DEF ReacquireDormant
  <1>31. ASSUME NEW w \in Workers, NEW c \in Carriers, HandlerSuspend(w, c) PROVE TypeOK'
    BY SMTT(30), <1>31, AwaitsAssumption DEF HandlerSuspend
  <1>32. ASSUME NEW c \in Carriers, CarrierGate(c) PROVE TypeOK'
    BY <1>32 DEF CarrierGate
  <1>33. ASSUME NEW c \in Carriers, CarrierFinishFrame(c) PROVE TypeOK'
    BY <1>33 DEF CarrierFinishFrame
  <1>34. ASSUME NEW c \in Carriers, CarrierCheck(c) PROVE TypeOK'
    BY SMTT(30), <1>34 DEF CarrierCheck
  <1>35. ASSUME NEW c \in Carriers, CarrierFinish(c) PROVE TypeOK'
    <2>1. stopped' \in BOOLEAN
      BY <1>35, Zenon DEF CarrierFinish, Complete, OnFault
    <2>2. mst' \in [Msgs -> {"new", "queued", "cancelled", "running", "done", "dead"}]
      BY <1>35 DEF CarrierFinish, Complete, OnFault
    <2>3. reclaims' \in [Msgs -> Nat]
      BY <1>35 DEF CarrierFinish, Complete, OnFault
    <2>. QED
      BY <1>35, <2>1, <2>2, <2>3 DEF CarrierFinish
  <1>36. ASSUME NEW c \in Carriers, CarrierReadmit(c) PROVE TypeOK'
    BY <1>36 DEF CarrierReadmit
  <1>37. ASSUME NEW c \in Carriers, NEW e \in Carriers, CarrierSuspend(c, e) PROVE TypeOK'
    BY SMTT(30), <1>37, AwaitsAssumption DEF CarrierSuspend
  <1>38. CASE UNCHANGED vars
    BY <1>38 DEF vars
  <1>. QED
    BY <1>1, <1>2, <1>3, <1>4, <1>5, <1>6, <1>7, <1>8, <1>9, <1>10,
       <1>11, <1>12, <1>13, <1>14, <1>15, <1>16, <1>17, <1>18, <1>19, <1>20,
       <1>21, <1>22, <1>23, <1>24, <1>25, <1>26, <1>27, <1>28, <1>29, <1>30,
       <1>31, <1>32, <1>33, <1>34, <1>35, <1>36, <1>37, <1>38 DEF Next, AwaitingOnce, PostStep, WorkerStep, CarrierStep, Threads

\* Every step keeps the accounting, provided no handler suspends twice.
LEMMA ControlStep == ASSUME MaxAwaits <= 1, TypeOK, ControlInv, [Next]_vars PROVE ControlInv'
  <1>. USE DEF TypeOK, ControlInv, Owned, ScheduledOnce, Carried, Watched, Holds, ExecStates, PCs,
               OwnerPCs, HolderPCs, CarrierPCs, WatchesIdle, WatchesDormant, Threads, Goto, Cas,
               framevars, msgvars
  <1>1. ASSUME NEW p \in Producers, NEW m \in Msgs, PostExchange(p, m) PROVE ControlInv'
    BY ZenonT(40), <1>1 DEF PostExchange
  <1>2. ASSUME NEW p \in Producers, DeactivateExchange(p) PROVE ControlInv'
    BY SMTT(30), <1>2 DEF DeactivateExchange
  <1>3. ASSUME NEW p \in Producers, PostLink(p) PROVE ControlInv'
    BY <1>3 DEF PostLink
  <1>4. ASSUME NEW p \in Producers, WakeLoad(p) PROVE ControlInv'
    BY <1>4 DEF WakeLoad
  <1>5. ASSUME NEW p \in Producers, WakeCas(p) PROVE ControlInv'
    BY <1>5 DEF WakeCas
  <1>6. ASSUME NEW p \in Producers, WakeRecheck(p) PROVE ControlInv'
    BY <1>6 DEF WakeRecheck
  <1>7. ASSUME NEW p \in Producers, WakeReadmit(p) PROVE ControlInv'
    BY <1>7 DEF WakeReadmit
  <1>8. ASSUME NEW p \in Producers, ClaimDeactivate(p) PROVE ControlInv'
    BY <1>8 DEF ClaimDeactivate
  <1>9. ASSUME NEW t \in Threads, Schedule(t) PROVE ControlInv'
    BY <1>9 DEF Schedule
  <1>10. ASSUME NEW m \in Msgs, Cancel(m) PROVE ControlInv'
    BY <1>10 DEF Cancel
  <1>11. ASSUME NEW w \in Workers, PopRunQueue(w) PROVE ControlInv'
    BY SMTT(30), <1>11 DEF PopRunQueue
  <1>12. ASSUME NEW w \in Workers, TryAcquire(w) PROVE ControlInv'
    BY <1>12 DEF TryAcquire
  <1>13. ASSUME NEW w \in Workers, DrainTombstone(w) PROVE ControlInv'
    BY <1>13 DEF DrainTombstone, CanTake
  <1>14. ASSUME NEW w \in Workers, DrainDeactivate(w) PROVE ControlInv'
    BY <1>14 DEF DrainDeactivate, CanTake
  <1>15. ASSUME NEW w \in Workers, DrainStopped(w) PROVE ControlInv'
    BY <1>15 DEF DrainStopped, CanTake
  <1>16. ASSUME NEW w \in Workers, Dispatch(w) PROVE ControlInv'
    <2>1. \A t \in Threads : pc[t] \notin CarrierPCs
      BY <1>16 DEF Dispatch
    <2>2. Carried'
      BY <1>16, <2>1 DEF Dispatch
    <2>. QED
      BY <1>16, <2>2 DEF Dispatch
  <1>17. ASSUME NEW w \in Workers, HandlerReturn(w) PROVE ControlInv'
    BY <1>17 DEF HandlerReturn, Complete, OnFault
  <1>18. ASSUME NEW w \in Workers, WriteParked(w) PROVE ControlInv'
    BY <1>18 DEF WriteParked
  <1>19. ASSUME NEW w \in Workers, Park(w) PROVE ControlInv'
    BY <1>19 DEF Park
  <1>20. ASSUME NEW w \in Workers, GiveUpTurn(w) PROVE ControlInv'
    BY <1>20 DEF GiveUpTurn
  <1>21. ASSUME NEW w \in Workers, YieldToScheduled(w) PROVE ControlInv'
    BY <1>21 DEF YieldToScheduled
  <1>22. ASSUME NEW w \in Workers, Requeue(w) PROVE ControlInv'
    BY <1>22 DEF Requeue
  <1>23. ASSUME NEW w \in Workers, DrainedEmpty(w) PROVE ControlInv'
    BY <1>23 DEF DrainedEmpty
  <1>24. ASSUME NEW w \in Workers, ReleaseToIdle(w) PROVE ControlInv'
    BY <1>24 DEF ReleaseToIdle
  <1>25. ASSUME NEW w \in Workers, ProbeIdle(w) PROVE ControlInv'
    BY <1>25 DEF ProbeIdle
  <1>26. ASSUME NEW w \in Workers, ReacquireIdle(w) PROVE ControlInv'
    BY <1>26 DEF ReacquireIdle
  <1>27. ASSUME NEW w \in Workers, DeactivateHook(w) PROVE ControlInv'
    BY <1>27 DEF DeactivateHook
  <1>28. ASSUME NEW w \in Workers, RetireToDormant(w) PROVE ControlInv'
    BY <1>28 DEF RetireToDormant
  <1>29. ASSUME NEW w \in Workers, ProbeDormant(w) PROVE ControlInv'
    BY <1>29 DEF ProbeDormant
  <1>30. ASSUME NEW w \in Workers, ReacquireDormant(w) PROVE ControlInv'
    BY <1>30 DEF ReacquireDormant
  <1>31. ASSUME NEW w \in Workers, NEW c \in Carriers, HandlerSuspend(w, c) PROVE ControlInv'
    <2>1. \A t \in Threads : pc[t] \notin CarrierPCs
      BY <1>31 DEF HandlerSuspend
    <2>2. awaits' >= 1
      BY <1>31, AwaitsAssumption DEF HandlerSuspend
    <2>3. Carried'
      BY <1>31, <2>1, <2>2 DEF HandlerSuspend
    <2>. QED
      BY <1>31, <2>1, <2>3 DEF HandlerSuspend
  <1>32. ASSUME NEW c \in Carriers, CarrierGate(c) PROVE ControlInv'
    BY <1>32 DEF CarrierGate
  <1>33. ASSUME NEW c \in Carriers, CarrierFinishFrame(c) PROVE ControlInv'
    BY <1>33 DEF CarrierFinishFrame
  <1>34. ASSUME NEW c \in Carriers, CarrierCheck(c) PROVE ControlInv'
    BY <1>34 DEF CarrierCheck
  <1>35. ASSUME NEW c \in Carriers, CarrierFinish(c) PROVE ControlInv'
    BY <1>35 DEF CarrierFinish, Complete, OnFault
  <1>36. ASSUME NEW c \in Carriers, CarrierReadmit(c) PROVE ControlInv'
    BY <1>36 DEF CarrierReadmit
  <1>37. ASSUME NEW c \in Carriers, NEW e \in Carriers, CarrierSuspend(c, e) PROVE ControlInv'
    BY <1>37, AwaitsAssumption DEF CarrierSuspend
  <1>38. CASE UNCHANGED vars
    BY <1>38 DEF vars
  <1>. QED
    BY <1>1, <1>2, <1>3, <1>4, <1>5, <1>6, <1>7, <1>8, <1>9, <1>10,
       <1>11, <1>12, <1>13, <1>14, <1>15, <1>16, <1>17, <1>18, <1>19, <1>20,
       <1>21, <1>22, <1>23, <1>24, <1>25, <1>26, <1>27, <1>28, <1>29, <1>30,
       <1>31, <1>32, <1>33, <1>34, <1>35, <1>36, <1>37, <1>38 DEF Next, AwaitingOnce, PostStep, WorkerStep, CarrierStep, Threads

-----------------------------------------------------------------------------

\* The initial state is well typed.
LEMMA TypeInit == ASSUME Init PROVE TypeOK
  <1>1. retire \in BOOLEAN /\ token \in BOOLEAN /\ stopped \in BOOLEAN
    BY Zenon DEF Init
  <1>2. remaining \in 0..Budget /\ awaits \in 0..MaxAwaits
    BY BudgetAssumption, AwaitsAssumption DEF Init
  <1>3. pc \in [Threads -> PCs] /\ item \in [Threads -> Items \cup {None}]
    BY DEF Init, PCs
  <1>4. exec \in ExecStates /\ runq \in Nat /\ parked \in Items \cup {None}
    BY DEF Init, ExecStates
  <1>5. queue \in Seq(Items)
    BY DEF Init
  <1>. QED
    BY <1>1, <1>2, <1>3, <1>4, <1>5 DEF Init, TypeOK

\* The variables of an activation keep their types (activation.hpp).
THEOREM TypeCorrect == Spec => []TypeOK
  <1>1. Init => TypeOK
    BY TypeInit
  <1>2. TypeOK /\ [Next]_vars => TypeOK'
    BY TypeStep
  <1>. QED
    BY <1>1, <1>2, PTL DEF Spec

\* The accounting holds throughout, when a handler suspends at most once.
LEMMA ControlCorrect == ASSUME MaxAwaits <= 1 PROVE Spec => []IInv
  <1>1. Init => IInv
    <2>1. Init => TypeOK
      BY TypeInit
    <2>2. Init => ControlInv
      BY DEF Init, ControlInv, Owned, ScheduledOnce, Carried, Watched, Holds, OwnerPCs, HolderPCs,
             CarrierPCs
    <2>. QED
      BY <2>1, <2>2 DEF IInv
  <1>2. IInv /\ [Next]_vars => IInv'
    BY TypeStep, ControlStep DEF IInv
  <1>. QED
    BY <1>1, <1>2, PTL DEF Spec

\* Single executor: whoever touches the actor holds it alone, by the seal of
\* the exec-state word and not by a shard's drain ownership.
THEOREM SingleExecutorHolds == ASSUME MaxAwaits <= 1 PROVE Spec => []SingleExecutor
  <1>1. IInv => SingleExecutor
    BY DEF IInv, TypeOK, ControlInv, Owned, Carried, SingleExecutor, Touches, OwnerPCs, CarrierPCs
  <1>. QED
    BY <1>1, ControlCorrect, PTL

\* A scheduled activation is in exactly one run-queue, once.
THEOREM ScheduledOnceHolds == ASSUME MaxAwaits <= 1 PROVE Spec => []ScheduledOnce
  <1>1. IInv => ScheduledOnce
    BY DEF IInv, ControlInv
  <1>. QED
    BY <1>1, ControlCorrect, PTL

\* No wakeup is lost, neither at the Idle nor at the Dormant close-out nor
\* when a completion races with parking.
THEOREM NoLostWakeupHolds == ASSUME MaxAwaits <= 1 PROVE Spec => []NoLostWakeup
  <1>1. IInv => NoLostWakeup
    BY DEF IInv, ControlInv, Owned, Carried, Watched, NoLostWakeup
  <1>. QED
    BY <1>1, ControlCorrect, PTL

-----------------------------------------------------------------------------
(* Messages are settled once.                                              *)

InMailbox(x) == \E i \in 1..Len(queue) : queue[i] = x

\* A descriptor is linked once, and a linked message was not settled yet.
Linked == /\ \A i, j \in 1..Len(queue) : queue[i] = queue[j] => i = j
          /\ \A m \in Msgs : InMailbox(m) => mst[m] \in {"queued", "cancelled"} /\ reclaims[m] = 0

\* The message of the handler in progress is with the one thread that runs it,
\* or in the parked slot that thread left for its carrier.
Held == /\ \A t \in Threads : pc[t] \in {"handler", "write", "running", "check", "finish"} =>
              item[t] \in Msgs /\ mst[item[t]] = "running"
        /\ \A t \in Threads : pc[t] = "park" => parked \in Msgs /\ mst[parked] = "running"
        /\ exec = "Parked" =>
              \A t \in Threads : pc[t] = "gate" => parked \in Msgs /\ mst[parked] = "running"

\* The control descriptor belongs to whoever won the token, until it is drained.
Tagged == /\ \A p, q \in Producers : pc[p] = "tagged" /\ pc[q] = "tagged" => p = q
          /\ \A p \in Producers : pc[p] = "tagged" => token /\ ~InMailbox(Deact)
          /\ InMailbox(Deact) => token

SettledInv == Linked /\ Held /\ Tagged /\ ReclaimedOnce

\* The oldest descriptor leaves the mailbox, for good.
LEMMA TakeHead == ASSUME NEW q \in Seq(Items), q # <<>>,
                         \A i, j \in 1..Len(q) : q[i] = q[j] => i = j
                  PROVE /\ Head(q) \in Items /\ Tail(q) \in Seq(Items)
                        /\ \E i \in 1..Len(q) : q[i] = Head(q)
                        /\ \A i, j \in 1..Len(Tail(q)) : Tail(q)[i] = Tail(q)[j] => i = j
                        /\ \A i \in 1..Len(Tail(q)) : Tail(q)[i] # Head(q)
                        /\ \A i \in 1..Len(Tail(q)) : \E j \in 1..Len(q) : Tail(q)[i] = q[j]
  <1>1. /\ Head(q) = q[1] /\ Len(q) \in Nat /\ Len(q) >= 1 /\ Tail(q) \in Seq(Items)
        /\ Len(Tail(q)) = Len(q) - 1
        /\ \A i \in 1..Len(Tail(q)) : Tail(q)[i] = q[i + 1]
    OBVIOUS
  <1>. QED
    BY <1>1

\* A descriptor that is not in the mailbox is linked at its end.
LEMMA PutLast == ASSUME NEW q \in Seq(Items), NEW x \in Items,
                        \A i, j \in 1..Len(q) : q[i] = q[j] => i = j,
                        \A i \in 1..Len(q) : q[i] # x
                 PROVE /\ \A i, j \in 1..Len(Append(q, x)) : Append(q, x)[i] = Append(q, x)[j] => i = j
                       /\ \A i \in 1..Len(Append(q, x)) :
                             Append(q, x)[i] = x \/ \E j \in 1..Len(q) : Append(q, x)[i] = q[j]
  <1>1. /\ Len(Append(q, x)) = Len(q) + 1 /\ Len(q) \in Nat
        /\ \A i \in 1..Len(q) : Append(q, x)[i] = q[i]
        /\ Append(q, x)[Len(q) + 1] = x
    BY SMTT(30)
  <1>. QED
    BY SMTT(30), <1>1

\* Every step keeps messages settled once, provided no handler suspends twice.
LEMMA SettledStep == ASSUME MaxAwaits <= 1, IInv, SettledInv, [Next]_vars PROVE SettledInv'
  <1>a. /\ queue \in Seq(Items) /\ pc \in [Threads -> PCs]
        /\ item \in [Threads -> Items \cup {None}]
        /\ mst \in [Msgs -> {"new", "queued", "cancelled", "running", "done", "dead"}]
        /\ reclaims \in [Msgs -> Nat] /\ token \in BOOLEAN
        /\ exec \in ExecStates
    BY DEF IInv, TypeOK
  <1>b. /\ \A t, u \in Threads : pc[t] \in OwnerPCs /\ pc[u] \in OwnerPCs => t = u
        /\ \A t \in Threads : pc[t] \in OwnerPCs => exec = "Running"
        /\ \A t, u \in Threads : pc[t] \in CarrierPCs /\ pc[u] \in CarrierPCs => t = u
        /\ \A t \in Threads : pc[t] \in CarrierPCs \ {"gate"} => exec = "Parked"
        /\ \A t \in Threads : pc[t] = "gate" =>
              exec = "Parked" \/ \E u \in Threads : pc[u] \in {"write", "park"}
    BY DEF IInv, ControlInv, Owned, Carried
  <1>. USE <1>a, <1>b, ItemsAssumption DEF SettledInv, Linked, Held, Tagged, ReclaimedOnce, InMailbox, Items, PCs,
               OwnerPCs, CarrierPCs, ExecStates, Threads, Goto, Cas, framevars, msgvars
  <1>1. ASSUME NEW p \in Producers, NEW m \in Msgs, PostExchange(p, m) PROVE SettledInv'
    <2>1. /\ queue' = Append(queue, m) /\ pc[p] = "idle" /\ pc' = [pc EXCEPT ![p] = "link"]
          /\ mst[m] = "new" /\ mst' = [mst EXCEPT ![m] = "queued"] /\ item' = [item EXCEPT ![p] = m]
          /\ UNCHANGED <<exec, parked, token, reclaims>>
      BY <1>1 DEF PostExchange
    <2>2. \A i \in 1..Len(queue) : queue[i] # m
      BY <2>1
    <2>3. /\ \A i, j \in 1..Len(queue') : queue'[i] = queue'[j] => i = j
          /\ \A i \in 1..Len(queue') : queue'[i] = m \/ \E j \in 1..Len(queue) : queue'[i] = queue[j]
      <3>1. queue \in Seq(Items) /\ m \in Items
        OBVIOUS
      <3>. HIDE DEF Items
      <3>. QED
        BY <2>1, <2>2, <3>1, PutLast
    <2>4. Linked' /\ Tagged'
      BY <2>1, <2>3
    <2>5. Held' /\ ReclaimedOnce'
      BY <2>1
    <2>. QED
      BY <2>4, <2>5
  <1>2. ASSUME NEW p \in Producers, DeactivateExchange(p) PROVE SettledInv'
    BY <1>2 DEF DeactivateExchange
  <1>3. ASSUME NEW p \in Producers, PostLink(p) PROVE SettledInv'
    BY <1>3 DEF PostLink
  <1>4. ASSUME NEW p \in Producers, WakeLoad(p) PROVE SettledInv'
    BY <1>4 DEF WakeLoad
  <1>5. ASSUME NEW p \in Producers, WakeCas(p) PROVE SettledInv'
    BY <1>5 DEF WakeCas
  <1>6. ASSUME NEW p \in Producers, WakeRecheck(p) PROVE SettledInv'
    BY <1>6 DEF WakeRecheck
  <1>7. ASSUME NEW p \in Producers, WakeReadmit(p) PROVE SettledInv'
    BY <1>7 DEF WakeReadmit
  <1>8. ASSUME NEW p \in Producers, ClaimDeactivate(p) PROVE SettledInv'
    BY <1>8 DEF ClaimDeactivate
  <1>9. ASSUME NEW t \in Threads, Schedule(t) PROVE SettledInv'
    BY <1>9 DEF Schedule
  <1>10. ASSUME NEW m \in Msgs, Cancel(m) PROVE SettledInv'
    BY <1>10 DEF Cancel
  <1>11. ASSUME NEW w \in Workers, PopRunQueue(w) PROVE SettledInv'
    BY <1>11 DEF PopRunQueue
  <1>12. ASSUME NEW w \in Workers, TryAcquire(w) PROVE SettledInv'
    BY <1>12 DEF TryAcquire
  <1>13. ASSUME NEW w \in Workers, DrainTombstone(w) PROVE SettledInv'
    BY <1>13 DEF DrainTombstone, CanTake
  <1>14. ASSUME NEW w \in Workers, DrainDeactivate(w) PROVE SettledInv'
    <2>1. /\ queue # <<>> /\ Head(queue) = Deact /\ queue' = Tail(queue) /\ token' = FALSE
          /\ UNCHANGED <<pc, item, parked, exec, mst, reclaims>>
      BY <1>14 DEF DrainDeactivate, CanTake
    <2>2. /\ \A i, j \in 1..Len(queue') : queue'[i] = queue'[j] => i = j
          /\ \A i \in 1..Len(queue') : queue'[i] # Deact
          /\ \A i \in 1..Len(queue') : \E j \in 1..Len(queue) : queue'[i] = queue[j]
      BY SMTT(30), <2>1, TakeHead
    <2>3. Linked'
      BY <2>1, <2>2
    <2>4. \A p \in Producers : pc[p] # "tagged"
      <3>1. InMailbox(Deact)
        BY <2>1, TakeHead
      <3>. QED
        BY <3>1
    <2>5. Tagged'
      BY <2>1, <2>2, <2>4
    <2>. QED
      BY <2>1, <2>3, <2>5
  <1>15. ASSUME NEW w \in Workers, DrainStopped(w) PROVE SettledInv'
    BY <1>15 DEF DrainStopped, CanTake
  <1>16. ASSUME NEW w \in Workers, Dispatch(w) PROVE SettledInv'
    BY <1>16 DEF Dispatch, CanTake
  <1>17. ASSUME NEW w \in Workers, HandlerReturn(w) PROVE SettledInv'
    <2>1. /\ item[w] \in Msgs /\ pc[w] = "handler" /\ pc' = [pc EXCEPT ![w] = "drain"]
          /\ item' = [item EXCEPT ![w] = None] /\ UNCHANGED <<queue, token, parked, exec>>
      BY <1>17 DEF HandlerReturn
    <2>2. PICK x \in {"done", "dead"} : mst' = [mst EXCEPT ![item[w]] = x]
      BY <1>17 DEF HandlerReturn, Complete, OnFault
    <2>3. reclaims' = [reclaims EXCEPT ![item[w]] = @ + 1]
      BY <1>17 DEF HandlerReturn, Complete, OnFault
    <2>4. \A t \in Threads : pc[t] \in OwnerPCs \cup CarrierPCs => t = w
      BY <2>1
    <2>5. ~InMailbox(item[w]) /\ reclaims[item[w]] = 0
      BY <2>1
    <2>6. Linked' /\ ReclaimedOnce'
      BY <2>1, <2>2, <2>3, <2>5
    <2>7. Held'
      BY <2>1, <2>4
    <2>. QED
      BY <2>1, <2>6, <2>7
  <1>18. ASSUME NEW w \in Workers, WriteParked(w) PROVE SettledInv'
    BY <1>18 DEF WriteParked
  <1>19. ASSUME NEW w \in Workers, Park(w) PROVE SettledInv'
    BY <1>19 DEF Park
  <1>20. ASSUME NEW w \in Workers, GiveUpTurn(w) PROVE SettledInv'
    BY <1>20 DEF GiveUpTurn
  <1>21. ASSUME NEW w \in Workers, YieldToScheduled(w) PROVE SettledInv'
    BY <1>21 DEF YieldToScheduled
  <1>22. ASSUME NEW w \in Workers, Requeue(w) PROVE SettledInv'
    BY <1>22 DEF Requeue
  <1>23. ASSUME NEW w \in Workers, DrainedEmpty(w) PROVE SettledInv'
    BY <1>23 DEF DrainedEmpty
  <1>24. ASSUME NEW w \in Workers, ReleaseToIdle(w) PROVE SettledInv'
    BY <1>24 DEF ReleaseToIdle
  <1>25. ASSUME NEW w \in Workers, ProbeIdle(w) PROVE SettledInv'
    BY <1>25 DEF ProbeIdle
  <1>26. ASSUME NEW w \in Workers, ReacquireIdle(w) PROVE SettledInv'
    BY <1>26 DEF ReacquireIdle
  <1>27. ASSUME NEW w \in Workers, DeactivateHook(w) PROVE SettledInv'
    BY <1>27 DEF DeactivateHook
  <1>28. ASSUME NEW w \in Workers, RetireToDormant(w) PROVE SettledInv'
    BY <1>28 DEF RetireToDormant
  <1>29. ASSUME NEW w \in Workers, ProbeDormant(w) PROVE SettledInv'
    BY <1>29 DEF ProbeDormant
  <1>30. ASSUME NEW w \in Workers, ReacquireDormant(w) PROVE SettledInv'
    BY <1>30 DEF ReacquireDormant
  <1>31. ASSUME NEW w \in Workers, NEW c \in Carriers, HandlerSuspend(w, c) PROVE SettledInv'
    BY <1>31 DEF HandlerSuspend
  <1>32. ASSUME NEW c \in Carriers, CarrierGate(c) PROVE SettledInv'
    BY <1>32 DEF CarrierGate
  <1>33. ASSUME NEW c \in Carriers, CarrierFinishFrame(c) PROVE SettledInv'
    BY <1>33 DEF CarrierFinishFrame
  <1>34. ASSUME NEW c \in Carriers, CarrierCheck(c) PROVE SettledInv'
    <2>1. CASE Goto(c, "check", "idle") /\ item' = [item EXCEPT ![c] = None]
      BY <1>34, <2>1 DEF CarrierCheck
    <2>2. CASE Goto(c, "check", "finish") /\ item' = item
      BY <1>34, <2>2 DEF CarrierCheck
    <2>. QED
      BY <1>34, <2>1, <2>2 DEF CarrierCheck
  <1>35. ASSUME NEW c \in Carriers, CarrierFinish(c) PROVE SettledInv'
    <2>1. /\ item[c] \in Msgs /\ pc[c] = "finish" /\ pc' = [pc EXCEPT ![c] = "readmit_parked"]
          /\ item' = [item EXCEPT ![c] = None] /\ UNCHANGED <<queue, token, exec>>
      BY <1>35 DEF CarrierFinish
    <2>2. PICK x \in {"done", "dead"} : mst' = [mst EXCEPT ![item[c]] = x]
      BY <1>35 DEF CarrierFinish, Complete, OnFault
    <2>3. reclaims' = [reclaims EXCEPT ![item[c]] = @ + 1]
      BY <1>35 DEF CarrierFinish, Complete, OnFault
    <2>4. \A t \in Threads : pc[t] \in OwnerPCs \cup CarrierPCs => t = c
      BY <2>1
    <2>5. ~InMailbox(item[c]) /\ reclaims[item[c]] = 0
      BY <2>1
    <2>6. Linked' /\ ReclaimedOnce'
      BY <2>1, <2>2, <2>3, <2>5
    <2>7. Held'
      BY <2>1, <2>4
    <2>. QED
      BY <2>1, <2>6, <2>7
  <1>36. ASSUME NEW c \in Carriers, CarrierReadmit(c) PROVE SettledInv'
    BY <1>36 DEF CarrierReadmit
  <1>37. ASSUME NEW c \in Carriers, NEW e \in Carriers, CarrierSuspend(c, e) PROVE SettledInv'
    <2>1. awaits \in Nat /\ awaits >= 1 /\ awaits < MaxAwaits
      BY <1>37, AwaitsAssumption DEF CarrierSuspend, IInv, TypeOK, ControlInv, Carried
    <2>. QED
      BY <2>1, AwaitsAssumption
  <1>38. CASE UNCHANGED vars
    BY <1>38 DEF vars
  <1>. QED
    BY <1>1, <1>2, <1>3, <1>4, <1>5, <1>6, <1>7, <1>8, <1>9, <1>10, <1>11, <1>12, <1>13, <1>14,
       <1>15, <1>16, <1>17, <1>18, <1>19, <1>20, <1>21, <1>22, <1>23, <1>24, <1>25, <1>26, <1>27,
       <1>28, <1>29, <1>30, <1>31, <1>32, <1>33, <1>34, <1>35, <1>36, <1>37, <1>38 DEF Next, AwaitingOnce, PostStep, WorkerStep, CarrierStep, Threads

\* A message is reclaimed once, by whoever settled it, and the control descriptor
\* is linked once, when a handler suspends at most once (with chained awaits a
\* second carrier may finish the frame again: ReclaimedOnce is violated).
THEOREM EachOnceHolds == ASSUME MaxAwaits <= 1 PROVE Spec => []EachOnce
  <1>1. Init => SettledInv
    <2>1. ASSUME Init PROVE Linked /\ Held /\ Tagged
      <3>1. /\ Len(queue) = 0 /\ exec = "Idle"
            /\ \A t \in Threads : pc[t] = "idle"
        BY <2>1 DEF Init
      <3>2. \A x : ~InMailbox(x)
        BY <3>1 DEF InMailbox
      <3>3. \A p \in Producers : p \in Threads
        BY DEF Threads
      <3>. QED
        BY <3>1, <3>2, <3>3 DEF Linked, Held, Tagged
    <2>2. ASSUME Init PROVE ReclaimedOnce
      BY <2>2 DEF Init, ReclaimedOnce
    <2>. QED
      BY <2>1, <2>2 DEF SettledInv
  <1>2. IInv /\ SettledInv /\ [Next]_vars => SettledInv'
    BY SettledStep
  <1>3. IInv /\ SettledInv => EachOnce
    BY DEF IInv, TypeOK, SettledInv, Linked, Tagged, InMailbox, EachOnce, DeactivateLinkedOnce
  <1>. QED
    BY <1>1, <1>2, <1>3, ControlCorrect, PTL DEF Spec
=============================================================================
