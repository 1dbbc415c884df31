----------------------------- MODULE MCServices ------------------------------
(* The services of one node around its mailboxes on small instances: the    *)
(* timing wheel, pooled reply cells of ask, stream lanes, topics, fan-out   *)
(* and reply streams, admission governance with its breaker and congestion  *)
(* marks, escalation, lazy activation, supervision, the type registry, the  *)
(* simulation engine, and what a member table tells its peers. The          *)
(* components share no state: an initial state chooses the one that runs,   *)
(* and the variables v1, v2, ... are that component's; the reply cells have *)
(* variables of their own.                                                  *)
EXTENDS AskReply, Sequences

\* Supervision: every decision, a windowed budget, and two retries under each kind of budget.
OnFailure(decision, n, w) == [tag |-> "OnFailure", decision |-> decision, max |-> n, window |-> w]
Retry(n) == [tag |-> "OnRestartAsk", retries |-> n]
Policies == {<<>>, <<OnFailure("Resume", 99, 0)>>, <<OnFailure("Stop", 99, 0)>>, <<OnFailure("Escalate", 99, 0)>>,
             <<OnFailure("Restart", 1, 2)>>, <<OnFailure("Restart", 2, 0), Retry(2)>>,
             <<OnFailure("Restart", 2, 1), Retry(2)>>}
ResourcePlan == [node |-> <<"clock">>, shard |-> <<"db">>]
\* Registry: types 1 and 4 hash equal.
KeyOf == [t \in 1..4 |-> IF t = 4 THEN 1 ELSE t]
NeedsOf == [t \in 1..4 |-> IF t = 1 THEN {} ELSE IF t = 2 THEN {"db"} ELSE {"db", "clock"}]
Members == <<[type |-> "db", per_message |-> FALSE], [type |-> "clock", per_message |-> TRUE]>>
\* A restart on every failure, twice in all.
RestartOnFailure == {<<OnFailure("Restart", 2, 0)>>}

VARIABLE exercised  \* the component this behaviour runs
VARIABLES v1, v2, v3, v4, v5, v6, v7, v8, v9, v10, v11, v12, v13, v14, v15, v16,
          v17, v18  \* the variables of that component

Idle == 0  \* a variable the component has no use for

Timers == INSTANCE Timers WITH
    Entries <- {1, 2}, Size <- 2, Levels <- 3, Delays <- {2, 9}, Periods <- {0, 3},
    MaxTime <- 11, MaxArmings <- 3, now <- v1, at <- v2, timer <- v3, batch <- v4,
    pc <- v5, handles <- v6, asked <- v7

Streams == INSTANCE Streams WITH
    Capacity <- 2, Frames <- 4, Budget <- 2, Workers <- {1, 2},
    EarlyCarrier <- FALSE, Subs <- {1, 2}, FanCap <- 1, MaxMsgs <- 2,
    RacingGaps <- FALSE, Cap <- 2, MaxItems <- 4, head <- v1, disp <- v2,
    tail <- v3, slots <- v4, exec <- v5, armed <- v6, ready <- v7, stalled <- v8,
    gen <- v9, parked <- v10, prod <- v11, lane <- v12, carrier <- v13,
    seen <- v14, evicting <- v1, snapshot <- v2, member <- v3, inflight <- v4,
    fan_lane <- v5, pub <- v6, con <- v7, fan_got <- v8, told <- v9, lost <- v10,
    terminal <- v1, error <- v2, ring <- v3, wake <- v4, open <- v5, callee <- v6,
    caller <- v7, got <- v8

Topic == INSTANCE Topic WITH
    Pubs <- {1, 2}, Subs <- {1}, Cap <- 2, MaxMsgs <- 3, snapshot <- v1,
    member <- v2, inflight <- v3, sent <- v4, cell <- v5, free <- v6, box <- v7,
    pub <- v8, con <- v9, accepted <- v10, got <- v11

Governance == INSTANCE Governance WITH
    Producers <- {1, 2}, MaxMsgs <- 3, Doomed <- {2},
    Seeds <- {[drain_budget |-> 0, overflow |-> 3, mailbox_bound |-> 1], [drain_budget |-> 2, overflow |-> 1, mailbox_bound |-> 1]},
    Deltas <- {<<"mailbox_bound", 2>>, <<"mailbox_bound", 4>>, <<"drain_budget", 4>>},
    MaxReconfigs <- 2, MaxRetires <- 1, Peers <- {1, 2}, SlotOf <- <<1, 1>>, Rate <- 2, Burst <- 2,
    Second <- 6, MaxBucketTime <- 20, Threshold <- 2, OpenFor <- 1, MaxSends <- 5,
    Late <- FALSE, MaxBreakerTime <- 3, GatePeers <- {1, 2, 3}, MaxGates <- 2,
    GateBurst <- 1, Until <- 2, MaxGateTime <- 3, word <- v1, published <- v2,
    enqueued <- v3, drained <- v4, sheds <- v5, box <- v6, prod <- v7, lane <- v8,
    fate <- v9, reconfigs <- v10, retired <- v11, bucket_now <- v1, bucket <- v2, asks <- v3,
    since <- v4, taken <- v5, eager <- v6, breaker_now <- v1, breaker <- v2,
    out <- v3, sends <- v4, closedBy <- v5, gate_now <- v1, gates <- v2,
    given <- v3

Supervision == INSTANCE Supervision WITH
    Sources <- {1, 2}, MaxTracked <- 2, PerSource <- 1, Window <- 2, Burst <- 4,
    MaxStormTime <- 3, MaxFired <- 4, Messages <- {1, 2, 3},
    PolicyLists <- Policies, Plan <- ResourcePlan, Needs <- Members,
    Unlimited <- 99, MaxTime <- 4, MaxEvictions <- 2, storm_now <- v1, topo <- v2,
    entries <- v3, bound <- v4, fired <- v5, log <- v6, stray <- v7, policy <- v1,
    now <- v2, self <- v3, budget <- v4, lane <- v5, stopped <- v6, settled <- v7,
    granted <- v8, refused <- v9, stored <- v10, forgot <- v11, lazy <- v12,
    evictions <- v13

LazyActivation == INSTANCE LazyActivation WITH
    Calls <- <<"tell", "tell", "passivate">>, Overlap <- FALSE, MaxInst <- 2,
    IdleTicks <- 3, Grace <- 1, Patience <- 1, MaxTime <- 8, Types <- {1, 2, 3, 4},
    type_key_of <- KeyOf, Needs <- NeedsOf, Scopes <- {{"db"}, {"db", "clock"}},
    MaxTypes <- 2, now <- v1, wakes <- v2, inst <- v3, table <- v4, retire_q <- v5,
    timers <- v6, call <- v7, handled <- v8, dead <- v9, touched <- v10,
    mode <- v1, records <- v2, by_key <- v3, report <- v4, declared <- v5

SimEngine == INSTANCE SimEngine WITH
    Actors <- {1, 2}, Tick <- 2, Advances <- {1, 2, 5}, Delays <- {0, 3},
    Drops <- {2}, Faulty <- {1}, Reentrants <- {2}, Cap <- 2, MaxPosts <- 3,
    MaxTicks <- 3, MaxTimers <- 1,
    exec <- v1, stopped <- v2, mail <- v3, runnable <- v4, queued <- v5,
    drops <- v6, post_seq <- v7, fault <- v8, posted <- v9, delivered <- v10,
    dropped <- v11, dead_letters <- v12, phase <- v13, live <- v14, todo <- v15,
    ticks <- v16, now <- v17, timers <- v18

Rotation == INSTANCE Rotation WITH
    Peers <- {1, 2, 3}, Self <- 0, Outsider <- 9, Cap <- 3, Factor <- 1,
    MaxTx <- 1, MaxLive <- 2, MaxTombs <- 1, MaxLeaks <- 1, Watched <- 3,
    members <- v1, pending <- v2, tombs <- v3, order <- v4, dirty <- v5,
    cursor <- v6, unsent <- v7, leaks <- v8

\* One component starts as it is constructed.
InitParts ==
    \/ /\ exercised = "timers" /\ Timers!TimersInit /\ v8 = Idle /\ v9 = Idle /\
          v10 = Idle /\ v11 = Idle /\ v12 = Idle /\ v13 = Idle /\ v14 = Idle /\
          v15 = Idle /\ v16 = Idle /\ v17 = Idle /\ v18 = Idle
    \/ /\ exercised = "ask" /\ v1 = Idle /\ v2 = Idle /\ v3 = Idle /\ v4 = Idle /\
          v5 = Idle /\ v6 = Idle /\ v7 = Idle /\ v8 = Idle /\ v9 = Idle /\ v10 = Idle /\
          v11 = Idle /\ v12 = Idle /\ v13 = Idle /\ v14 = Idle /\ v15 = Idle /\
          v16 = Idle /\ v17 = Idle /\ v18 = Idle
    \/ /\ exercised = "stream" /\ Streams!LaneInit /\ v15 = Idle /\ v16 = Idle /\
          v17 = Idle /\ v18 = Idle
    \/ /\ exercised = "topic" /\ Topic!TopicInit /\ v12 = Idle /\ v13 = Idle /\
          v14 = Idle /\ v15 = Idle /\ v16 = Idle /\ v17 = Idle /\ v18 = Idle
    \/ /\ exercised = "fan" /\ Streams!FanInit /\ v11 = Idle /\ v12 = Idle /\
          v13 = Idle /\ v14 = Idle /\ v15 = Idle /\ v16 = Idle /\ v17 = Idle /\
          v18 = Idle
    \/ /\ exercised = "reply" /\ Streams!ReplyInit /\ v9 = Idle /\ v10 = Idle /\
          v11 = Idle /\ v12 = Idle /\ v13 = Idle /\ v14 = Idle /\ v15 = Idle /\
          v16 = Idle /\ v17 = Idle /\ v18 = Idle
    \/ /\ exercised = "gov" /\ Governance!GovInit /\ v12 = Idle /\
          v13 = Idle /\ v14 = Idle /\ v15 = Idle /\ v16 = Idle /\ v17 = Idle /\
          v18 = Idle
    \/ /\ exercised = "rate" /\ Governance!BucketInit /\ v7 = Idle /\ v8 = Idle /\
          v9 = Idle /\ v10 = Idle /\ v11 = Idle /\ v12 = Idle /\ v13 = Idle /\
          v14 = Idle /\ v15 = Idle /\ v16 = Idle /\ v17 = Idle /\ v18 = Idle
    \/ /\ exercised = "brk" /\ Governance!BreakInit /\ v6 = Idle /\ v7 = Idle /\
          v8 = Idle /\ v9 = Idle /\ v10 = Idle /\ v11 = Idle /\ v12 = Idle /\
          v13 = Idle /\ v14 = Idle /\ v15 = Idle /\ v16 = Idle /\ v17 = Idle /\
          v18 = Idle
    \/ /\ exercised = "cong" /\ Governance!CongInit /\ v4 = Idle /\ v5 = Idle /\
          v6 = Idle /\ v7 = Idle /\ v8 = Idle /\ v9 = Idle /\ v10 = Idle /\
          v11 = Idle /\ v12 = Idle /\ v13 = Idle /\ v14 = Idle /\ v15 = Idle /\
          v16 = Idle /\ v17 = Idle /\ v18 = Idle
    \/ /\ exercised = "esc" /\ Supervision!EscInit /\ v8 = Idle /\ v9 = Idle /\
          v10 = Idle /\ v11 = Idle /\ v12 = Idle /\ v13 = Idle /\ v14 = Idle /\
          v15 = Idle /\ v16 = Idle /\ v17 = Idle /\ v18 = Idle
    \/ /\ exercised = "lazy" /\ LazyActivation!LazyInit /\ v11 = Idle /\
          v12 = Idle /\ v13 = Idle /\ v14 = Idle /\ v15 = Idle /\ v16 = Idle /\
          v17 = Idle /\ v18 = Idle
    \/ /\ exercised = "sup" /\ Supervision!SupInit /\ v14 = Idle /\ v15 = Idle /\
          v16 = Idle /\ v17 = Idle /\ v18 = Idle
    \/ /\ exercised = "reg" /\ LazyActivation!RegInit /\ v6 = Idle /\ v7 = Idle /\
          v8 = Idle /\ v9 = Idle /\ v10 = Idle /\ v11 = Idle /\ v12 = Idle /\
          v13 = Idle /\ v14 = Idle /\ v15 = Idle /\ v16 = Idle /\ v17 = Idle /\
          v18 = Idle
    \/ /\ exercised = "sim" /\ SimEngine!SimInit
    \/ /\ exercised = "rot" /\ Rotation!RotationInit /\ v9 = Idle /\ v10 = Idle /\
          v11 = Idle /\ v12 = Idle /\ v13 = Idle /\ v14 = Idle /\ v15 = Idle /\
          v16 = Idle /\ v17 = Idle /\ v18 = Idle

\* The reply cells are as they are constructed whichever component runs.
InitSum == AskInit /\ InitParts

TimersStep == /\ exercised = "timers" /\ Timers!TimersNext
              /\ UNCHANGED <<exercised, v8, v9, v10, v11, v12, v13, v14, v15, v16,
                              v17, v18>>
StreamStep == /\ exercised = "stream" /\ Streams!LaneNext
              /\ UNCHANGED <<exercised, v15, v16, v17, v18>>
TopicStep == /\ exercised = "topic" /\ Topic!TopicNext
             /\ UNCHANGED <<exercised, v12, v13, v14, v15, v16, v17, v18>>
FanStep == /\ exercised = "fan" /\ Streams!FanNext
           /\ UNCHANGED <<exercised, v11, v12, v13, v14, v15, v16, v17, v18>>
ReplyStep == /\ exercised = "reply" /\ Streams!ReplyNext
             /\ UNCHANGED <<exercised, v9, v10, v11, v12, v13, v14, v15, v16, v17,
                             v18>>
GovStep == /\ exercised = "gov" /\ Governance!GovNext
           /\ UNCHANGED <<exercised, v12, v13, v14, v15, v16, v17, v18>>
RateStep == /\ exercised = "rate" /\ Governance!BucketNext
            /\ UNCHANGED <<exercised, v7, v8, v9, v10, v11, v12, v13, v14, v15,
                            v16, v17, v18>>
BrkStep == /\ exercised = "brk" /\ Governance!BreakNext
           /\ UNCHANGED <<exercised, v6, v7, v8, v9, v10, v11, v12, v13, v14, v15,
                           v16, v17, v18>>
CongStep == /\ exercised = "cong" /\ Governance!CongNext
            /\ UNCHANGED <<exercised, v4, v5, v6, v7, v8, v9, v10, v11, v12, v13,
                            v14, v15, v16, v17, v18>>
EscStep == /\ exercised = "esc" /\ Supervision!EscNext
           /\ UNCHANGED <<exercised, v8, v9, v10, v11, v12, v13, v14, v15, v16,
                           v17, v18>>
LazyStep == /\ exercised = "lazy" /\ LazyActivation!LazyNext
            /\ UNCHANGED <<exercised, v11, v12, v13, v14, v15, v16, v17, v18>>
SupStep == /\ exercised = "sup" /\ Supervision!SupNext
           /\ UNCHANGED <<exercised, v14, v15, v16, v17, v18>>
RegStep == /\ exercised = "reg" /\ LazyActivation!RegNext
           /\ UNCHANGED <<exercised, v6, v7, v8, v9, v10, v11, v12, v13, v14, v15,
                           v16, v17, v18>>
SimStep == /\ exercised = "sim" /\ SimEngine!SimNext
           /\ UNCHANGED <<exercised>>
RotStep == /\ exercised = "rot" /\ Rotation!RotationNext
           /\ UNCHANGED <<exercised, v9, v10, v11, v12, v13, v14, v15, v16, v17,
                           v18>>

NextParts == TimersStep \/ StreamStep \/ TopicStep \/ FanStep \/ ReplyStep \/
             GovStep \/ RateStep \/ BrkStep \/ CongStep \/ EscStep \/ LazyStep \/
             SupStep \/ RegStep \/ SimStep \/ RotStep

partVars == <<exercised, v1, v2, v3, v4, v5, v6, v7, v8, v9, v10, v11, v12, v13,
              v14, v15, v16, v17, v18>>
allVars == <<partVars, askVars>>

NextSum == \/ NextParts /\ UNCHANGED askVars
           \/ exercised = "ask" /\ AskNext /\ UNCHANGED partVars

SpecSum == InitSum /\ [][NextSum]_allVars

\* A timer fires at its tick and once per period, never after its cancellation
\* took effect; a stale handle cancels nothing; and a payload is freed by the
\* one who owns it (advance, cascade, cancel, step of the service).
TimersExact ==
    /\ exercised = "timers" =>
           /\ Timers!DueOnTime
           /\ Timers!CancelsItsOwn
           /\ Timers!PayloadOwned

\* Frames are handled in order; a published frame has a drain that will find
\* it, and a stalled producer a consumer that will wake it (armed_, close-out,
\* the stall rendezvous). A callee asleep in push is woken by a credit or a
\* terminal, and a stream ends for its caller only when it was drained. No
\* publisher pushes into an inbox that was freed, payloads are counted exactly,
\* an inbox is a FIFO (publish, try_push, unsubscribe). A publisher asleep on a
\* full lane is woken when it drains or its subscriber leaves, a departed lane
\* gets nothing more, and the gaps a subscriber is told are the messages it lost.
StreamsFlow ==
    /\ exercised = "stream" =>
           /\ Streams!FramesInOrder
           /\ Streams!FramesHaveDrainer
           /\ Streams!StallHasWaker
    /\ exercised = "reply" => Streams!PushIsWoken /\ Streams!DoneMeansDrained
    /\ exercised = "topic" =>
           /\ Topic!NoPushAfterFree
           /\ Topic!PayloadsCounted
           /\ Topic!InboxIsFifo
    /\ exercised = "fan" =>
           /\ Streams!SleeperIsWoken
           /\ Streams!DepartedIsLeft
           /\ Streams!GapsAreExact

\* Readers decode a configuration word that was published, and the two counters
\* of the resident depth account for every message and every passivation. A half-open breaker lets one probe
\* through, a marked peer is throttled whatever the sweep does, a rate bucket
\* gives what its rate promises and no more, and a supervisor hears at most so
\* many escalations of one source a window.
AdmissionExact ==
    /\ exercised = "gov" => Governance!DecodesToPublished /\
                            Governance!ResidentIsExact
    /\ exercised = "brk" => Governance!OneProbe
    /\ exercised = "cong" => Governance!MarkedIsThrottled
    /\ exercised = "rate" => Governance!RateIsKept /\ Governance!RateIsGiven
    /\ exercised = "esc" => Supervision!SourceCapped

\* A message that fails is settled once, also when an ask is retried over a
\* restart; handlers see their resources, a restarted actor starts from fresh
\* state, per-message products are released, and the budget decides between
\* restart and stop (on_fault_sequential, charge_restart, handle_restart_retry,
\* reconstruct_now).
FaultsContained ==
    /\ exercised = "sup" =>
           /\ Supervision!PoisonSettledOnce
           /\ Supervision!HandlersSeeResources
           /\ Supervision!RestartIsFresh
           /\ Supervision!ProductsReleased
           /\ Supervision!RestartsBounded
           /\ Supervision!StopsOnlyOverBudget

\* One activation of an actor at a time, no message lost between the id table,
\* the broker and the reclaim sweep, and no use of a reclaimed one
\* (handle_wake, reclaim_sweep). A type declared under Strict validation
\* constructs, an index keeps its type, and what was wrong was reported
\* (register_metadata, find).
ActivatedOnce ==
    /\ exercised = "lazy" =>
           /\ LazyActivation!OneActivation
           /\ LazyActivation!MessagesInOnePlace
           /\ LazyActivation!NoUseAfterFree
    /\ exercised = "reg" =>
           /\ LazyActivation!StrictConstructs
           /\ LazyActivation!IndexIsStable
           /\ LazyActivation!ReportExplains


\* The rotation of a digest meets nobody who was erased, a digest with news to
\* tell looks for them, and every listed member is sent within a bounded number
\* of digests however much news there is (digest_into, sorted_ids_, set_tx).
DigestsReachAll ==
    /\ exercised = "rot" =>
           /\ Rotation!RotationHasNoStrangers
           /\ Rotation!NewsIsSeen
           /\ Rotation!RotationReachesAll

\* A cancelled timer is not armed again by a firing that was under way, and the
\* flush of an eviction does not replace a snapshot by less than it held
\* (rearm, flush, recover).
NoStepUndoes ==
    [][/\ exercised = "timers" => Timers!KeepsCancelled
       /\ exercised = "sup" => Supervision!KeepsSnapshot]_allVars

-----------------------------------------------------------------------------
Restarted == INSTANCE Supervision WITH
    Sources <- {1, 2}, MaxTracked <- 2, PerSource <- 1, Window <- 2, Burst <- 4,
    MaxStormTime <- 3, MaxFired <- 4, Messages <- {1, 2, 3},
    PolicyLists <- RestartOnFailure, Plan <- ResourcePlan, Needs <- Members,
    Unlimited <- 99, MaxTime <- 4, MaxEvictions <- 2, storm_now <- v1, topo <- v2,
    entries <- v3, bound <- v4, fired <- v5, log <- v6, stray <- v7, policy <- v1,
    now <- v2, self <- v3, budget <- v4, lane <- v5, stopped <- v6, settled <- v7,
    granted <- v8, refused <- v9, stored <- v10, forgot <- v11, lazy <- v12,
    evictions <- v13

unusedRestarted == <<exercised, askVars, v14, v15, v16, v17, v18>>
SpecRestarted ==
    /\ AskInit /\ exercised = "sup" /\ Restarted!SupInit /\ v14 = Idle /\ v15 = Idle /\
       v16 = Idle /\ v17 = Idle /\ v18 = Idle
    /\ [][Restarted!SupNext /\ UNCHANGED unusedRestarted]_allVars

\* A restart reloads a Persistent actor from its store (012-Persistence.md), so
\* what an eviction flushes afterwards is never less than what the store held.
RestartKeepsSnapshot == [][Restarted!SnapshotOnlyGrows]_allVars

-----------------------------------------------------------------------------
Overlapping == INSTANCE LazyActivation WITH
    Calls <- <<"tell", "tell", "tell">>, Overlap <- TRUE, MaxInst <- 2,
    IdleTicks <- 1, Grace <- 1, Patience <- 1, MaxTime <- 8, Types <- {1, 2, 3, 4},
    type_key_of <- KeyOf, Needs <- NeedsOf, Scopes <- {{"db"}, {"db", "clock"}},
    MaxTypes <- 2, now <- v1, wakes <- v2, inst <- v3, table <- v4, retire_q <- v5,
    timers <- v6, call <- v7, handled <- v8, dead <- v9, touched <- v10,
    mode <- v1, records <- v2, by_key <- v3, report <- v4, declared <- v5

unusedOverlapping == <<exercised, askVars, v11, v12, v13, v14, v15, v16, v17, v18>>
SpecOverlapping ==
    /\ AskInit /\ exercised = "lazy" /\ Overlapping!LazyInit /\ v11 = Idle /\ v12 = Idle /\
       v13 = Idle /\ v14 = Idle /\ v15 = Idle /\ v16 = Idle /\ v17 = Idle /\
       v18 = Idle
    /\ [][Overlapping!LazyNext /\ UNCHANGED unusedOverlapping]_allVars

\* One activation of an actor at a time (001-Actor-Execution-Model.md), also
\* when a call falls between the two phases of a reclaim.
OneActivation == Overlapping!OneActivation

=============================================================================
