------------------------------ MODULE RunQueue -------------------------------
(***************************************************************************)
(* A shard's run-queue (core/run_queue.hpp): K priority bands, each an     *)
(* intrusive MPSC lane of activations, and the select() of the shard's     *)
(* drain owner with the RotatingReserve<M> anti-starvation policy.  The    *)
(* single-band RunQueue<UniformFIFO> is part of module Scheduler.          *)
(*                                                                         *)
(* A lane is the sequence of its nodes from head_ to tail_, the stub       *)
(* included, and the set of nodes whose predecessor link is not stored yet *)
(* (module Mailbox has the same algorithm access by access).  try_pop is   *)
(* split where a producer can interfere: at the re-arming exchange of the  *)
(* stub and at the re-read of the front node's link after it.              *)
(***************************************************************************)
EXTENDS Integers, Sequences, FiniteSets, FiniteSetsExt

CONSTANTS Producers,  \* threads that schedule activations
          Acts,       \* the Schedulables of this shard
          Band,       \* the band of each, resolved at registration
          K,          \* number of bands
          M,          \* every M-th turn is a reserved one
          Stub,       \* a lane's sentinel node
          None        \* nullptr

Bands == 0..(K - 1)

\* What the module takes for granted of its constants.
BandsAssumption == K \in Nat \ {0} /\ M \in Nat \ {0} /\ Band \in [Acts -> Bands]
StubAssumption == Stub \notin Acts /\ None \notin Acts \cup {Stub}

VARIABLES lane,      \* the nodes of each band, head_ first, tail_ last
          unlinked,  \* activations exchanged in whose predecessor link is pending
          pitem,     \* the activation each producer is linking, or None
          spc,       \* where the drain owner is in select()
          mask,      \* the bands it still considers
          band,      \* the band it pops
          sawbusy,   \* some pop of this select() was Busy
          turn,      \* RotatingReserve::turn modulo M
          cursor,    \* RotatingReserve::cursor
          status,    \* RunStatus of the last finished select()
          taken,     \* the activation it returned, while it runs
          waits      \* history: turns a visible band has been passed over

vars == <<lane, unlinked, pitem, spc, mask, band, sawbusy, turn, cursor, status, taken, waits>>

policy == <<turn, cursor>>

On(b) == {lane[b][i] : i \in 1..Len(lane[b])} \cap Acts
Scheduled == UNION {On(b) : b \in Bands}
LastNode(b) == lane[b][Len(lane[b])]

\* tail_ != &stub_
nonempty_hint(b) == LastNode(b) # Stub

Init == /\ lane = [b \in Bands |-> <<Stub>>]
        /\ unlinked = {}
        /\ pitem = [p \in Producers |-> None]
        /\ spc = "idle"
        /\ mask = {}
        /\ band = 0
        /\ sawbusy = FALSE
        /\ turn = 0
        /\ cursor = 0
        /\ status = "none"
        /\ taken = None
        /\ waits = [b \in Bands |-> 0]

-----------------------------------------------------------------------------
(* Producers: enqueue(s).  An activation is scheduled at most once at a    *)
(* time (Activation!ScheduledOnce).                                        *)

EnqueueExchange(p, s) ==
    /\ pitem[p] = None
    /\ s \notin Scheduled /\ s # taken
    /\ pitem' = [pitem EXCEPT ![p] = s]
    /\ lane' = [lane EXCEPT ![Band[s]] = Append(@, s)]
    /\ unlinked' = unlinked \cup {s}
    /\ UNCHANGED <<spc, mask, band, sawbusy, policy, status, taken, waits>>

EnqueueLink(p) ==
    /\ pitem[p] # None
    /\ unlinked' = unlinked \ {pitem[p]}
    /\ pitem' = [pitem EXCEPT ![p] = None]
    /\ UNCHANGED <<lane, spc, mask, band, sawbusy, policy, status, taken, waits>>

-----------------------------------------------------------------------------
(* The drain owner: select().                                              *)

\* RotatingReserve<M>::pick: the band and the cursor afterwards.
RoundRobin(m) == CHOOSE b \in m : \A c \in m : (b - cursor) % K <= (c - cursor) % K

Reserved == (turn + 1) % M = 0

Pick(m) == IF Reserved THEN RoundRobin(m) ELSE Min(m)

\* Build the mask of the hints and let the policy pick the first band.
SelectBegin ==
    /\ spc = "idle" /\ taken = None
    /\ LET m == {b \in Bands : nonempty_hint(b)} IN
         \/ /\ m = {}
            /\ status' = "Empty"
            /\ waits' = [b \in Bands |-> 0]
            /\ UNCHANGED <<spc, mask, band, sawbusy, policy>>
         \/ /\ m # {}
            /\ mask' = m
            /\ band' = Pick(m)
            /\ turn' = (turn + 1) % M
            /\ cursor' = IF Reserved THEN (Pick(m) + 1) % K ELSE cursor
            /\ sawbusy' = FALSE
            /\ spc' = "pop"
            /\ waits' = [b \in Bands |-> IF b \in m THEN waits[b] ELSE 0]
            /\ UNCHANGED status
    /\ UNCHANGED <<lane, unlinked, pitem, taken>>

\* select() returns this activation; every visible band passed over waits.
ReturnItem(s) ==
    /\ status' = "Item"
    /\ taken' = s
    /\ spc' = "idle"
    /\ waits' = [b \in Bands |-> IF b \in mask \ {band} THEN waits[b] + 1
                                 ELSE IF b = band THEN 0 ELSE waits[b]]
    /\ UNCHANGED <<mask, band, sawbusy>>

\* This band gave nothing: drop it, try the next one in priority order.
NextBand(busy) ==
    /\ sawbusy' = (sawbusy \/ busy)
    /\ mask' = mask \ {band}
    /\ waits' = [waits EXCEPT ![band] = 0]
    /\ \/ /\ mask \ {band} = {}
          /\ spc' = "idle"
          /\ status' = IF sawbusy \/ busy THEN "Busy" ELSE "Empty"
          /\ UNCHANGED band
       \/ /\ mask \ {band} # {}
          /\ spc' = "pop"
          /\ band' = Min(mask \ {band})
          /\ UNCHANGED status
    /\ UNCHANGED taken

\* The lane once a leading stub with a linked successor is skipped.
SkipStub(q) == IF Head(q) = Stub /\ Len(q) > 1 /\ q[2] \notin unlinked THEN Tail(q) ELSE q

\* try_pop up to the point where it finds a single node in the lane.
PopBand ==
    /\ spc = "pop"
    /\ LET q == SkipStub(lane[band]) IN
         \/ /\ Head(q) = Stub
            /\ NextBand(Len(q) > 1)
            /\ UNCHANGED lane
         \/ /\ Head(q) # Stub /\ Len(q) > 1 /\ q[2] \notin unlinked
            /\ lane' = [lane EXCEPT ![band] = Tail(q)]
            /\ ReturnItem(Head(q))
         \/ /\ Head(q) # Stub /\ Len(q) > 1 /\ q[2] \in unlinked
            /\ lane' = [lane EXCEPT ![band] = q]
            /\ NextBand(TRUE)
         \/ /\ Head(q) # Stub /\ Len(q) = 1
            /\ lane' = [lane EXCEPT ![band] = q]
            /\ spc' = "rearm"
            /\ UNCHANGED <<mask, band, sawbusy, status, taken, waits>>
    /\ UNCHANGED <<unlinked, pitem, policy>>

\* link_push(&stub_): a producer may have exchanged in first.
RearmStub ==
    /\ spc = "rearm"
    /\ lane' = [lane EXCEPT ![band] = Append(@, Stub)]
    /\ spc' = "reload"
    /\ UNCHANGED <<unlinked, pitem, mask, band, sawbusy, policy, status, taken, waits>>

\* Re-read the front node's link.
ReloadNext ==
    /\ spc = "reload"
    /\ \/ /\ lane[band][2] \notin unlinked
          /\ lane' = [lane EXCEPT ![band] = Tail(@)]
          /\ ReturnItem(Head(lane[band]))
       \/ /\ lane[band][2] \in unlinked
          /\ NextBand(TRUE)
          /\ UNCHANGED lane
    /\ UNCHANGED <<unlinked, pitem, policy>>

\* run_activation is over: the activation may be scheduled again.
RunDone ==
    /\ taken # None
    /\ taken' = None
    /\ UNCHANGED <<lane, unlinked, pitem, spc, mask, band, sawbusy, policy, status, waits>>

OwnerStep == SelectBegin \/ PopBand \/ RearmStub \/ ReloadNext \/ RunDone

Next == \/ \E p \in Producers : (\E s \in Acts : EnqueueExchange(p, s)) \/ EnqueueLink(p)
        \/ OwnerStep

Spec == Init /\ [][Next]_vars

-----------------------------------------------------------------------------

\* Types of the lanes and of the policy's state; the cursor stays a band.
TypeOK == /\ lane \in [Bands -> Seq(Acts \cup {Stub})]
          /\ unlinked \subseteq Acts
          /\ pitem \in [Producers -> Acts \cup {None}]
          /\ spc \in {"idle", "pop", "rearm", "reload"}
          /\ mask \subseteq Bands
          /\ band \in Bands
          /\ sawbusy \in BOOLEAN
          /\ turn \in 0..(M - 1)
          /\ cursor \in Bands
          /\ status \in {"none", "Item", "Empty", "Busy"}
          /\ taken \in Acts \cup {None}
          /\ waits \in [Bands -> Nat]

\* Each lane holds its stub at most once, no activation twice, and none of
\* another band; the activation that runs is in no lane (the nodes are
\* intrusive: a second link would corrupt the lane).
LanesWellFormed ==
    /\ \A b \in Bands : /\ lane[b] # <<>>
                        /\ \A i, j \in 1..Len(lane[b]) : lane[b][i] = lane[b][j] => i = j
                        /\ \A s \in On(b) : Band[s] = b
    /\ taken \notin Scheduled

\* RotatingReserve: a band whose hint is set is tried within K * M turns,
\* whatever its priority (the comment promises (d + 1) * K * M).
StarvationBound == \A b \in Bands : waits[b] < K * M
=============================================================================
