------------------------------- MODULE Mailbox -------------------------------
(***************************************************************************)
(* The intrusive multi-producer single-consumer mailbox of one actor       *)
(* (core/mailbox.hpp), one action per shared-memory access.  A producer    *)
(* publishes in three steps (clear own link, exchange the tail, link the   *)
(* predecessor); the consumer's try_dequeue walks the links and re-arms    *)
(* the stub when it takes the last node.  core/run_queue.hpp uses the same *)
(* algorithm for the lanes of a shard's run-queue.                         *)
(*                                                                         *)
(* The accesses are interleaved: the links are release/acquire and the     *)
(* tail exchange is seq_cst, which is the order interleaving gives.        *)
(***************************************************************************)
EXTENDS Naturals, Sequences, FiniteSets

CONSTANTS Producers,    \* threads that enqueue
          Descriptors,  \* pooled message descriptors, reused after a reclaim
          Stub,         \* the mailbox's own stub_ node
          None          \* nullptr

ASSUME NodesAssumption == /\ Stub \notin Descriptors
                          /\ None \notin Descriptors \cup {Stub}
                          /\ IsFiniteSet(Descriptors)

Nodes == Descriptors \cup {Stub}

VARIABLES head,    \* head_, private to the consumer
          tail,    \* tail_
          next,    \* link.next of every node
          ppc,     \* where each producer is in enqueue()
          pnode,   \* the descriptor it enqueues
          pprev,   \* what its tail exchange returned
          cpc,     \* where the consumer is in try_dequeue()
          front,   \* the consumer's local `front`
          cnext,   \* the consumer's local `next`
          cprev,   \* what the re-arming exchange returned
          status,  \* the DrainStatus of the last finished attempt
          held,    \* the descriptor that attempt returned, until it is reclaimed
          overlap  \* history: a producer was mid-publish during this attempt

pvars == <<ppc, pnode, pprev>>
cvars == <<cpc, front, cnext, cprev, status, held>>
vars == <<head, tail, next, pvars, cvars, overlap>>

Init == /\ head = Stub
        /\ tail = Stub
        /\ next = [n \in Nodes |-> None]
        /\ ppc = [p \in Producers |-> "idle"]
        /\ pnode = [p \in Producers |-> None]
        /\ pprev = [p \in Producers |-> None]
        /\ cpc = "idle"
        /\ front = None /\ cnext = None /\ cprev = None
        /\ status = "none"
        /\ held = None
        /\ overlap = FALSE

MidPublish == {p \in Producers : ppc[p] = "link"}

-----------------------------------------------------------------------------
(* Reading the structure: the successor of a node counts the links that    *)
(* are still only in the hands of the thread about to store them.          *)

Succ(n) ==
    IF next[n] # None THEN next[n]
    ELSE IF \E p \in MidPublish : pprev[p] = n
         THEN pnode[CHOOSE p \in MidPublish : pprev[p] = n]
    ELSE IF cpc = "rearm_link" /\ cprev = n THEN Stub
    ELSE None

\* The nodes from head_ on, up to the tail (or to a broken link).
Chain ==
    LET walk[k \in 0..Cardinality(Nodes)] ==
          IF k = 0 THEN <<head>>
          ELSE LET s == walk[k - 1]
                   last == s[Len(s)]
               IN  IF last \in {tail, None} THEN s ELSE Append(s, Succ(last))
    IN  walk[Cardinality(Nodes)]

\* A sequence of nodes without the stub, which occurs in it at most once.
Unstubbed[s \in Seq(Nodes \cup {None})] ==
    LET at == {i \in 1..Len(s) : s[i] = Stub}
    IN  IF at = {} THEN s
        ELSE LET k == CHOOSE i \in at : TRUE
             IN  SubSeq(s, 1, k - 1) \o SubSeq(s, k + 1, Len(s))

\* What is queued, oldest first.
Contents == Unstubbed[Chain]

\* What a producer may enqueue: a descriptor that is in nobody's hands.
Free == LET chain == Chain
        IN  {d \in Descriptors : /\ \A p \in Producers : pnode[p] # d
                                 /\ d # held
                                 /\ \A i \in 1..Len(chain) : chain[i] # d}

-----------------------------------------------------------------------------
(* Producer: enqueue(d) = link_push(d, seq_cst).                           *)

ClearLink(p, d) ==
    /\ ppc[p] = "idle"
    /\ d \in Free
    /\ next' = [next EXCEPT ![d] = None]
    /\ pnode' = [pnode EXCEPT ![p] = d]
    /\ ppc' = [ppc EXCEPT ![p] = "exchange"]
    /\ UNCHANGED <<head, tail, pprev, cvars, overlap>>

Exchange(p) ==
    /\ ppc[p] = "exchange"
    /\ pprev' = [pprev EXCEPT ![p] = tail]
    /\ tail' = pnode[p]
    /\ ppc' = [ppc EXCEPT ![p] = "link"]
    /\ overlap' = (cpc # "idle")
    /\ UNCHANGED <<head, next, pnode, cvars>>

Link(p) ==
    /\ ppc[p] = "link"
    /\ next' = [next EXCEPT ![pprev[p]] = pnode[p]]
    /\ ppc' = [ppc EXCEPT ![p] = "idle"]
    /\ pnode' = [pnode EXCEPT ![p] = None]
    /\ pprev' = [pprev EXCEPT ![p] = None]
    /\ UNCHANGED <<head, tail, cvars, overlap>>

-----------------------------------------------------------------------------
(* Consumer: try_dequeue(), one shared access per action.                  *)

\* The attempt ends with this status; d is the descriptor returned, or None.
Return(s, d) == /\ cpc' = "idle"
                /\ status' = s
                /\ held' = d
                /\ front' = None /\ cnext' = None /\ cprev' = None
                /\ overlap' = FALSE

\* front = head_; next = front->link.next
LoadFront ==
    /\ cpc = "idle" /\ held = None
    /\ front' = head
    /\ cnext' = next[head]
    /\ overlap' = (MidPublish # {})
    /\ cpc' = IF head # Stub THEN "decide"
              ELSE IF next[head] = None THEN "stub_tail" ELSE "skip"
    /\ UNCHANGED <<head, tail, next, pvars, cprev, status, held>>

\* Only the stub is visible: Empty or Busy, by the tail.
StubTail ==
    /\ cpc = "stub_tail"
    /\ Return(IF tail = Stub THEN "Empty" ELSE "Busy", None)
    /\ UNCHANGED <<head, tail, next, pvars>>

\* Skip the stub and load the link of the first real node.
SkipStub ==
    /\ cpc = "skip"
    /\ head' = cnext
    /\ front' = cnext
    /\ cnext' = next[cnext]
    /\ cpc' = "decide"
    /\ UNCHANGED <<tail, next, pvars, cprev, status, held, overlap>>

\* A successor is linked: take the front node.
Pop ==
    /\ cpc = "decide" /\ cnext # None
    /\ head' = cnext
    /\ Return("Message", front)
    /\ UNCHANGED <<tail, next, pvars>>

\* Mutant: the consumer waits for the producer and never reads the link again.
CheckLast_Wait ==
    /\ cpc = "decide" /\ cnext = None
    /\ \/ front # tail /\ UNCHANGED vars
       \/ /\ front = tail
          /\ cpc' = "rearm"
          /\ UNCHANGED <<head, tail, next, pvars, front, cnext, cprev, status, held, overlap>>

\* front looks last: if the tail moved on, a producer is linking behind it.
CheckLast ==
    /\ cpc = "decide" /\ cnext = None
    /\ \/ /\ front # tail
          /\ Return("Busy", None)
          /\ UNCHANGED <<head, tail, next, pvars>>
       \/ /\ front = tail
          /\ cpc' = "rearm"
          /\ UNCHANGED <<head, tail, next, pvars, front, cnext, cprev, status, held, overlap>>

\* link_push(&stub_): clear the stub's link ...
RearmClear ==
    /\ cpc = "rearm"
    /\ next' = [next EXCEPT ![Stub] = None]
    /\ cpc' = "rearm_exchange"
    /\ UNCHANGED <<head, tail, pvars, front, cnext, cprev, status, held, overlap>>

\* ... exchange it in (a producer may have been faster) ...
RearmExchange ==
    /\ cpc = "rearm_exchange"
    /\ cprev' = tail
    /\ tail' = Stub
    /\ cpc' = "rearm_link"
    /\ UNCHANGED <<head, next, pvars, front, cnext, status, held, overlap>>

\* ... and link it behind whatever was last.
RearmLink ==
    /\ cpc = "rearm_link"
    /\ next' = [next EXCEPT ![cprev] = Stub]
    /\ cpc' = "reload"
    /\ UNCHANGED <<head, tail, pvars, front, cnext, cprev, status, held, overlap>>

\* Mutant: a lost race is answered with the message although nothing follows it.
Reload_NoReread ==
    /\ cpc = "reload"
    /\ head' = Stub
    /\ Return("Message", front)
    /\ UNCHANGED <<tail, next, pvars>>

\* Re-read front's link: the stub, the producer that won the race, or nothing.
Reload ==
    /\ cpc = "reload"
    /\ \/ /\ next[front] # None
          /\ head' = next[front]
          /\ Return("Message", front)
       \/ /\ next[front] = None
          /\ head' = head
          /\ Return("Busy", None)
    /\ UNCHANGED <<tail, next, pvars>>

\* The owner is done with the descriptor: back to the pool (reclaim_).
Reclaim ==
    /\ held # None
    /\ held' = None
    /\ UNCHANGED <<head, tail, next, pvars, cpc, front, cnext, cprev, status, overlap>>

ProducerStep(p) == (\E d \in Descriptors : ClearLink(p, d)) \/ Exchange(p) \/ Link(p)

ConsumerStep == \/ LoadFront \/ StubTail \/ SkipStub \/ Pop \/ CheckLast
                \/ RearmClear \/ RearmExchange \/ RearmLink \/ Reload \/ Reclaim

Next == (\E p \in Producers : ProducerStep(p)) \/ ConsumerStep

\* A thread that started to publish goes on, and the owner keeps draining.
Fairness == /\ \A p \in Producers : WF_vars(Exchange(p) \/ Link(p))
            /\ WF_vars(ConsumerStep)

Spec == Init /\ [][Next]_vars

FairSpec == Spec /\ Fairness

-----------------------------------------------------------------------------

\* The probe of the close-out.
probe_has_work == tail # Stub

\* Types of the links, the tail and the two sides' locals (mailbox.hpp); in
\* particular head_ is never null.
TypeOK == /\ head \in Nodes
          /\ tail \in Nodes
          /\ next \in [Nodes -> Nodes \cup {None}]
          /\ ppc \in [Producers -> {"idle", "exchange", "link"}]
          /\ pnode \in [Producers -> Descriptors \cup {None}]
          /\ pprev \in [Producers -> Nodes \cup {None}]
          /\ cpc \in {"idle", "stub_tail", "skip", "decide", "rearm", "rearm_exchange",
                      "rearm_link", "reload"}
          /\ front \in Nodes \cup {None}
          /\ cnext \in Nodes \cup {None}
          /\ cprev \in Nodes \cup {None}
          /\ status \in {"none", "Message", "Empty", "Busy"}
          /\ held \in Descriptors \cup {None}
          /\ overlap \in BOOLEAN

\* The chain is never broken: from head_ every link that is missing is one a
\* publishing thread is about to store, so no node behind a mid-publish gap
\* is lost, and nobody appears twice (mailbox.hpp link_push and the re-arm).
ChainReachesTail ==
    LET chain == Chain
    IN  /\ chain[Len(chain)] = tail
        /\ \A i, j \in 1..Len(chain) : chain[i] = chain[j] => i = j

\* The close-out probe reads only the tail.  Its comment claims that this is
\* the complete wakeup predicate at the places it is used: after an attempt
\* that said Empty and before the next one, the tail is off the stub exactly
\* when something has been exchanged in.
ProbeCompleteAfterEmpty ==
    (cpc = "idle" /\ status = "Empty") => (probe_has_work <=> Contents # <<>>)

\* The abstract queue this structure implements.
Publishing == {pnode[p] : p \in MidPublish}

Abs == INSTANCE MpscQueue WITH
         queue <- Contents,
         publishing <- Publishing,
         attempt <- (cpc # "idle"),
         overlap <- overlap,
         held <- held

\* try_dequeue and enqueue implement the FIFO queue with the Busy answer.
RefinesMpscQueue == Abs!Spec

\* A descriptor whose tail exchange happened is eventually handed out.
EventuallyDequeued ==
    \A d \in Descriptors :
        (\E p \in Producers : ppc[p] = "link" /\ pnode[p] = d) ~> (held = d)
=============================================================================
