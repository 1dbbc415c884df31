------------------------------ MODULE MpscQueue ------------------------------
(***************************************************************************)
(* What the per-actor mailbox (core/mailbox.hpp) and the shard run-queue   *)
(* lane (core/run_queue.hpp, ActivationMpsc) promise their users: a FIFO   *)
(* with many producers, one consumer at a time, and an emptiness test that *)
(* is not linearizable, so a third answer, Busy, is allowed while a        *)
(* producer is between its two publication steps.                          *)
(*                                                                         *)
(* A node enters the order at its tail exchange (Exchange) and becomes     *)
(* reachable at its link store (Publish).  One dequeue attempt of the      *)
(* consumer is an interval, opened by Begin and closed by exactly one of   *)
(* Take, SayEmpty and SayBusy.                                             *)
(***************************************************************************)
EXTENDS Naturals, Sequences

CONSTANTS Descriptors,  \* the intrusive nodes that travel through the queue
          None          \* not a node

VARIABLES queue,       \* the nodes between exchange and removal, in exchange order
          publishing,  \* the nodes exchanged but not linked yet
          attempt,     \* whether a dequeue attempt is open
          overlap,     \* some producer was mid-publish during the open attempt
          held         \* the node the consumer got and has not given back

vars == <<queue, publishing, attempt, overlap, held>>

InQueue == LET q == queue IN {q[i] : i \in 1..Len(q)}

Init == /\ queue = <<>>
        /\ publishing = {}
        /\ attempt = FALSE
        /\ overlap = FALSE
        /\ held = None

\* A producer's tail exchange: from here on the order of d is decided.
Exchange(d) == /\ d \notin InQueue /\ d # held
               /\ queue' = Append(queue, d)
               /\ publishing' = publishing \cup {d}
               /\ overlap' = attempt
               /\ UNCHANGED <<attempt, held>>

\* The producer's link store.
Publish(d) == /\ d \in publishing
              /\ publishing' = publishing \ {d}
              /\ UNCHANGED <<queue, attempt, overlap, held>>

Begin == /\ ~attempt /\ held = None
         /\ attempt' = TRUE
         /\ overlap' = (publishing # {})
         /\ UNCHANGED <<queue, publishing, held>>

\* The oldest node leaves the queue; it is never one still being published.
Take == /\ attempt
        /\ queue # <<>>
        /\ Head(queue) \notin publishing
        /\ held' = Head(queue)
        /\ queue' = Tail(queue)
        /\ attempt' = FALSE
        /\ overlap' = FALSE
        /\ UNCHANGED publishing

\* "Empty" is only said of an empty queue ...
SayEmpty == /\ attempt
            /\ queue = <<>>
            /\ attempt' = FALSE
            /\ overlap' = FALSE
            /\ UNCHANGED <<queue, publishing, held>>

\* ... and "Busy" only if a producer was mid-publish during the attempt.
SayBusy == /\ attempt
           /\ overlap
           /\ queue # <<>>
           /\ attempt' = FALSE
           /\ overlap' = FALSE
           /\ UNCHANGED <<queue, publishing, held>>

GiveBack == /\ held # None
            /\ held' = None
            /\ UNCHANGED <<queue, publishing, attempt, overlap>>

Next == \/ \E d \in Descriptors : Exchange(d) \/ Publish(d)
        \/ Begin \/ Take \/ SayEmpty \/ SayBusy \/ GiveBack

Spec == Init /\ [][Next]_vars
=============================================================================
