-------------------------------- MODULE Topic --------------------------------
(* Broadcast to subscribers (core/topic.hpp): a copy-on-write snapshot of the  *)
(* subscriptions, one reference-counted payload per publish, a bounded inbox   *)
(* per subscription (a ring whose cells carry sequence numbers) that drops     *)
(* when full, and an unsubscribe that waits until no publish is in flight.     *)
EXTENDS Integers, Sequences, FiniteSets, SequencesExt

CONSTANTS Pubs, Subs,  \* publisher lanes; subscriptions, each made at most once
          Cap,         \* slots of an inbox, a power of two
          MaxMsgs      \* messages published

VARIABLES snapshot,  \* snapshot_: the subscriptions publish walks, in order
          member,    \* per subscription: "no", "on", "quiesce", "gone", "freed"
          inflight,  \* in_flight_
          sent,      \* seq_
          cell,      \* SharedPayloads, one per message number: [rc, msg]
          free,      \* free_ of the payload pool
          box,       \* inboxes: [enq, deq, seq, env]
          pub,       \* publishers: [pc, c, id, rest, pos]
          con,       \* the subscriber's lane: [pc, pos, env]
          accepted,  \* ids whose push returned true, in ring order
          got        \* what consume returned: <<id, payload value>>

topicVars == <<snapshot, member, inflight, sent, cell, free, box, pub, con, accepted, got>>

Cells == 1..Cardinality(Pubs) + Cap * Cardinality(Subs)
IdlePub == [pc |-> "idle", c |-> 0, id |-> 0, rest |-> <<>>, pos |-> 0]
NoEnv == [c |-> 0, id |-> 0]
Active(s) == member[s] = "on"

TopicInit ==
    /\ snapshot = <<>> /\ member = [s \in Subs |-> "no"] /\ inflight = 0 /\ sent = 0
    /\ cell = [c \in Cells |-> [rc |-> 0, msg |-> 0]] /\ free = Cells
    /\ box = [s \in Subs |-> [enq |-> 0, deq |-> 0, seq |-> [i \in 0..(Cap - 1) |-> i],
                              env |-> [i \in 0..(Cap - 1) |-> NoEnv]]]
    /\ pub = [p \in Pubs |-> IdlePub]
    /\ con = [s \in Subs |-> [pc |-> "idle", pos |-> 0, env |-> NoEnv]]
    /\ accepted = [s \in Subs |-> <<>>] /\ got = [s \in Subs |-> <<>>]

Goto(p, pc) == pub' = [pub EXCEPT ![p].pc = pc]

\* SharedPayload::release of n references; the last one destroys the value and
\* returns the cell to the pool.
Dropped(refs) == [c \in Cells |-> [cell[c] EXCEPT !.rc = @ - refs[c]]]
release(refs) == /\ cell' = Dropped(refs)
                 /\ free' = free \cup {c \in Cells : refs[c] > 0 /\ cell[c].rc = refs[c]}
One(c) == [x \in Cells |-> IF x = c THEN 1 ELSE 0]
-----------------------------------------------------------------------------
(* Membership, under mu_.                                                      *)

subscribe(s) == /\ member[s] = "no" /\ member' = [member EXCEPT ![s] = "on"]
                /\ snapshot' = Append(snapshot, s)
                /\ UNCHANGED <<inflight, sent, cell, free, box, pub, con, accepted, got>>

unsubscribe(s) == /\ Active(s) /\ member' = [member EXCEPT ![s] = "quiesce"]
                  /\ snapshot' = SelectSeq(snapshot, LAMBDA x : x # s)
                  /\ UNCHANGED <<inflight, sent, cell, free, box, pub, con, accepted, got>>

\* unsubscribe returns once it has seen in_flight_ = 0.
Quiesced_Now(s) == /\ member[s] = "quiesce" /\ member' = [member EXCEPT ![s] = "gone"]
                   /\ UNCHANGED <<snapshot, inflight, sent, cell, free, box, pub, con, accepted, got>>
Quiesced(s) == /\ member[s] = "quiesce" /\ inflight = 0 /\ member' = [member EXCEPT ![s] = "gone"]
               /\ UNCHANGED <<snapshot, inflight, sent, cell, free, box, pub, con, accepted, got>>

\* ~BoundedInbox, after unsubscribe has returned: what is still queued gives
\* its payload references back.
Destroy(s) ==
    LET queued == box[s].deq..(box[s].enq - 1)
    IN /\ member[s] = "gone" /\ con[s].pc = "idle" /\ member' = [member EXCEPT ![s] = "freed"]
       /\ release([c \in Cells |-> Cardinality({i \in queued : box[s].env[i % Cap].c = c})])
       /\ box' = [box EXCEPT ![s].deq = @ + Cardinality(queued)]
       /\ UNCHANGED <<snapshot, inflight, sent, pub, con, accepted, got>>
-----------------------------------------------------------------------------
(* publish.                                                                    *)

Enter(p) == /\ pub[p].pc = "idle" /\ sent + Cardinality({q \in Pubs : pub[q].pc = "load"}) < MaxMsgs
            /\ inflight' = inflight + 1 /\ Goto(p, "load")
            /\ UNCHANGED <<snapshot, member, sent, cell, free, box, con, accepted, got>>

\* With subscribers, the message is moved into a pooled payload that starts
\* with the publisher's own reference.
Load(p) ==
    /\ pub[p].pc = "load"
    /\ IF snapshot = <<>>
       THEN Goto(p, "leave") /\ UNCHANGED <<sent, cell, free>>
       ELSE LET c == CHOOSE x \in free : TRUE
            IN /\ sent' = sent + 1 /\ free' = free \ {c}
               /\ cell' = [cell EXCEPT ![c] = [rc |-> 1, msg |-> sent + 1]]
               /\ pub' = [pub EXCEPT ![p] = [pc |-> "walk", c |-> c, id |-> sent + 1,
                                             rest |-> snapshot, pos |-> 0]]
    /\ UNCHANGED <<snapshot, member, inflight, box, con, accepted, got>>

\* The next subscription of the walk: skipped once inactive, else a reference
\* is taken for it before the push.
Walk(p) ==
    /\ pub[p].pc = "walk"
    /\ IF pub[p].rest = <<>> THEN Goto(p, "drop") /\ UNCHANGED cell
       ELSE IF Active(Head(pub[p].rest))
            THEN cell' = [cell EXCEPT ![pub[p].c].rc = @ + 1] /\ Goto(p, "push")
            ELSE pub' = [pub EXCEPT ![p].rest = Tail(@)] /\ UNCHANGED cell
    /\ UNCHANGED <<snapshot, member, inflight, sent, free, box, con, accepted, got>>

Target(p) == Head(pub[p].rest)
PushDif(s) == box[s].seq[box[s].enq % Cap] - box[s].enq

Skip(p) == pub' = [pub EXCEPT ![p].pc = "walk", ![p].rest = Tail(@)]
Claim(p) ==
    /\ pub' = [pub EXCEPT ![p].pc = "write", ![p].pos = box[Target(p)].enq]
    /\ box' = [box EXCEPT ![Target(p)].enq = @ + 1]
    /\ accepted' = [accepted EXCEPT ![Target(p)] = Append(@, pub[p].id)]
    /\ UNCHANGED cell

\* try_push: the cell's sequence number says that it is free (the position is
\* claimed) or still occupied (full: the reference is given back).
try_push(p) ==
    /\ pub[p].pc = "push"
    /\ \/ PushDif(Target(p)) = 0 /\ Claim(p)
       \/ /\ PushDif(Target(p)) < 0 /\ Skip(p) /\ cell' = Dropped(One(pub[p].c))
          /\ UNCHANGED <<box, accepted>>
    /\ UNCHANGED <<snapshot, member, inflight, sent, free, con, got>>

\* The claimed cell is filled and its sequence number published.
Write(p) ==
    LET s == Target(p) i == pub[p].pos % Cap IN
    /\ pub[p].pc = "write" /\ Skip(p)
    /\ box' = [box EXCEPT ![s].env[i] = [c |-> pub[p].c, id |-> pub[p].id],
                          ![s].seq[i] = pub[p].pos + 1]
    /\ UNCHANGED <<snapshot, member, inflight, sent, cell, free, con, accepted, got>>

\* The publisher's own reference goes last.
Drop(p) == /\ pub[p].pc = "drop" /\ release(One(pub[p].c)) /\ Goto(p, "leave")
           /\ UNCHANGED <<snapshot, member, inflight, sent, box, con, accepted, got>>

Leave(p) == /\ pub[p].pc = "leave" /\ inflight' = inflight - 1 /\ pub' = [pub EXCEPT ![p] = IdlePub]
            /\ UNCHANGED <<snapshot, member, sent, cell, free, box, con, accepted, got>>
-----------------------------------------------------------------------------
(* consume, on the subscriber's lane: claim, take the envelope and hand the    *)
(* cell on, read the payload and release it.                                   *)

try_pop(s) == /\ con[s].pc = "idle" /\ member[s] # "freed"
              /\ box[s].seq[box[s].deq % Cap] = box[s].deq + 1
              /\ box' = [box EXCEPT ![s].deq = @ + 1]
              /\ con' = [con EXCEPT ![s].pc = "take", ![s].pos = box[s].deq]
              /\ UNCHANGED <<snapshot, member, inflight, sent, cell, free, pub, accepted, got>>

TakeEnvelope(s) == /\ con[s].pc = "take"
                   /\ con' = [con EXCEPT ![s].pc = "read", ![s].env = box[s].env[con[s].pos % Cap]]
                   /\ box' = [box EXCEPT ![s].seq[con[s].pos % Cap] = con[s].pos + Cap]
                   /\ UNCHANGED <<snapshot, member, inflight, sent, cell, free, pub, accepted, got>>

consume(s) == /\ con[s].pc = "read" /\ con' = [con EXCEPT ![s].pc = "idle", ![s].env = NoEnv]
              /\ got' = [got EXCEPT ![s] = Append(@, <<con[s].env.id, cell[con[s].env.c].msg>>)]
              /\ release(One(con[s].env.c))
              /\ UNCHANGED <<snapshot, member, inflight, sent, box, pub, accepted>>

TopicNext == \/ \E s \in Subs : \/ subscribe(s) \/ unsubscribe(s) \/ Quiesced(s) \/ Destroy(s)
                                \/ try_pop(s) \/ TakeEnvelope(s) \/ consume(s)
             \/ \E p \in Pubs : \/ Enter(p) \/ Load(p) \/ Walk(p) \/ try_push(p) \/ Write(p)
                                \/ Drop(p) \/ Leave(p)

TopicSpec == TopicInit /\ [][TopicNext]_topicVars
-----------------------------------------------------------------------------

\* Once unsubscribe has returned, no publish touches the departed inbox, so its
\* owner may destroy it (the in_flight_ barrier against the snapshot walk).
NoPushAfterFree == \A p \in Pubs : pub[p].pc \in {"push", "write"} => member[Target(p)] \notin {"gone", "freed"}

\* References of a payload that are held somewhere: by a walking publisher, for
\* a push under way, in an inbox, or by a consumer between pop and release.
RefsTo(c) ==
    LET queued(s) == {i \in box[s].deq..(box[s].enq - 1) : box[s].seq[i % Cap] = i + 1
                                                           /\ box[s].env[i % Cap].c = c}
        taking(s) == IF \/ con[s].pc = "take" /\ box[s].env[con[s].pos % Cap].c = c
                        \/ con[s].pc = "read" /\ con[s].env.c = c THEN 1 ELSE 0
    IN Cardinality({p \in Pubs : pub[p].c = c /\ pub[p].pc \in {"walk", "push", "write", "drop"}})
       + Cardinality({p \in Pubs : pub[p].c = c /\ pub[p].pc \in {"push", "write"}})
       + Cardinality({<<s, i>> \in Subs \X (0..(MaxMsgs - 1)) : i \in queued(s)})
       + Cardinality({s \in Subs : taking(s) = 1})

\* A payload's count is exactly the references that exist, so it is reclaimed
\* once, when the last subscriber, drop or departure is done with it, and a
\* consumer reads the message its envelope was sent for.
PayloadsCounted == /\ \A c \in Cells : cell[c].rc = RefsTo(c) /\ (cell[c].rc = 0 <=> c \in free)
                   /\ \A s \in Subs : \A i \in 1..Len(got[s]) : got[s][i][1] = got[s][i][2]

\* An inbox is bounded, and its subscriber receives what the pushes that
\* returned true put in, in that order: nothing is lost beyond the counted drop.
InboxIsFifo ==
    \A s \in Subs : /\ box[s].enq - box[s].deq <= Cap
                    /\ IsPrefix([i \in 1..Len(got[s]) |-> got[s][i][1]], accepted[s])
=============================================================================
