------------------------------- MODULE Rotation -------------------------------
(* What one SWIM node tells its peers: each control frame carries a digest of  *)
(* the member table, and digests have little room.  News (entries with         *)
(* transmissions left) go first, but part of the room is kept for a rotation   *)
(* over all members, whose list is rebuilt only when an entry was added or     *)
(* erased.  Incarnations and clocks are not kept: any rumour may turn out to   *)
(* be the newer one, and any tombstone may have expired.  Our own entry rides  *)
(* in every digest and is left out of the news.                                *)
EXTENDS Naturals, FiniteSets, Sequences, SequencesExt

CONSTANTS Peers,       \* ids of the other nodes, greater than Self
          Self,
          Outsider,    \* a contact that is not yet a member
          Cap,         \* max_gossip_updates
          Factor,      \* transmissions per bit of the table's size
          MaxTx,       \* what the one-byte counter holds
          MaxLive, MaxTombs,
          Watched,     \* the peer whose turns are counted
          MaxLeaks     \* bound: unverified entries erased with transmissions left

VARIABLES members,   \* members_: a partial function from ids to entries
          pending,   \* tx_pending_
          tombs,     \* tomb_count_
          order,     \* sorted_ids_
          dirty,     \* ids_dirty_
          cursor,    \* digest_cursor_
          unsent,    \* digests since the watched member was in one
          leaks

rotationVars == <<members, pending, tombs, order, dirty, cursor, unsent, leaks>>

Statuses == {"Alive", "Suspect", "Dead", "Left"}
is_tomb(st) == st \in {"Dead", "Left"}
known == DOMAIN members

\* What one update changes together.
table == [members |-> members, pending |-> pending, tombs |-> tombs, dirty |-> dirty]

bit_width(n) == CHOOSE w \in 0..n : n < 2^w /\ \A x \in 0..(w - 1) : 2^x <= n
piggyback_count(t) == LET v == Factor * bit_width(Cardinality(DOMAIN t.members))
                      IN IF v < MaxTx THEN v ELSE MaxTx

set_tx(t, id, v) ==
    LET was == t.members[id].tx
    IN [t EXCEPT !.members[id].tx = v,
                 !.pending = CASE was = 0 /\ v # 0 -> @ + 1
                               [] was # 0 /\ v = 0 -> @ - 1
                               [] OTHER -> @]

\* Every path that erases entries but one takes their transmissions off the
\* count and lets the rotation be rebuilt.
Erased(t, ids) ==
    [t EXCEPT !.members = [id \in DOMAIN t.members \ ids |-> t.members[id]],
              !.pending = @ - Cardinality({id \in ids : t.members[id].tx # 0}),
              !.tombs = @ - Cardinality({id \in ids : is_tomb(t.members[id].status)}),
              !.dirty = TRUE]

\* The Dead go before the Left; which of them is the oldest is the clock's.
Victims(t) ==
    LET graves == {id \in DOMAIN t.members \ {Self} : is_tomb(t.members[id].status)}
        dead == {id \in graves : t.members[id].status = "Dead"}
    IN IF dead # {} THEN dead ELSE graves

\* The tables enforcing the cap may leave: an update adds one tombstone at most.
enforce_tomb_cap(t) ==
    IF t.tombs > MaxTombs THEN {Erased(t, {id}) : id \in Victims(t)} ELSE {t}

Become(t) == /\ members' = t.members /\ pending' = t.pending
             /\ tombs' = t.tombs /\ dirty' = t.dirty

RotationInit ==
    /\ members = [id \in {Self} |-> [status |-> "Alive", verified |-> TRUE, tx |-> 0]]
    /\ pending = 0 /\ tombs = 0 /\ order = <<>> /\ dirty = TRUE /\ cursor = 0
    /\ unsent = 0 /\ leaks = 0

Quiet == UNCHANGED <<order, cursor, unsent, leaks>>

\* apply_update for a node the table does not hold: a death is inserted only
\* when it is our own verdict, a rumour only while there is room.
Insert(id, first_hand, st) ==
    /\ id \notin known /\ st # "Suspect"
    /\ first_hand \/ Cardinality(known) < MaxLive
    /\ is_tomb(st) => ~first_hand
    /\ LET entry == [status |-> st, verified |-> first_hand, tx |-> 0]
           t == [table EXCEPT !.members = [x \in known \cup {id} |-> IF x = id THEN entry ELSE members[x]],
                              !.tombs = IF is_tomb(st) THEN @ + 1 ELSE @, !.dirty = TRUE]
       IN \E after \in enforce_tomb_cap(IF first_hand THEN set_tx(t, id, piggyback_count(table)) ELSE t) :
             Become(after)
    /\ Quiet

\* apply_update for a held node whose rumour is taken: a newer incarnation, or a
\* graver status at the same one.
Take(id, first_hand, st) ==
    /\ id \in known \ {Self}
    /\ ~(members[id].status = "Left" /\ st = "Dead")
    /\ LET was == is_tomb(members[id].status)
           t == [set_tx(table, id, piggyback_count(table)) EXCEPT
                   !.members[id].status = st, !.members[id].verified = @ \/ first_hand,
                   !.tombs = CASE ~was /\ is_tomb(st) -> @ + 1
                               [] was /\ ~is_tomb(st) -> @ - 1
                               [] OTHER -> @]
       IN \E after \in enforce_tomb_cap(t) : Become(after)
    /\ Quiet

\* The rumour is old, but the node spoke for itself for the first time.
Verify(id) ==
    /\ id \in known \ {Self} /\ ~members[id].verified
    /\ Become(set_tx([table EXCEPT !.members[id].verified = TRUE], id, piggyback_count(table)))
    /\ Quiet

\* reap_suspects: a suspicion ran out.
reap_suspects(id) ==
    /\ id \in known /\ members[id].status = "Suspect"
    /\ \E after \in enforce_tomb_cap([set_tx(table, id, piggyback_count(table)) EXCEPT
                                        !.members[id].status = "Dead", !.tombs = @ + 1]) : Become(after)
    /\ Quiet

reap_tombstones(ids) ==
    /\ ids # {} /\ \A id \in ids : id # Self /\ is_tomb(members[id].status)
    /\ Become(Erased(table, ids))
    /\ Quiet

\* The one erasure that leaves tx_pending_ as it is.
reap_unverified(ids) ==
    LET owed == Cardinality({id \in ids : members[id].tx # 0})
    IN /\ ids # {} /\ \A id \in ids : id # Self /\ ~members[id].verified /\ ~is_tomb(members[id].status)
       /\ leaks + owed <= MaxLeaks
       /\ leaks' = leaks + owed
       /\ Become([Erased(table, ids) EXCEPT !.pending = pending])
       /\ UNCHANGED <<order, cursor, unsent>>

------------------------------------------------------------------------------
\* fill_digest.

\* Mutant: news may take the whole digest.
reserved_None(others) == 0

reserved(others) == LET half == IF Cap > 2 THEN (Cap - 1) \div 2 ELSE 0
                    IN IF others < half THEN others ELSE half

\* refresh_sorted_ids: members alive and heard from first-hand, in id order.
Refreshed == IF ~dirty THEN order
             ELSE SetToSortSeq({id \in known : ~is_tomb(members[id].status)
                                               /\ (members[id].verified \/ id = Self)}, <)

\* Pushing an entry spends one of its transmissions.
Pushed(t, ids) ==
    LET spent == {id \in ids : t.members[id].tx # 0}
    IN [t EXCEPT !.members = [id \in DOMAIN @ |-> IF id \in spent THEN [@[id] EXCEPT !.tx = @ - 1] ELSE @[id]],
                 !.pending = @ - Cardinality({id \in spent : t.members[id].tx = 1})]

\* One pass over the table, in no particular order: what it may add to a digest
\* with room for so many.
NewsSets(t, skip, room, suspects) ==
    LET news == {id \in DOMAIN t.members \ skip :
                   /\ t.members[id].tx # 0 /\ t.members[id].verified
                   /\ (t.members[id].status = "Suspect") = suspects}
    IN IF t.pending = 0 \/ room = 0 THEN {{}}
       ELSE {s \in SUBSET news : Cardinality(s) = IF Cardinality(news) < room THEN Cardinality(news) ELSE room}

\* The ids in the order the rotation visits them: after the cursor, then around.
Visits(ids) == SelectSeq(ids, LAMBDA id : id > cursor) \o SelectSeq(ids, LAMBDA id : id <= cursor)

\* The entries the rotation adds.  An id the table does not hold is not looked
\* up here; RotationHasNoStrangers says there is none.
Rotated(ids, t, out, to) ==
    LET fits == SelectSeq(Visits(ids), LAMBDA id : id \notin out \cup {to, Self} /\ id \in DOMAIN t.members
                                                   /\ t.members[id].verified)
        room == Cap - Cardinality(out)
    IN SubSeq(fits, 1, IF Len(fits) < room THEN Len(fits) ELSE room)

fill_digest(to) ==
    LET fixed == ({to} \cap known) \cup (IF to \in known /\ Cap = 1 THEN {} ELSE {Self})
        piggy_cap == Cap - reserved(Cardinality(known) - Cardinality(fixed))
        Room(n) == IF n < piggy_cap THEN piggy_cap - n ELSE 0
        t0 == Pushed(table, fixed)
        skip == {to, Self}
    IN \E first \in NewsSets(t0, skip, Room(Cardinality(fixed)), TRUE) :
         LET t1 == Pushed(t0, first)
             out1 == fixed \cup first
         IN \E second \in NewsSets(t1, skip, Room(Cardinality(out1)), FALSE) :
              LET t2 == Pushed(t1, second)
                  out == out1 \cup second
                  full == Cardinality(out) >= Cap
                  turn == IF full THEN <<>> ELSE Rotated(Refreshed, t2, out, to)
              IN /\ Become([t2 EXCEPT !.dirty = dirty /\ full])
                 /\ order' = IF full THEN order ELSE Refreshed
                 /\ cursor' = IF turn = <<>> THEN cursor ELSE Last(turn)
                 /\ unsent' = IF Watched \notin Range(order') \/ Watched \in out \cup Range(turn)
                                   \/ Watched \notin known \/ ~members[Watched].verified
                                THEN 0 ELSE unsent + 1
                 /\ UNCHANGED leaks

RotationNext ==
    \/ \E id \in Peers, first_hand \in BOOLEAN, st \in Statuses :
          Insert(id, first_hand, st) \/ Take(id, first_hand, st)
    \/ \E id \in Peers : Verify(id) \/ reap_suspects(id)
    \/ \E ids \in SUBSET (known \cap Peers) : reap_tombstones(ids) \/ reap_unverified(ids)
    \/ \E to \in Peers \cup {Outsider} : fill_digest(to)

RotationSpec == RotationInit /\ [][RotationNext]_rotationVars

------------------------------------------------------------------------------
\* While the list counts as fresh, every id on it is in the table: fill_digest
\* looks each of them up and uses the answer without asking whether there is one
\* (cluster.hpp:1130), so an erasure that forgets the flag reads past the table.
RotationHasNoStrangers == dirty \/ Range(order) \subseteq known

\* News are never overlooked: while a member the digests may mention has
\* transmissions left, the counter that gates the two passes is not zero.
NewsIsSeen ==
    (\E id \in known : members[id].tx # 0) => pending > 0

\* However much news there is, a member of the rotation is in one of any few
\* digests in a row: the room kept for the rotation, and a cursor that goes on
\* from where it was, reach everybody ("eventually re-sent").
RotationReachesAll == Cap > 2 => unsent < Cardinality(Peers)
==============================================================================
