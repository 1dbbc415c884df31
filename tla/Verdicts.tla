------------------------------ MODULE Verdicts -------------------------------
(* What a node holds against others, and how it publishes it: the registry  *)
(* of revoked certificates, and the verdicts on nodes that placement and    *)
(* the transports read.  The two share no state; each has its own variables *)
(* and next-state relation.                                                 *)
EXTENDS Naturals, FiniteSets, SequencesExt, Sequences

(* The registry of revoked certificates (core/revocation_registry.hpp and   *)
(* the records of core/signed_revocation.hpp): fingerprints revoked here,   *)
(* by gossip, or by a record a trust anchor signed. Signatures are verified *)
(* between two critical sections, so the registry may change in between.    *)

CONSTANTS Callers,           \* threads in merge_signed or revoke
          Fps, ProtectedFps,
          Records,           \* [fp, root, exp, good]: exp is not_after, good that the signature verifies
          CurrentRoots,
          MaxEntries, MaxSigned, MaxPerMerge, Burst, PerSecond, Skew,
          MaxTime, MaxVerifies

VARIABLES now,
          reg,        \* the members guarded by mu_
          call,       \* each caller: [pc, at, cands, paid]
          verifies    \* signatures checked for merges

revVars == <<now, reg, call, verifies>>

Idle == [pc |-> "idle", at |-> 0, cands |-> <<>>, paid |-> FALSE]
Fn == [x \in {} |-> 0]

\* republish_locked.
republish(r) == [r EXCEPT !.snapshot = r.local \cup r.gossiped \cup DOMAIN r.signed]

RevInit ==
    /\ now = 0 /\ verifies = 0
    /\ reg = [signedMode |-> FALSE, authorityOnly |-> FALSE,
              local |-> {}, gossiped |-> {}, signed |-> Fn, order |-> <<>>, cursor |-> 0,
              tokens |-> 0, refilled |-> 0, pruned |-> 0, snapshot |-> {}]
    /\ call = [c \in Callers |-> Idle]

Tick == now < MaxTime /\ now' = now + 1 /\ UNCHANGED <<reg, call, verifies>>
-----------------------------------------------------------------------------
(* The unsigned registry.                                                      *)

is_revoked_locked(fp) == fp \in reg.local \cup reg.gossiped \cup DOMAIN reg.signed

set_authority_only(on) ==
    /\ reg' = [reg EXCEPT !.authorityOnly = on] /\ UNCHANGED <<now, call, verifies>>

\* merge: the new, unprotected fingerprints the cap still has room for.
merge(incoming) ==
    /\ ~reg.signedMode /\ ~reg.authorityOnly
    /\ LET fresh == {fp \in incoming \ ProtectedFps : ~is_revoked_locked(fp)}
           room  == MaxEntries - Cardinality(reg.gossiped)
       IN \E kept \in SUBSET fresh :
            /\ Cardinality(kept) = IF Cardinality(fresh) < room THEN Cardinality(fresh) ELSE room
            /\ kept # {}
            /\ reg' = republish([reg EXCEPT !.gossiped = @ \cup kept])
    /\ UNCHANGED <<now, call, verifies>>

revoke_locally(fp) ==
    /\ fp \notin reg.local
    /\ reg' = republish([reg EXCEPT !.local = @ \cup {fp}])
    /\ UNCHANGED <<now, call, verifies>>

enable_signed ==
    /\ ~reg.signedMode
    /\ reg' = republish([reg EXCEPT !.signedMode = TRUE, !.tokens = Burst, !.gossiped = {}])
    /\ UNCHANGED <<now, call, verifies>>
-----------------------------------------------------------------------------
(* Signed records.                                                             *)

expired(rec, t) == rec.exp <= t /\ t - rec.exp > Skew
is_current_root(root) == root \in CurrentRoots
\* A held record gives way only to one of the current root when its own root is not.
rotates(c) == is_current_root(c.rec.root) /\ ~is_current_root(c.heldRoot)
Candidate(r, rec) == [rec |-> rec, held |-> rec.fp \in DOMAIN r.signed,
                      heldRoot |-> IF rec.fp \in DOMAIN r.signed THEN r.signed[rec.fp].root ELSE 0]
SameAnchor(r, rec) == rec.fp \in DOMAIN r.signed /\ r.signed[rec.fp].root = rec.root
Put(f, k, v) == [x \in DOMAIN f \cup {k} |-> IF x = k THEN v ELSE f[x]]

\* refill_locked. A clock that was set back only restarts the count.
refilled(r) ==
    LET elapsed == now - r.refilled
        gained == IF elapsed >= Burst THEN Burst ELSE r.tokens + elapsed * PerSecond
    IN IF now < r.refilled THEN [r EXCEPT !.refilled = now]
       ELSE [r EXCEPT !.refilled = now, !.tokens = IF gained < Burst THEN gained ELSE Burst]

\* The first section of merge_signed: one blob, to a candidate that pays a token.
collect(acc, rec) ==
    LET c == Candidate(acc.reg, rec) IN
    IF \/ rec.fp \in acc.seen
       \/ expired(rec, now)
       \/ SameAnchor(acc.reg, rec)
       \/ ~c.held /\ Cardinality(DOMAIN acc.reg.signed) + acc.fresh >= MaxSigned
       \/ Len(acc.cands) >= MaxPerMerge \/ acc.reg.tokens = 0
    THEN [acc EXCEPT !.seen = @ \cup {rec.fp}]
    ELSE [acc EXCEPT !.seen = @ \cup {rec.fp}, !.cands = Append(@, c),
                     !.fresh = IF c.held THEN @ ELSE @ + 1, !.reg.tokens = @ - 1]

merge_signed(m, blobs) ==
    /\ call[m].pc = "idle" /\ reg.signedMode
    /\ LET got == FoldLeft(collect, [reg |-> refilled(reg), seen |-> {}, cands |-> <<>>, fresh |-> 0], blobs)
       IN /\ got.cands # <<>>
          /\ reg' = got.reg
          /\ call' = [call EXCEPT ![m] = [pc |-> "verify", at |-> now, cands |-> got.cands, paid |-> TRUE]]
    /\ UNCHANGED <<now, verifies>>

\* revoke, the operator's call, pays no token.
revoke(m, rec) ==
    /\ call[m].pc = "idle" /\ reg.signedMode
    /\ ~expired(rec, now) /\ ~SameAnchor(reg, rec)
    /\ rec.fp \in DOMAIN reg.signed \/ Cardinality(DOMAIN reg.signed) < MaxSigned
    /\ call' = [call EXCEPT ![m] = [pc |-> "verify", at |-> now, cands |-> <<Candidate(reg, rec)>>, paid |-> FALSE]]
    /\ UNCHANGED <<now, reg, verifies>>

\* Off the lock: a candidate that would not rotate is not verified.
Checked(cands) == SelectSeq(cands, LAMBDA c : ~c.held \/ rotates(c))
Verified(cands) == SelectSeq(Checked(cands), LAMBDA c : c.rec.good)

\* apply_locked decides again on what the registry holds by now.
apply_locked(r, c, at) ==
    IF expired(c.rec, IF at > r.pruned THEN at ELSE r.pruned) THEN r
    ELSE IF c.rec.fp \in DOMAIN r.signed
    THEN IF c.held /\ r.signed[c.rec.fp].root = c.heldRoot THEN [r EXCEPT !.signed[c.rec.fp] = c.rec] ELSE r
    ELSE IF Cardinality(DOMAIN r.signed) >= MaxSigned THEN r
    ELSE [r EXCEPT !.signed = Put(@, c.rec.fp, c.rec), !.order = Append(@, c.rec.fp)]

Refund(cands) == Len(cands) - Len(Checked(cands))

\* The second section of both calls.
apply(m) ==
    /\ call[m].pc = "verify"
    /\ LET k == call[m]
           back == IF k.paid THEN reg.tokens + Refund(k.cands) ELSE reg.tokens
           paidBack == [reg EXCEPT !.tokens = IF back < Burst THEN back ELSE Burst]
           next == FoldLeft(LAMBDA r, c : apply_locked(r, c, k.at), paidBack, Verified(k.cands))
       IN /\ reg' = IF DOMAIN next.signed = DOMAIN reg.signed THEN next ELSE republish(next)
          /\ verifies' = IF k.paid THEN verifies + Len(Checked(k.cands)) ELSE verifies
          /\ verifies' <= MaxVerifies
    /\ call' = [call EXCEPT ![m] = Idle]
    /\ UNCHANGED now

prune_Signed(r, kept) ==
    [r EXCEPT !.pruned = IF now > @ THEN now ELSE @, !.signed = [fp \in kept |-> r.signed[fp]]]
prune(r, kept) ==
    [r EXCEPT !.pruned = IF now > @ THEN now ELSE @, !.signed = [fp \in kept |-> r.signed[fp]],
              !.order = SelectSeq(@, LAMBDA fp : fp \in kept)]
prune_expired ==
    LET kept == {fp \in DOMAIN reg.signed : ~expired(reg.signed[fp], now)} IN
    /\ reg.pruned # now
    /\ reg' = republish(prune(reg, kept))
    /\ UNCHANGED <<now, call, verifies>>

\* sample_signed: the next batch in turn, to gossip.
sample_signed(max) ==
    /\ reg.order # <<>>
    /\ LET n == IF max < Len(reg.order) THEN max ELSE Len(reg.order)
       IN reg' = [reg EXCEPT !.cursor = ((reg.cursor % Len(reg.order)) + n) % Len(reg.order)]
    /\ UNCHANGED <<now, call, verifies>>
-----------------------------------------------------------------------------
Blobs == UNION {[1..n -> Records] : n \in 1..2}

RevNext ==
    \/ Tick
    \/ \E on \in BOOLEAN : set_authority_only(on)
    \/ \E s \in SUBSET Fps : merge(s)
    \/ \E fp \in Fps : revoke_locally(fp)
    \/ enable_signed
    \/ \E m \in Callers, b \in Blobs : merge_signed(m, b)
    \/ \E m \in Callers, rec \in Records : revoke(m, rec)
    \/ \E m \in Callers : apply(m)
    \/ prune_expired
    \/ sample_signed(1)

\* A record that was pruned as expired does not come back through a merge that
\* collected it before the pruning: nothing held is expired at the last prune
\* (apply_locked, revocation_registry.hpp:414).
PrunedStaysOut == \A fp \in DOMAIN reg.signed : ~expired(reg.signed[fp], reg.pruned)

\* What is published and what is offered to peers is what is held: the snapshot
\* is the union of the three sets, and the sampling order names each held record
\* once (sample_signed takes signed_.at of every entry, :333).
PublishedIsHeld ==
    /\ reg.snapshot = reg.local \cup reg.gossiped \cup DOMAIN reg.signed
    /\ IsInjective(reg.order) /\ ToSet(reg.order) = DOMAIN reg.signed

\* Merges cannot push the registry past its cap, though each counts the room
\* before it verifies (:282 and :420).
CapHolds == Cardinality(DOMAIN reg.signed) <= MaxSigned /\ Cardinality(reg.gossiped) <= MaxEntries

\* The signatures that gossip makes this node check are bounded by the bucket:
\* a bad signature has cost its token (:290-309).
VerifiesBounded == verifies <= Burst + now * PerSecond

-----------------------------------------------------------------------------
(* The published verdicts on nodes (core/admission.hpp, core/node_authority *)
(* .hpp): immutable snapshots swapped under a mutex that stays held while   *)
(* the listeners run, and read without it by placement and by the           *)
(* transports.                                                              *)

CONSTANTS Threads, Nodes, Listeners, MaxGen

VARIABLES current,     \* [gen, verdict: node -> "Admit" | "LogExchangeOnly"]
          mu,          \* the owner of mu_, or 0
          listeners,   \* registered slots, in order
          th,          \* each thread: [pc, arg, i]
          seen         \* what each listener was last called with: [gen, nodes]

admVars == <<current, mu, listeners, th, seen>>

Resting == [pc |-> "idle", arg |-> 0, i |-> 0]
Snapshot(g, v) == [gen |-> g, verdict |-> v]
NoVerdicts == [n \in {} |-> "Deny"]
Unseen == [gen |-> 0, nodes |-> {}]

AdmInit ==
    /\ current = Snapshot(0, NoVerdicts) /\ mu = 0 /\ listeners = <<>>
    /\ th = [t \in Threads |-> Resting] /\ seen = [l \in Listeners |-> Unseen]

\* lookup: a node no entry names is denied.
lookup(s, n) == IF n \in DOMAIN s.verdict THEN s.verdict[n] ELSE "Deny"
Admits(s) == {n \in Nodes : lookup(s, n) = "Admit"}

Lock(t) == mu = 0 /\ mu' = t
At(t, pc) == th[t].pc = pc
Goto(t, pc, arg, i) == th' = [th EXCEPT ![t] = [pc |-> pc, arg |-> arg, i |-> i]]
Registered(l) == \E k \in DOMAIN listeners : listeners[k] = l

add_listener(t, l) ==
    /\ At(t, "idle") /\ Lock(t) /\ ~Registered(l)
    /\ listeners' = Append(listeners, l)
    /\ Goto(t, "unlock", 0, 0)
    /\ UNCHANGED <<current, seen>>

\* remove_listener waits out a publish: its listener is not running when it returns.
remove_listener(t, l) ==
    /\ At(t, "idle") /\ Lock(t) /\ Registered(l)
    /\ listeners' = SelectSeq(listeners, LAMBDA x : x # l)
    /\ seen' = [seen EXCEPT ![l] = Unseen]
    /\ Goto(t, "unlock", 0, 0)
    /\ UNCHANGED current

\* publish asks for the mutex, off a listener of this thread only.
MayPublish(t) == At(t, "idle")
publish(t, v) ==
    /\ MayPublish(t)
    /\ Goto(t, "lock", v, 0)
    /\ UNCHANGED <<current, mu, listeners, seen>>

\* With the mutex: an older or equal generation is refused, a newer one is swapped in.
Newer(s) == s.gen > current.gen
publish_locked(t) ==
    /\ At(t, "lock") /\ Lock(t)
    /\ IF Newer(th[t].arg)
       THEN current' = th[t].arg /\ Goto(t, "notify", th[t].arg, 1)
       ELSE UNCHANGED current /\ Goto(t, "unlock", 0, 0)
    /\ UNCHANGED <<listeners, seen>>

\* The next listener, under the mutex.
notify(t) ==
    /\ At(t, "notify") /\ th[t].i <= Len(listeners)
    /\ seen' = [seen EXCEPT ![listeners[th[t].i]] = [gen |-> th[t].arg.gen, nodes |-> Admits(th[t].arg)]]
    /\ Goto(t, "notify", th[t].arg, th[t].i + 1)
    /\ UNCHANGED <<current, mu, listeners>>

unlock(t) ==
    /\ At(t, "unlock") \/ (At(t, "notify") /\ th[t].i > Len(listeners))
    /\ mu' = IF mu = t THEN 0 ELSE mu
    /\ Goto(t, "idle", 0, 0)
    /\ UNCHANGED <<current, listeners, seen>>
-----------------------------------------------------------------------------
Verdicts == {NoVerdicts} \cup {[n \in {k} |-> a] : k \in Nodes, a \in {"Admit", "LogExchangeOnly"}}

AdmNext == \E t \in Threads :
    \/ \E l \in Listeners : add_listener(t, l) \/ remove_listener(t, l)
    \/ \E g \in 1..MaxGen, v \in Verdicts : publish(t, Snapshot(g, v))
    \/ publish_locked(t) \/ notify(t) \/ unlock(t)

\* Two publishers cannot leave a listener acting on an older verdict than the one
\* readers use: with no publish under way, a listener that was ever called knows
\* the nodes the current snapshot admits (publish, admission.hpp:150-161).
ListenersAgree == \A l \in Listeners :
    mu = 0 /\ seen[l].gen # 0 => seen[l] = [gen |-> current.gen, nodes |-> Admits(current)]

\* A publish made by a listener is refused instead of waiting for the mutex its
\* own thread holds (publish, :146).
NobodyWaitsForItself == \A t \in Threads : At(t, "lock") => mu # t

MovesForward == current'.gen >= current.gen /\ (current' # current => current'.gen > current.gen)

\* Verdicts only move forward: no publish, however late it gets the mutex, puts
\* back a snapshot older than the one placement and the transports already used
\* (:151).
GenerationsGrow == [][MovesForward]_admVars
=============================================================================
