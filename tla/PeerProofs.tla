----------------------------- MODULE PeerProofs ------------------------------
(***************************************************************************)
(* What a node may believe of its peers: Swim keeps every member table     *)
(* sound, for any finite set of nodes and any bounds                       *)
(* (Spec => []TableIsSound), and SecureTransport keeps its promises about  *)
(* sessions, for every number of handshakes, records, cuts and             *)
(* publications (SecureSpec => []SessionsKeepVerdicts).  The two share no  *)
(* state (MCPeers runs them together); the second part stands on its own.  *)
(*                                                                         *)
(* Swim.  The inductive invariant Inv is per node (Sound) and per frame    *)
(* (Honest).  Sound is kept by apply_update, by batches of updates (a      *)
(* fold, taken apart below), by the housekeeping of a tick and by each     *)
(* handler; Honest says that no frame in flight names an incarnation that  *)
(* was not issued, which is what lets a digest be merged without looking   *)
(* at who sent it.                                                         *)
(***************************************************************************)
EXTENDS Swim, SecureTransport, FiniteSetTheorems, SequenceTheorems, TLAPS

-----------------------------------------------------------------------------
(* Folds over a finite set, taken apart.                                     *)

\* What holds of a set as soon as it holds of all its strict subsets, holds of
\* every finite set.
LEMMA SetInduction ==
  ASSUME NEW D, IsFiniteSet(D), NEW G,
         \A P \in SUBSET D : (\A Q \in (SUBSET P) \ {P} : Q \in G) => P \in G
  PROVE  SUBSET D \subseteq G
<1> DEFINE R == StrictSubsetOrdering(D)
           B == (SUBSET D) \ G
<1>1. IsWellFoundedOn(R, SUBSET D)
  BY FS_StrictSubsetOrderingWellFounded, FS_FiniteSubsetsOfFinite
<1>2. SUFFICES ASSUME B # {} PROVE FALSE
  OBVIOUS
<1>3. PICK P \in B : \A Q \in B : ~(<<Q, P>> \in R)
  <2> HIDE DEF R, B
  <2>1. B \subseteq SUBSET D
    BY DEF B
  <2> QED BY <1>1, <1>2, <2>1, WFMin
<1>4. ASSUME NEW Q \in (SUBSET P) \ {P} PROVE Q \in G
  <2>1. <<Q, P>> \in R /\ Q \in SUBSET D
    BY <1>3 DEF StrictSubsetOrdering
  <2> QED BY <1>3, <2>1
<1> QED BY <1>3, <1>4

\* Induction over the naturals, for a set.
LEMMA NatSetInduction ==
  ASSUME NEW S, 0 \in S, \A n \in Nat : n \in S => n + 1 \in S
  PROVE  Nat \subseteq S
<1> DEFINE R == OpToRel(<, Nat)
           T == Nat \ S
<1>1. IsWellFoundedOn(R, Nat)
  BY NatLessThanWellFounded
<1>2. SUFFICES ASSUME T # {} PROVE FALSE
  OBVIOUS
<1>3. PICK x \in T : \A y \in T : ~(<<y, x>> \in R)
  <2> HIDE DEF R, T
  <2>1. T \subseteq Nat  BY DEF T
  <2> QED BY <1>1, <1>2, <2>1, WFMin
<1>4. x \in Nat /\ x # 0 /\ x - 1 \in Nat
  OBVIOUS
<1>5. x - 1 \in T
  BY <1>4
<1>6. <<x - 1, x>> \in R
  BY <1>4 DEF OpToRel
<1> QED BY <1>3, <1>5, <1>6

\* A recursion over the subsets of a finite set has a solution.
Chooses(c, D) == \A P \in SUBSET D : P # {} => c[P] \in P
Recurs(f, D, s, g, c) ==
    \A P \in SUBSET D : f[P] = IF P = {} THEN s ELSE g[<<c[P], f[P \ {c[P]}]>>]

LEMMA FoldTable ==
  ASSUME NEW D, IsFiniteSet(D), NEW T, NEW s \in T, NEW g \in [D \X T -> T], NEW c, Chooses(c, D)
  PROVE  \E f \in [SUBSET D -> T] : Recurs(f, D, s, g, c)
<1> DEFINE Law(f, P) == f[P] = IF P = {} THEN s ELSE g[<<c[P], f[P \ {c[P]}]>>]
           K == {n \in Nat : \E f \in [SUBSET D -> T] :
                    \A P \in SUBSET D : Cardinality(P) <= n => Law(f, P)}
<1>1. ASSUME NEW P \in SUBSET D
      PROVE  /\ IsFiniteSet(P) /\ Cardinality(P) \in Nat /\ (Cardinality(P) = 0 <=> P = {})
             /\ P # {} => P \ {c[P]} \in SUBSET D /\ Cardinality(P \ {c[P]}) = Cardinality(P) - 1
  BY FS_Subset, FS_CardinalityType, FS_EmptySet, FS_RemoveElement DEF Chooses
<1>2. 0 \in K
  <2> DEFINE f == [P \in SUBSET D |-> s]
  <2>1. f \in [SUBSET D -> T]
    OBVIOUS
  <2>2. ASSUME NEW P \in SUBSET D, Cardinality(P) <= 0 PROVE Law(f, P)
    <3>1. Cardinality(P) \in Nat /\ (Cardinality(P) = 0 <=> P = {})
      BY <1>1
    <3>2. P = {}
      BY <2>2, <3>1
    <3> QED BY <3>2
  <2> HIDE DEF f
  <2> QED BY <2>1, <2>2
<1>3. ASSUME NEW n \in Nat, n \in K PROVE n + 1 \in K
  <2>1. PICK f \in [SUBSET D -> T] : \A P \in SUBSET D : Cardinality(P) <= n => Law(f, P)
    BY <1>3
  <2> DEFINE h == [P \in SUBSET D |-> IF Cardinality(P) <= n \/ P = {} THEN f[P] ELSE g[<<c[P], f[P \ {c[P]}]>>]]
  <2>2. ASSUME NEW P \in SUBSET D, P # {} PROVE <<c[P], f[P \ {c[P]}]>> \in D \X T
    <3>1. c[P] \in D /\ P \ {c[P]} \in SUBSET D
      BY <2>2 DEF Chooses
    <3> QED BY <3>1
  <2>3. h \in [SUBSET D -> T]
    <3>1. ASSUME NEW P \in SUBSET D PROVE h[P] \in T
      BY <2>2
    <3> QED BY <3>1
  <2>4. ASSUME NEW P \in SUBSET D, Cardinality(P) <= n + 1 PROVE Law(h, P)
    <3>1. CASE P = {}
      <4>1. Cardinality(P) <= n
        <5>1. Cardinality(P) = 0
          BY <1>1, <3>1
        <5> QED BY <5>1
      <4>2. f[P] = s
        BY <2>1, <3>1, <4>1
      <4> QED BY <3>1, <4>2
    <3>2. CASE P # {}
      <4> DEFINE Q == P \ {c[P]}
      <4>1. Q \in SUBSET D /\ Cardinality(Q) <= n
        <5>1. /\ Q \in SUBSET D /\ Cardinality(Q) = Cardinality(P) - 1
              /\ Cardinality(P) \in Nat
          BY <1>1, <3>2
        <5> QED BY <2>4, <5>1
      <4>2. h[Q] = f[Q]
        BY <4>1
      <4>3. h[P] = g[<<c[P], f[Q]>>]
        <5>1. CASE Cardinality(P) <= n
          BY <2>1, <3>2, <5>1
        <5>2. CASE ~(Cardinality(P) <= n)
          BY <3>2, <5>2
        <5> QED BY <5>1, <5>2
      <4> QED BY <3>2, <4>2, <4>3
    <3> QED BY <3>1, <3>2
  <2> HIDE DEF h, Law
  <2> QED BY <2>3, <2>4
<1>4. Nat \subseteq K
  <2> HIDE DEF K
  <2> QED BY <1>2, <1>3, NatSetInduction
<1>5. Cardinality(D) \in Nat /\ \A P \in SUBSET D : Cardinality(P) <= Cardinality(D)
  BY FS_Subset, FS_CardinalityType
<1>6. PICK f \in [SUBSET D -> T] : \A P \in SUBSET D : Cardinality(P) <= Cardinality(D) => Law(f, P)
  BY <1>4, <1>5
<1> QED BY <1>5, <1>6 DEF Recurs

\* The updates of apply_all, one by one: f[P] is what those of P make of s.
Folded(f, s, n, D, upd, src, recent) ==
    /\ f[{}] = s
    /\ \A P \in SUBSET D : P # {} => \E p \in P :
          f[P] = apply_update(f[P \ {p}], n, p, upd[p].inc, upd[p].st, src, p \in recent)

LEMMA ApplyAllFolds ==
  ASSUME NEW D, IsFiniteSet(D), NEW T, NEW s \in T, NEW n, NEW upd, NEW src, NEW recent,
         \A p \in D, t \in T : apply_update(t, n, p, upd[p].inc, upd[p].st, src, p \in recent) \in T
  PROVE  \E f : Folded(f, s, n, D, upd, src, recent) /\ apply_all(s, n, D, upd, src, recent) = f[D]
<1> DEFINE op(p, t) == apply_update(t, n, p, upd[p].inc, upd[p].st, src, p \in recent)
           c == [P \in SUBSET D |-> CHOOSE p \in P : TRUE]
           Law(f, P) == IF P = {} THEN s
                        ELSE op(CHOOSE p \in P : TRUE, f[P \ {CHOOSE p \in P : TRUE}])
           g == [z \in D \X T |-> op(z[1], z[2])]
           it == CHOOSE f : f = [P \in SUBSET D |-> Law(f, P)]
<1>1. apply_all(s, n, D, upd, src, recent) = it[D]
  BY DEF apply_all, FoldSet, MapThenFoldSet
<1> HIDE DEF op
<1>2. \A P \in SUBSET D : P # {} => (CHOOSE p \in P : TRUE) \in P
  OBVIOUS
<1>3. g \in [D \X T -> T] /\ Chooses(c, D)
  BY <1>2 DEF op, Chooses
<1>4. PICK f \in [SUBSET D -> T] : Recurs(f, D, s, g, c)
  <2> HIDE DEF g, c
  <2> QED BY <1>3, FoldTable
<1>5. ASSUME NEW P \in SUBSET D PROVE f[P] = Law(f, P)
  <2>1. CASE P = {}
    BY <1>4, <2>1 DEF Recurs
  <2>2. CASE P # {}
    <3> DEFINE x == CHOOSE p \in P : TRUE
    <3>1. c[P] = x /\ x \in D /\ P \ {x} \in SUBSET D
      BY <1>2, <2>2
    <3> HIDE DEF x, c
    <3>2. f[P] = g[<<x, f[P \ {x}]>>] /\ f[P \ {x}] \in T
      BY <1>4, <2>2, <3>1 DEF Recurs
    <3>3. f[P] = op(x, f[P \ {x}])
      BY <3>1, <3>2
    <3> QED BY <2>2, <3>3 DEF x
  <2> QED BY <2>1, <2>2
<1>6. f = [P \in SUBSET D |-> Law(f, P)]
  BY <1>5
<1>7. it = [P \in SUBSET D |-> Law(it, P)]
  <2> HIDE DEF Law
  <2> QED BY <1>6
<1>8. \A P \in SUBSET D : it[P] = Law(it, P)
  <2> HIDE DEF Law, it
  <2> QED BY <1>7
<1> HIDE DEF it
<1>9. Folded(it, s, n, D, upd, src, recent)
  BY <1>2, <1>8 DEF Folded, op
<1> QED BY <1>1, <1>9
-----------------------------------------------------------------------------
(* What holds of one node between its operations.                            *)

\* The members a node places actors on.
PlacedOf(s) == {p \in Live(s) : s.tab[p].ver}

\* The published views are those of the table.
Views(s) == s.live = Live(s) /\ s.placed = PlacedOf(s) /\ s.roster = PlacedOf(s)

\* A lease is held of a verified Alive member other than the node.
Shields(s, n) == \A p \in Nodes : s.lease[p] # 0 =>
                     p # n /\ s.tab[p] # None /\ s.tab[p].st = "Alive" /\ s.tab[p].ver

\* The node's own entry, and what the node never does to itself.
Own(s, n) == /\ s.tab[n] # None /\ s.tab[n].inc = s.inc /\ s.tab[n].ver
             /\ s.tab[n].st = IF s.left THEN "Left" ELSE "Alive"
             /\ n \notin s.denied
             /\ s.probe.to # n /\ (s.probe.indirect => s.probe.to # None)

\* A denial that was applied stays applied.
Clean(s) == ~s.dirty => s.denied \cap Live(s) = {}

\* The incarnations of other members are among those of A.
Issued(s, n, A) == \A p \in Known(s) \ {n} : <<p, s.tab[p].inc>> \in A

Sound(s, n, A) == s \in NodeState /\ Views(s) /\ Shields(s, n) /\ Own(s, n) /\ Clean(s) /\ Issued(s, n, A)

\* t is s but for the incarnation, the table, the leases and the views.
Same(s, t) == /\ t.up = s.up /\ t.left = s.left /\ t.asleep = s.asleep /\ t.probe = s.probe
              /\ t.denied = s.denied /\ t.dirty = s.dirty

\* Outside D the rows and the leases are those of s.
Others(s, t, D) == \A q \in Nodes \ D : t.tab[q] = s.tab[q] /\ t.lease[q] = s.lease[q]

Tables == [Nodes -> Entry \cup {None}]

\* One row of the table changes.
RowIs(s, t, p, e) ==
    /\ t.tab \in Tables /\ t.tab[p] = e /\ e # None /\ \A q \in Nodes \ {p} : t.tab[q] = s.tab[q]
    /\ Known(t) = Known(s) \cup {p}
    /\ Live(t) = IF is_tomb(e.st) THEN Live(s) \ {p} ELSE Live(s) \cup {p}
    /\ PlacedOf(t) = IF ~is_tomb(e.st) /\ e.ver THEN PlacedOf(s) \cup {p} ELSE PlacedOf(s) \ {p}

LEMMA RowChange ==
  ASSUME NEW s, NEW t, NEW p \in Nodes, NEW e \in Entry, s.tab \in Tables, t.tab = [s.tab EXCEPT ![p] = e]
  PROVE  RowIs(s, t, p, e)
<1>1. /\ t.tab \in Tables /\ t.tab[p] = e /\ e # None
      /\ \A q \in Nodes \ {p} : t.tab[q] = s.tab[q]
  BY NodesAssumption DEF Tables
<1>2. Known(t) = Known(s) \cup {p}
  BY <1>1 DEF Known
<1>3. Live(t) = IF is_tomb(e.st) THEN Live(s) \ {p} ELSE Live(s) \cup {p}
  BY <1>1, <1>2 DEF Live
<1>4. PlacedOf(t) = IF ~is_tomb(e.st) /\ e.ver THEN PlacedOf(s) \cup {p} ELSE PlacedOf(s) \ {p}
  BY <1>1, <1>3 DEF PlacedOf
<1> QED BY <1>1, <1>2, <1>3, <1>4 DEF RowIs

\* A new row of another member, with the views that belong to it.
LEMMA RowKeeps ==
  ASSUME NEW n \in Nodes, NEW A, NEW s, Sound(s, n, A), NEW t \in NodeState, Same(s, t), t.inc = s.inc,
         NEW p \in Nodes, p # n, NEW e \in Entry, t.tab = [s.tab EXCEPT ![p] = e], <<p, e.inc>> \in A,
         t.lease = s.lease \/ t.lease = [s.lease EXCEPT ![p] = 0],
         t.lease[p] # 0 => e.st = "Alive" /\ e.ver,
         Views(t), s.dirty \/ is_tomb(e.st) \/ p \in Live(s) \/ p \notin s.denied
  PROVE  Sound(t, n, A) /\ Others(s, t, {p}) /\ t.tab[p] = e
<1>1. s.tab \in Tables /\ s.lease \in [Nodes -> Nat]
  BY DEF Sound, NodeState, Tables
<1>2. /\ t.tab[p] = e /\ e # None /\ \A q \in Nodes \ {p} : t.tab[q] = s.tab[q]
      /\ Known(t) = Known(s) \cup {p}
      /\ Live(t) = IF is_tomb(e.st) THEN Live(s) \ {p} ELSE Live(s) \cup {p}
  <2>1. RowIs(s, t, p, e)
    BY <1>1, RowChange
  <2> QED BY <2>1 DEF RowIs
<1>3. \A q \in Nodes \ {p} : t.lease[q] = s.lease[q]
  BY <1>1
<1>4. Shields(t, n)
  BY <1>2, <1>3 DEF Sound, Shields
<1>5. Own(t, n)
  BY <1>2 DEF Sound, Own, Same
<1>6. Clean(t)
  BY <1>2, SMTT(30) DEF Sound, Clean, Same
<1>7. Issued(t, n, A)
  BY <1>2, SMTT(30) DEF Sound, Issued, Known
<1> QED BY <1>2, <1>3, <1>4, <1>5, <1>6, <1>7 DEF Sound, Others

-----------------------------------------------------------------------------
(* apply_update.                                                             *)

Sources == {"Local", "Direct", "Gossip", "Join", "JoinSnapshot"}

\* The record that republish makes.
LEMMA RepublishIs ==
  ASSUME NEW s \in NodeState, NEW r, r = republish(s)
  PROVE  /\ r \in NodeState /\ Same(s, r) /\ r.inc = s.inc /\ r.tab = s.tab /\ r.lease = s.lease
         /\ r.roster = s.roster /\ r.live = Live(s) /\ r.placed = PlacedOf(s)
<1>1. Live(s) \in SUBSET Nodes /\ PlacedOf(s) \in SUBSET Nodes
  BY DEF Live, Known, PlacedOf
<1> QED BY <1>1 DEF republish, NodeState, Same, PlacedOf

\* The record that note_transition makes.
Noted(s, p, r) ==
    /\ r \in NodeState /\ Same(s, r) /\ r.inc = s.inc /\ r.tab = s.tab
    /\ r.live = s.live /\ r.placed = s.placed
    /\ r.lease = IF is_tomb(s.tab[p].st) THEN [s.lease EXCEPT ![p] = 0] ELSE s.lease
    /\ r.roster = IF is_tomb(s.tab[p].st) THEN s.roster \ {p}
                  ELSE IF s.tab[p].ver THEN s.roster \cup {p} ELSE s.roster

LEMMA NoteIs ==
  ASSUME NEW s \in NodeState, NEW p \in Nodes, NEW r, r = note_transition(s, p)
  PROVE  Noted(s, p, r)
<1>1. CASE is_tomb(s.tab[p].st)
  BY <1>1 DEF Noted, note_transition, NodeState, Same
<1>2. CASE ~is_tomb(s.tab[p].st) /\ s.tab[p].ver
  BY <1>2 DEF Noted, note_transition, NodeState, Same
<1>3. CASE ~is_tomb(s.tab[p].st) /\ ~s.tab[p].ver
  BY <1>3 DEF Noted, note_transition, NodeState, Same
<1> QED BY <1>1, <1>2, <1>3

\* What a step on one table leaves in order: the rest of the node is the
\* same, its incarnation has not fallen, and no lease was granted.
Follows(s, t) == /\ Same(s, t) /\ t.inc >= s.inc
                 /\ \A q \in Nodes : s.lease[q] = 0 => t.lease[q] = 0

LEMMA FollowsOn ==
  ASSUME NEW s \in NodeState, NEW t \in NodeState, NEW u \in NodeState, Follows(s, t), Follows(t, u)
  PROVE  Follows(s, u)
<1>1. s.inc \in Nat /\ t.inc \in Nat /\ u.inc \in Nat
  BY DEF NodeState
<1>2. t.inc >= s.inc /\ u.inc >= t.inc
  BY DEF Follows
<1>3. u.inc >= s.inc
  BY <1>1, <1>2
<1> QED BY <1>3 DEF Follows, Same

LEMMA RefuteKeeps ==
  ASSUME NEW n \in Nodes, NEW A, NEW s, Sound(s, n, A), NEW i \in Nat, NEW st, NEW t, t = refute(s, n, i, st)
  PROVE  Sound(t, n, A) /\ Follows(s, t) /\ Others(s, t, {n})
<1>1. s \in NodeState /\ s.inc \in Nat
  BY DEF Sound, NodeState
<1>2. CASE t = s
  BY <1>1, <1>2 DEF Follows, Same, Others
<1>3. CASE t # s
  <2>1. /\ ~s.left /\ ~(i < s.inc)
        /\ t = [s EXCEPT !.inc = i + 1, !.tab[n].inc = i + 1, !.tab[n].st = "Alive"]
    BY <1>3 DEF refute
  <2> DEFINE e == [s.tab[n] EXCEPT !.inc = i + 1, !.st = "Alive"]
  <2>2. s.tab \in Tables /\ s.tab[n] \in Entry /\ s.tab[n].ver /\ s.tab[n].st = "Alive"
    BY <1>1, <2>1 DEF Sound, Own, NodeState, Tables
  <2>3. e \in Entry /\ e.ver /\ e.st = "Alive" /\ e.inc = i + 1
    <3>1. s.tab[n] \in [inc : Nat, st : Status, ver : BOOLEAN, verify : BOOLEAN, lapsed : Nat]
      BY <2>2 DEF Entry
    <3>2. i + 1 \in Nat /\ "Alive" \in Status
      BY DEF Status
    <3>3. e.ver = s.tab[n].ver /\ e.st = "Alive" /\ e.inc = i + 1
      BY <3>1
    <3>4. e \in [inc : Nat, st : Status, ver : BOOLEAN, verify : BOOLEAN, lapsed : Nat]
      BY <3>1, <3>2
    <3> QED BY <2>2, <3>3, <3>4 DEF Entry
  <2>4. /\ t.tab = [s.tab EXCEPT ![n] = e] /\ t.inc = i + 1 /\ Same(s, t)
        /\ t.lease = s.lease /\ t.live = s.live /\ t.placed = s.placed /\ t.roster = s.roster
    <3>1. t.tab = [[s.tab EXCEPT ![n].inc = i + 1] EXCEPT ![n].st = "Alive"]
      BY <1>1, <2>1 DEF NodeState
    <3>2. [[s.tab EXCEPT ![n].inc = i + 1] EXCEPT ![n].st = "Alive"] = [s.tab EXCEPT ![n] = e]
      BY <2>2 DEF Tables
    <3>3. /\ t.inc = i + 1 /\ Same(s, t)
          /\ t.lease = s.lease /\ t.live = s.live /\ t.placed = s.placed /\ t.roster = s.roster
      BY <1>1, <2>1 DEF NodeState, Same
    <3> QED BY <3>1, <3>2, <3>3
  <2>5. t \in NodeState
    <3>1. t.tab \in Tables
      BY <2>2, <2>3, <2>4 DEF Tables
    <3>2. i + 1 \in Nat
      OBVIOUS
    <3>3. t = [[s EXCEPT !.inc = i + 1] EXCEPT !.tab = t.tab]
      BY <1>1, <2>1, <3>1 DEF NodeState
    <3> QED BY <1>1, <3>1, <3>2, <3>3, ZenonT(60) DEF NodeState, Tables
  <2> HIDE DEF e
  <2>6. /\ t.tab[n] = e /\ \A q \in Nodes \ {n} : t.tab[q] = s.tab[q]
        /\ Known(t) = Known(s) \cup {n} /\ Live(t) = Live(s) \cup {n}
        /\ PlacedOf(t) = PlacedOf(s) \cup {n}
    <3>1. ~is_tomb(e.st)
      BY <2>3 DEF is_tomb
    <3> QED BY <2>2, <2>3, <2>4, <3>1, RowChange DEF RowIs
  <2>7. n \in Known(s) /\ n \in Live(s) /\ n \in PlacedOf(s)
    <3>1. s.tab[n] # None
      BY DEF Sound, Own
    <3> QED BY <2>2, <3>1 DEF Known, Live, PlacedOf, is_tomb
  <2>8. Views(t)
    BY <2>4, <2>6, <2>7 DEF Sound, Views
  <2>9. Shields(t, n)
    BY <2>4, <2>6 DEF Sound, Shields
  <2>10. Own(t, n)
    <3>1. e # None
      BY <2>3, NodesAssumption
    <3> QED BY <2>1, <2>3, <2>4, <2>6, <3>1 DEF Sound, Own, Same
  <2>11. Clean(t)
    BY <2>4, <2>6, <2>7 DEF Sound, Clean, Same
  <2>12. Issued(t, n, A)
    BY <2>6 DEF Sound, Issued, Known
  <2>13. t.inc >= s.inc
    BY <1>1, <2>1, <2>4
  <2> QED BY <2>4, <2>5, <2>6, <2>8, <2>9, <2>10, <2>11, <2>12, <2>13 DEF Sound, Follows, Others
<1> QED BY <1>2, <1>3

LEMMA InsertKeeps ==
  ASSUME NEW n \in Nodes, NEW A, NEW s, Sound(s, n, A), NEW p \in Nodes, p # n, s.tab[p] = None,
         NEW i \in Nat, NEW st \in Status, NEW src \in Sources, <<p, i>> \in A,
         p \notin s.denied \/ is_tomb(st), NEW t, t = insert(s, p, i, st, src)
  PROVE  Sound(t, n, A) /\ Follows(s, t) /\ Others(s, t, {p}) /\ t.inc = s.inc
<1>1. s \in NodeState /\ s.inc \in Nat /\ s.tab \in Tables /\ s.lease \in [Nodes -> Nat]
  BY DEF Sound, NodeState, Tables
<1>2. CASE t = s
  BY <1>1, <1>2 DEF Follows, Same, Others
<1>3. CASE t # s
  <2> DEFINE e == [inc |-> i, st |-> st, ver |-> src \in {"Direct", "Join"}, verify |-> FALSE, lapsed |-> 0]
             u == [s EXCEPT !.tab[p] = e]
             v == IF is_tomb(st) THEN u ELSE republish(u)
  <2>1. t = note_transition(v, p)
    BY <1>3 DEF insert
  <2>2. e \in Entry /\ e.st = st /\ e.inc = i
    BY DEF Entry
  <2>3. /\ u \in NodeState /\ Same(s, u) /\ u.inc = s.inc /\ u.lease = s.lease /\ u.live = s.live
        /\ u.placed = s.placed /\ u.roster = s.roster /\ u.tab = [s.tab EXCEPT ![p] = e]
    BY <1>1, <2>2 DEF NodeState, Same, Tables
  <2> HIDE DEF e, u
  <2>4. /\ u.tab[p] = e
        /\ Live(u) = IF is_tomb(st) THEN Live(s) \ {p} ELSE Live(s) \cup {p}
        /\ PlacedOf(u) = IF ~is_tomb(st) /\ e.ver THEN PlacedOf(s) \cup {p} ELSE PlacedOf(s) \ {p}
    <3>1. RowIs(s, u, p, e)
      BY <1>1, <2>2, <2>3, RowChange
    <3> QED BY <2>2, <3>1 DEF RowIs
  <2>5. p \notin Live(s) /\ p \notin PlacedOf(s) /\ s.lease[p] = 0
    BY DEF Known, Live, PlacedOf, Sound, Shields
  <2>6. /\ v \in NodeState /\ Same(s, v) /\ v.inc = s.inc /\ v.tab = u.tab /\ v.lease = s.lease
        /\ v.roster = s.roster /\ v.live = Live(u) /\ v.placed = PlacedOf(u)
    <3>1. CASE is_tomb(st)
      BY <2>3, <2>4, <2>5, <3>1 DEF Sound, Views
    <3>2. CASE ~is_tomb(st)
      <4>1. v = republish(u)
        BY <3>2
      <4> HIDE DEF v
      <4> QED BY <2>3, <4>1, RepublishIs DEF Same
    <3> QED BY <3>1, <3>2
  <2> HIDE DEF v
  <2>7. /\ t \in NodeState /\ Same(v, t) /\ t.inc = v.inc /\ t.tab = v.tab
        /\ t.live = v.live /\ t.placed = v.placed
        /\ t.lease = IF is_tomb(st) THEN [v.lease EXCEPT ![p] = 0] ELSE v.lease
        /\ t.roster = IF is_tomb(st) THEN v.roster \ {p}
                      ELSE IF e.ver THEN v.roster \cup {p} ELSE v.roster
    <3>1. v.tab[p].st = st /\ v.tab[p].ver = e.ver
      BY <2>2, <2>4, <2>6
    <3>2. Noted(v, p, t)
      BY <2>1, <2>6, NoteIs
    <3> QED BY <3>1, <3>2 DEF Noted
  <2>8. Live(t) = Live(u) /\ PlacedOf(t) = PlacedOf(u)
    BY <2>6, <2>7 DEF Live, Known, PlacedOf
  <2>9. Views(t)
    BY <2>4, <2>5, <2>6, <2>7, <2>8, SMTT(30) DEF Sound, Views
  <2>10. Same(s, t) /\ t.inc = s.inc /\ t.tab = [s.tab EXCEPT ![p] = e] /\ t.lease[p] = 0
    BY <1>1, <2>3, <2>5, <2>6, <2>7 DEF Same
  <2>11. t.lease = s.lease \/ t.lease = [s.lease EXCEPT ![p] = 0]
    BY <2>6, <2>7
  <2>12. Sound(t, n, A) /\ Others(s, t, {p})
    <3>1. s.dirty \/ is_tomb(e.st) \/ p \in Live(s) \/ p \notin s.denied
      BY <2>2
    <3>2. <<p, e.inc>> \in A /\ t \in NodeState /\ (t.lease[p] # 0 => e.st = "Alive" /\ e.ver)
      BY <2>2, <2>7, <2>10
    <3>3. Same(s, t) /\ t.inc = s.inc /\ t.tab = [s.tab EXCEPT ![p] = e]
      BY <2>10
    <3> QED BY <2>2, <2>9, <2>11, <3>1, <3>2, <3>3, RowKeeps, SMTT(30)
  <2>13. \A q \in Nodes : s.lease[q] = 0 => t.lease[q] = 0
    BY <1>1, <2>11
  <2>14. t.inc >= s.inc
    BY <1>1, <2>10
  <2> QED BY <2>10, <2>12, <2>13, <2>14 DEF Follows
<1> QED BY <1>2, <1>3

LEMMA MergeKeeps ==
  ASSUME NEW n \in Nodes, NEW A, NEW s, Sound(s, n, A), NEW p \in Nodes, p # n, s.tab[p] # None,
         NEW i \in Nat, NEW st \in Status, NEW src \in Sources, NEW recent, <<p, i>> \in A,
         p \notin s.denied \/ is_tomb(st),
         s.lease[p] # 0 => st \notin {"Suspect", "Dead"} \/ (src = "Local" /\ st = "Dead"),
         NEW t, t = merge(s, p, i, st, src, recent)
  PROVE  Sound(t, n, A) /\ Follows(s, t) /\ Others(s, t, {p}) /\ t.inc = s.inc
<1> DEFINE e == s.tab[p]
           ver == e.ver \/ src \in {"Direct", "Join"}
           take == takes(e, i, st, src, recent)
           next == IF take THEN leads_to(e, i, st, src) ELSE e.st
           new == [e EXCEPT !.ver = ver, !.st = next,
                            !.inc = IF take THEN i ELSE @,
                            !.verify = IF take THEN next = "Suspect" /\ src \in {"Gossip", "JoinSnapshot"}
                                       ELSE @]
           v == [s EXCEPT !.tab[p] = new]
           changed == (is_tomb(e.st) # is_tomb(next)) \/ (ver # e.ver)
           u == IF changed THEN republish(v) ELSE v
<1>1. s \in NodeState /\ s.inc \in Nat /\ s.tab \in Tables /\ s.lease \in [Nodes -> Nat] /\ e \in Entry
  BY DEF Sound, NodeState, Tables
<1>2. t = IF take \/ ver # e.ver THEN note_transition(u, p) ELSE u
  BY DEF merge
<1>3. take => next = st \/ next = "Suspect"
  BY DEF leads_to
<1>4. ver \in BOOLEAN /\ e.ver \in BOOLEAN /\ e.st \in Status /\ e.inc \in Nat
  BY <1>1 DEF Entry
<1>5. next \in Status
  BY <1>3, <1>4 DEF Status
<1>6. s.dirty \/ is_tomb(next) \/ p \in Live(s) \/ p \notin s.denied
  <2>1. CASE ~is_tomb(e.st)
    BY <2>1 DEF Live, Known
  <2>2. CASE is_tomb(e.st) /\ ~take
    BY <2>2
  <2>3. CASE is_tomb(e.st) /\ take
    <3>1. ~(st = "Dead" /\ src # "Local")
      BY <2>3 DEF takes, is_tomb
    <3>2. next = st \/ st = "Alive"
      BY <2>3, <3>1 DEF leads_to
    <3> QED BY <3>2 DEF is_tomb
  <2> QED BY <2>1, <2>2, <2>3
<1>7. s.lease[p] # 0 => e.st = "Alive" /\ e.ver /\ (next = "Alive" \/ (take /\ is_tomb(next)))
  <2> SUFFICES ASSUME s.lease[p] # 0 PROVE e.st = "Alive" /\ e.ver /\ (next = "Alive" \/ (take /\ is_tomb(next)))
    OBVIOUS
  <2>1. e.st = "Alive" /\ e.ver
    BY DEF Sound, Shields
  <2>2. CASE ~take
    BY <2>1, <2>2
  <2>3. CASE take
    <3>1. next = st
      BY <2>1, <2>3 DEF leads_to
    <3> QED BY <2>1, <2>3, <3>1 DEF Status, is_tomb
  <2> QED BY <2>1, <2>2, <2>3
<1> HIDE DEF next, take
<1>8. /\ new \in Entry /\ new.st = next /\ new.ver = ver
      /\ new.inc = IF take THEN i ELSE e.inc
  <2>1. e \in [inc : Nat, st : Status, ver : BOOLEAN, verify : BOOLEAN, lapsed : Nat]
    BY <1>1 DEF Entry
  <2>2. (IF take THEN next = "Suspect" /\ src \in {"Gossip", "JoinSnapshot"} ELSE e.verify) \in BOOLEAN
    BY <2>1
  <2>3. (IF take THEN i ELSE e.inc) \in Nat
    BY <2>1
  <2>4. /\ new \in [inc : Nat, st : Status, ver : BOOLEAN, verify : BOOLEAN, lapsed : Nat]
        /\ new.st = next /\ new.ver = ver /\ new.inc = IF take THEN i ELSE e.inc
    BY <1>4, <1>5, <2>1, <2>2, <2>3, ZenonT(60)
  <2> QED BY <2>4 DEF Entry
<1>9. <<p, new.inc>> \in A
  <2>1. <<p, e.inc>> \in A
    BY DEF Sound, Issued, Known
  <2> QED BY <1>8, <2>1
<1> HIDE DEF new
<1>10. /\ v \in NodeState /\ Same(s, v) /\ v.inc = s.inc /\ v.lease = s.lease /\ v.live = s.live
       /\ v.placed = s.placed /\ v.roster = s.roster /\ v.tab = [s.tab EXCEPT ![p] = new]
  BY <1>1, <1>8 DEF NodeState, Same, Tables
<1> HIDE DEF v
<1>11. /\ v.tab[p] = new
       /\ Live(v) = IF is_tomb(next) THEN Live(s) \ {p} ELSE Live(s) \cup {p}
       /\ PlacedOf(v) = IF ~is_tomb(next) /\ ver THEN PlacedOf(s) \cup {p} ELSE PlacedOf(s) \ {p}
  <2>1. RowIs(s, v, p, new)
    BY <1>1, <1>8, <1>10, RowChange
  <2> QED BY <1>8, <2>1 DEF RowIs
<1>12. /\ p \in Live(s) <=> ~is_tomb(e.st)
       /\ p \in PlacedOf(s) <=> (~is_tomb(e.st) /\ e.ver)
  BY DEF Live, Known, PlacedOf
<1>13. ~changed => (is_tomb(e.st) <=> is_tomb(next)) /\ (ver <=> e.ver)
  BY <1>4 DEF is_tomb
<1>14. /\ u \in NodeState /\ Same(s, u) /\ u.inc = s.inc /\ u.tab = v.tab /\ u.lease = s.lease
       /\ u.roster = s.roster /\ u.live = Live(v) /\ u.placed = PlacedOf(v)
  <2>1. CASE changed
    <3>1. u = republish(v)
      BY <2>1
    <3> HIDE DEF u
    <3> QED BY <1>10, <3>1, RepublishIs DEF Same
  <2>2. CASE ~changed
    <3>1. Live(v) = Live(s) /\ PlacedOf(v) = PlacedOf(s)
      <4>1. (is_tomb(e.st) <=> is_tomb(next)) /\ (ver <=> e.ver)
        BY <1>13, <2>2
      <4> HIDE DEF e, ver
      <4> QED BY <1>11, <1>12, <4>1
    <3>2. u = v
      BY <2>2
    <3> HIDE DEF u
    <3> QED BY <1>10, <3>1, <3>2 DEF Sound, Views
  <2> QED BY <2>1, <2>2
<1> HIDE DEF u
<1>15. /\ t \in NodeState /\ Same(u, t) /\ t.inc = u.inc /\ t.tab = u.tab
       /\ t.live = u.live /\ t.placed = u.placed
       /\ t.lease = u.lease \/ t.lease = [u.lease EXCEPT ![p] = 0]
       /\ take /\ is_tomb(next) => t.lease = [u.lease EXCEPT ![p] = 0]
       /\ t.roster = PlacedOf(v)
  <2>1. CASE take \/ ver # e.ver
    <3>1. t = note_transition(u, p)
      BY <1>2, <2>1
    <3>2. Noted(u, p, t)
      BY <1>14, <3>1, NoteIs
    <3>3. u.tab[p].st = next /\ u.tab[p].ver = ver
      BY <1>8, <1>11, <1>14
    <3>4. t.roster = IF is_tomb(next) THEN PlacedOf(s) \ {p}
                     ELSE IF ver THEN PlacedOf(s) \cup {p} ELSE PlacedOf(s)
      <4>1. u.roster = PlacedOf(s)
        BY <1>14 DEF Sound, Views
      <4> QED BY <3>2, <3>3, <4>1 DEF Noted
    <3>5. ~ver => p \notin PlacedOf(s)
      BY <1>12
    <3>6. t.roster = PlacedOf(v)
      <4> HIDE DEF e, ver
      <4> QED BY <1>11, <3>4, <3>5
    <3> QED BY <3>2, <3>3, <3>6 DEF Noted
  <2>2. CASE ~(take \/ ver # e.ver)
    <3>1. t = u
      BY <1>2, <2>2
    <3>2. next = e.st /\ (ver <=> e.ver)
      BY <2>2 DEF next
    <3>3. PlacedOf(v) = PlacedOf(s)
      <4> HIDE DEF e, ver
      <4> QED BY <1>11, <1>12, <3>2
    <3> QED BY <1>14, <2>2, <3>1, <3>3 DEF Sound, Views, Same
  <2> QED BY <2>1, <2>2
<1>16. Live(t) = Live(v) /\ PlacedOf(t) = PlacedOf(v)
  BY <1>14, <1>15 DEF Live, Known, PlacedOf
<1>17. Views(t)
  BY <1>14, <1>15, <1>16 DEF Views
<1>18. /\ Same(s, t) /\ t.inc = s.inc /\ t.tab = [s.tab EXCEPT ![p] = new]
       /\ t.lease = s.lease \/ t.lease = [s.lease EXCEPT ![p] = 0]
  BY <1>10, <1>14, <1>15 DEF Same
<1>19. t.lease[p] # 0 => new.st = "Alive" /\ new.ver
  <2>1. t.lease[p] # 0 => s.lease[p] # 0
    BY <1>1, <1>18
  <2>2. take /\ is_tomb(next) => t.lease[p] = 0
    BY <1>1, <1>14, <1>15
  <2> QED BY <1>7, <1>8, <2>1, <2>2
<1>20. Sound(t, n, A) /\ Others(s, t, {p})
  <2>1. s.dirty \/ is_tomb(new.st) \/ p \in Live(s) \/ p \notin s.denied
    BY <1>6, <1>8
  <2>2. t \in NodeState /\ new \in Entry
    BY <1>8, <1>15
  <2>3. Same(s, t) /\ t.inc = s.inc /\ t.tab = [s.tab EXCEPT ![p] = new]
    BY <1>18
  <2>4. t.lease = s.lease \/ t.lease = [s.lease EXCEPT ![p] = 0]
    BY <1>18
  <2> HIDE DEF e, ver
  <2> QED BY <1>9, <1>17, <1>19, <2>1, <2>2, <2>3, <2>4, RowKeeps, SMTT(30)
<1>21. \A q \in Nodes : s.lease[q] = 0 => t.lease[q] = 0
  BY <1>1, <1>18
<1>22. t.inc >= s.inc
  BY <1>1, <1>18
<1> QED BY <1>18, <1>20, <1>21, <1>22 DEF Follows

\* Whatever update it is, the table is in order afterwards; a suspicion of the
\* node's own timers is about a member whose lease is not held.
UpdateTakes(t, s, n, p, A) == Sound(t, n, A) /\ Follows(s, t) /\ Others(s, t, {p}) /\ (p # n => t.inc = s.inc)

LEMMA UpdateKeeps ==
  ASSUME NEW n \in Nodes, NEW A, NEW s, Sound(s, n, A), NEW p \in Nodes, NEW i \in Nat, NEW st \in Status,
         NEW src \in Sources, NEW recent, p # n => <<p, i>> \in A,
         src = "Local" /\ st = "Suspect" => p # n /\ s.lease[p] = 0,
         NEW t, t = apply_update(s, n, p, i, st, src, recent)
  PROVE  UpdateTakes(t, s, n, p, A)
<1>1. CASE p = n
  <2>1. t = refute(s, n, i, st)
    BY <1>1 DEF apply_update
  <2> QED BY <1>1, <2>1, RefuteKeeps DEF UpdateTakes
<1>2. CASE p # n /\ (\/ p \in s.denied /\ ~is_tomb(st)
                     \/ s.lease[p] # 0 /\ st \in {"Suspect", "Dead"} /\ src # "Local")
  <2>1. t = s
    BY <1>2 DEF apply_update
  <2>2. s.inc \in Nat
    BY DEF Sound, NodeState
  <2> QED BY <2>1, <2>2 DEF UpdateTakes, Follows, Same, Others
<1>3. CASE p # n /\ ~(\/ p \in s.denied /\ ~is_tomb(st)
                      \/ s.lease[p] # 0 /\ st \in {"Suspect", "Dead"} /\ src # "Local")
  <2>1. CASE s.tab[p] = None
    <3>1. t = insert(s, p, i, st, src)
      BY <1>3, <2>1 DEF apply_update
    <3> QED BY <1>3, <2>1, <3>1, InsertKeeps DEF UpdateTakes
  <2>2. CASE s.tab[p] # None
    <3>1. t = merge(s, p, i, st, src, recent)
      BY <1>3, <2>2 DEF apply_update
    <3>2. s.lease[p] # 0 => st \notin {"Suspect", "Dead"} \/ (src = "Local" /\ st = "Dead")
      BY <1>3
    <3> QED BY <1>3, <2>2, <3>1, <3>2, MergeKeeps DEF UpdateTakes
  <2> QED BY <2>1, <2>2
<1> QED BY <1>1, <1>2, <1>3

\* A member that dies by the node's own word is dead.
Dies(s, n, p, i, st, src) == src = "Local" /\ st = "Dead" /\ p # n /\ p \in Live(s) /\ i = s.tab[p].inc

LEMMA DeadDies ==
  ASSUME NEW n, NEW s \in NodeState, NEW p \in Nodes, NEW i, NEW st, Dies(s, n, p, i, st, "Local"),
         NEW recent, NEW t,
         t = apply_update(s, n, p, i, st, "Local", recent)
  PROVE  t.tab[p].st = "Dead"
<1> DEFINE e == s.tab[p]
           take == takes(e, i, st, "Local", recent)
           next == IF take THEN leads_to(e, i, st, "Local") ELSE e.st
           ver == e.ver \/ "Local" \in {"Direct", "Join"}
           new == [e EXCEPT !.ver = ver, !.st = next,
                            !.inc = IF take THEN i ELSE @,
                            !.verify = IF take THEN next = "Suspect" /\ "Local" \in {"Gossip", "JoinSnapshot"}
                                       ELSE @]
           v == [s EXCEPT !.tab[p] = new]
           w == IF (is_tomb(e.st) # is_tomb(next)) \/ (ver # e.ver) THEN republish(v) ELSE v
<1>1. e # None /\ ~is_tomb(e.st) /\ st = "Dead" /\ i = e.inc /\ p # n
  BY DEF Dies, Live, Known
<1>2. e \in Entry /\ s.tab \in Tables /\ e.inc \in Nat
  BY <1>1 DEF NodeState, Tables, Entry
<1>3. t = merge(s, p, i, st, "Local", recent)
  BY <1>1 DEF apply_update, is_tomb
<1>4. t = IF take \/ ver # e.ver THEN note_transition(w, p) ELSE w
  BY <1>3 DEF merge
<1>5. next = "Dead"
  <2>1. take
    BY <1>1, <1>2 DEF takes, is_tomb
  <2> QED BY <1>1, <2>1 DEF leads_to
<1> HIDE DEF next, take
<1>6. new.st = "Dead"
  <2>1. e \in [inc : Nat, st : Status, ver : BOOLEAN, verify : BOOLEAN, lapsed : Nat]
    BY <1>2 DEF Entry
  <2> QED BY <1>5, <2>1
<1> HIDE DEF new
<1>7. v.tab[p] = new /\ w.tab = v.tab
  BY <1>2 DEF republish, NodeState, Tables
<1> HIDE DEF v
<1>8. note_transition(w, p).tab = w.tab
  <2>1. w \in [up : {w.up}, inc : {w.inc}, left : {w.left}, asleep : {w.asleep}, tab : {w.tab}, lease : {w.lease},
               probe : {w.probe}, live : {w.live}, placed : {w.placed}, roster : {w.roster}, denied : {w.denied},
               dirty : {w.dirty}]
    BY DEF v, republish, NodeState
  <2> HIDE DEF w
  <2> QED BY <2>1 DEF note_transition
<1> QED BY <1>4, <1>6, <1>7, <1>8

\* What a batch of updates leaves.
Applied(t, s, n, D, upd, src, A) ==
    /\ Sound(t, n, A) /\ Follows(s, t) /\ Others(s, t, D)
    /\ n \notin D => t.inc = s.inc
    /\ \A p \in D : Dies(s, n, p, upd[p].inc, upd[p].st, src) => t.tab[p].st = "Dead"

LEMMA AllKeep ==
  ASSUME NEW n \in Nodes, NEW A, NEW s, Sound(s, n, A), NEW D \in SUBSET Nodes, NEW upd, NEW src \in Sources,
         \A p \in D : upd[p].inc \in Nat /\ upd[p].st \in Status,
         \A p \in D \ {n} : <<p, upd[p].inc>> \in A,
         src = "Local" => \A p \in D : upd[p].st = "Suspect" => p # n /\ s.lease[p] = 0,
         NEW recent, NEW t, t = apply_all(s, n, D, upd, src, recent)
  PROVE  Applied(t, s, n, D, upd, src, A)
<1> DEFINE T == {u \in NodeState : Sound(u, n, A) /\ Follows(s, u)}
           step(u, p) == apply_update(u, n, p, upd[p].inc, upd[p].st, src, p \in recent)
<1>1. s \in NodeState /\ s.inc \in Nat /\ IsFiniteSet(D)
  BY FS_Subset, NodesAssumption DEF Sound, NodeState
<1>2. s \in T
  BY <1>1 DEF Follows, Same
<1>3. ASSUME NEW p \in D, NEW u \in T
      PROVE  UpdateTakes(step(u, p), u, n, p, A) /\ step(u, p) \in T
  <2>1. Sound(u, n, A) /\ Follows(s, u) /\ u \in NodeState
    OBVIOUS
  <2>2. p \in Nodes /\ upd[p].inc \in Nat /\ upd[p].st \in Status /\ (p # n => <<p, upd[p].inc>> \in A)
    OBVIOUS
  <2>3. src = "Local" /\ upd[p].st = "Suspect" => p # n /\ u.lease[p] = 0
    BY <2>1, <2>2 DEF Follows
  <2> DEFINE w == step(u, p)
  <2>4. UpdateTakes(w, u, n, p, A)
    BY <2>1, <2>2, <2>3, UpdateKeeps
  <2> HIDE DEF w
  <2>5. Sound(w, n, A) /\ Follows(u, w) /\ w \in NodeState
    BY <2>4 DEF UpdateTakes, Sound
  <2>6. Follows(s, w)
    BY <1>1, <2>1, <2>5, FollowsOn
  <2> QED BY <2>4, <2>5, <2>6 DEF w
<1> HIDE DEF T
<1>4. PICK f : Folded(f, s, n, D, upd, src, recent) /\ t = f[D]
  <2>1. \A p \in D, u \in T : apply_update(u, n, p, upd[p].inc, upd[p].st, src, p \in recent) \in T
    BY <1>3
  <2> QED BY <1>1, <1>2, <2>1, ApplyAllFolds
<1> DEFINE G == {P \in SUBSET D : Applied(f[P], s, n, P, upd, src, A)}
<1>5. ASSUME NEW P \in SUBSET D, \A Q \in (SUBSET P) \ {P} : Q \in G PROVE P \in G
  <2>1. CASE P = {}
    <3>1. f[P] = s
      BY <1>4, <2>1 DEF Folded
    <3>2. s \in NodeState /\ Follows(s, s)
      BY <1>2 DEF T
    <3>3. Applied(s, s, n, P, upd, src, A)
      BY <2>1, <3>2 DEF Applied, Others
    <3> QED BY <3>1, <3>3
  <2>2. CASE P # {}
    <3>1. PICK p \in P : f[P] = step(f[P \ {p}], p)
      BY <1>4, <2>2 DEF Folded
    <3> DEFINE Q == P \ {p}
               u == f[Q]
               w == f[P]
    <3>2. Q \in G /\ p \in D /\ p \notin Q /\ P = Q \cup {p}
      BY <1>5
    <3>3. Applied(u, s, n, Q, upd, src, A)
      BY <3>2
    <3>4. Sound(u, n, A) /\ Follows(s, u) /\ u \in NodeState /\ Others(s, u, Q)
      BY <3>3 DEF Applied, Sound
    <3>5. u \in T
      BY <3>4 DEF T
    <3>6. UpdateTakes(w, u, n, p, A) /\ w \in T
      BY <1>3, <3>1, <3>2, <3>5
    <3> HIDE DEF u, w, Q, G
    <3>7. Sound(w, n, A) /\ Follows(s, w)
      BY <3>6 DEF T
    <3>8. Others(s, w, P)
      BY <3>2, <3>4, <3>6 DEF Others, UpdateTakes
    <3>9. n \notin P => w.inc = s.inc
      BY <3>2, <3>3, <3>6 DEF Applied, UpdateTakes
    <3>10. ASSUME NEW q \in P, Dies(s, n, q, upd[q].inc, upd[q].st, src) PROVE w.tab[q].st = "Dead"
      <4>1. CASE q # p
        <5>1. q \in Q /\ q \in Nodes \ {p}
          BY <3>2, <4>1
        <5>2. u.tab[q].st = "Dead"
          BY <3>3, <3>10, <5>1 DEF Applied
        <5>3. w.tab[q] = u.tab[q]
          BY <3>6, <5>1 DEF UpdateTakes, Others
        <5> QED BY <5>2, <5>3
      <4>2. CASE q = p
        <5>1. u.tab[p] = s.tab[p]
          BY <3>2, <3>4 DEF Others
        <5>2. Dies(u, n, p, upd[p].inc, upd[p].st, "Local") /\ src = "Local" /\ p \in Nodes
          BY <3>2, <3>10, <4>2, <5>1 DEF Dies, Live, Known
        <5>3. PICK r : w = apply_update(u, n, p, upd[p].inc, upd[p].st, "Local", r)
          <6>1. w = apply_update(u, n, p, upd[p].inc, upd[p].st, "Local", p \in recent)
            BY <3>1, <5>2 DEF u, w, Q
          <6> QED BY <6>1, Zenon
        <5>4. w.tab[p].st = "Dead"
          BY <3>4, <5>2, <5>3, DeadDies
        <5> QED BY <4>2, <5>4
      <4> QED BY <4>1, <4>2
    <3>11. Applied(w, s, n, P, upd, src, A)
      BY <3>7, <3>8, <3>9, <3>10 DEF Applied
    <3> QED BY <3>11 DEF w, G
  <2> QED BY <2>1, <2>2
<1>6. SUBSET D \subseteq G
  <2> HIDE DEF G
  <2> QED BY <1>1, <1>5, SetInduction
<1> QED BY <1>4, <1>6

-----------------------------------------------------------------------------
(* The end of every handler.                                                 *)

Flushed(t, s, n, A) ==
    /\ Sound(t, n, A) /\ t.inc = s.inc /\ t.up = s.up /\ t.left = s.left /\ t.asleep = s.asleep
    /\ t.probe = s.probe /\ t.denied = s.denied

\* evict_denied: nobody the snapshot denies is left in the live view.
Evicted(t, s, n, A) == Sound(t, n, A) /\ Follows(s, t) /\ t.inc = s.inc /\ t.denied \cap Live(t) = {}

LEMMA EvictKeeps ==
  ASSUME NEW n \in Nodes, NEW A, NEW s, Sound(s, n, A), NEW t, t = evict_denied(s, n)
  PROVE  Evicted(t, s, n, A)
<1> DEFINE D == live_peers(s, n) \cap s.denied
           upd == [p \in D |-> [inc |-> s.tab[p].inc, st |-> "Dead"]]
<1>1. s \in NodeState /\ s.tab \in Tables
  BY DEF Sound, NodeState, Tables
<1>2. D \in SUBSET Nodes /\ n \notin D /\ D \subseteq Live(s) /\ \A p \in D : s.tab[p] \in Entry
  BY <1>1 DEF live_peers, Live, Known, Tables
<1>3. \A p \in D : upd[p].inc = s.tab[p].inc /\ upd[p].st = "Dead"
  OBVIOUS
<1>4. t = apply_all(s, n, D, upd, "Local", {})
  BY DEF evict_denied
<1> HIDE DEF D, upd
<1>5. \A p \in D : upd[p].inc \in Nat /\ upd[p].st \in Status
  BY <1>2, <1>3 DEF Entry, Status
<1>6. \A p \in D \ {n} : <<p, upd[p].inc>> \in A
  BY <1>2, <1>3 DEF Sound, Issued, Live
<1>7. \A p \in D : upd[p].st = "Suspect" => p # n /\ s.lease[p] = 0
  BY <1>3
<1>8. "Local" \in Sources
  BY DEF Sources
<1>9. Applied(t, s, n, D, upd, "Local", A)
  BY <1>2, <1>4, <1>5, <1>6, <1>7, <1>8, AllKeep
<1>10. Sound(t, n, A) /\ Follows(s, t) /\ t.inc = s.inc /\ t.denied = s.denied
  BY <1>2, <1>9 DEF Applied, Follows, Same
<1>11. ASSUME NEW p \in t.denied, p \in Live(t) PROVE FALSE
  <2>1. p \in Nodes /\ p # n /\ t.tab[p] # None /\ ~is_tomb(t.tab[p].st) /\ p \in s.denied
    BY <1>10, <1>11 DEF Live, Known, Sound, Own
  <2>2. CASE p \in D
    <3>1. Dies(s, n, p, upd[p].inc, upd[p].st, "Local")
      BY <1>2, <1>3, <2>1, <2>2 DEF Dies
    <3>2. t.tab[p].st = "Dead"
      BY <1>9, <2>2, <3>1 DEF Applied
    <3> QED BY <2>1, <3>2 DEF is_tomb
  <2>3. CASE p \notin D
    <3>1. t.tab[p] = s.tab[p]
      BY <1>9, <2>1, <2>3 DEF Applied, Others
    <3>2. p \in D
      BY <2>1, <3>1 DEF D, live_peers, Live, Known
    <3> QED BY <2>3, <3>2
  <2> QED BY <2>2, <2>3
<1> QED BY <1>10, <1>11 DEF Evicted

LEMMA FlushKeeps ==
  ASSUME NEW n \in Nodes, NEW A, NEW s, Sound(s, n, A), NEW t, t = flush_events(s, n)
  PROVE  Flushed(t, s, n, A)
<1>1. CASE ~s.dirty
  <2>1. t = s
    BY <1>1 DEF flush_events
  <2> QED BY <2>1 DEF Flushed
<1>2. CASE s.dirty
  <2> DEFINE u == evict_denied(s, n)
  <2>1. Evicted(u, s, n, A)
    BY EvictKeeps
  <2>2. t = [u EXCEPT !.dirty = FALSE]
    BY <1>2 DEF flush_events
  <2> HIDE DEF u
  <2>3. u \in NodeState /\ Sound(u, n, A) /\ Same(s, u) /\ u.inc = s.inc /\ u.denied \cap Live(u) = {}
    BY <2>1 DEF Evicted, Sound, Follows
  <2>4. /\ t \in NodeState /\ t.inc = u.inc /\ t.up = u.up /\ t.left = u.left /\ t.asleep = u.asleep
        /\ t.probe = u.probe /\ t.denied = u.denied /\ t.tab = u.tab /\ t.lease = u.lease
        /\ t.live = u.live /\ t.placed = u.placed /\ t.roster = u.roster
    BY <2>2, <2>3 DEF NodeState
  <2>5. Live(t) = Live(u) /\ PlacedOf(t) = PlacedOf(u) /\ Known(t) = Known(u)
    BY <2>4 DEF Live, Known, PlacedOf
  <2>6. Sound(t, n, A)
    BY <2>3, <2>4, <2>5 DEF Sound, Views, Shields, Own, Clean, Issued
  <2> QED BY <2>3, <2>4, <2>6 DEF Flushed, Same
<1> QED BY <1>1, <1>2

-----------------------------------------------------------------------------
(* Steps that leave status, evidence and incarnation of the members alone.   *)

RowsAlike(s, t, n) ==
    \A p \in Nodes : /\ s.tab[p] = None <=> t.tab[p] = None
                     /\ s.tab[p] # None => /\ t.tab[p].st = s.tab[p].st /\ t.tab[p].ver = s.tab[p].ver
                                           /\ p # n => t.tab[p].inc = s.tab[p].inc

\* Such a step may change the probe, sleep and wake, end leases, note which
\* lease lapsed and which verification is due, and raise the own incarnation.
Alike(s, t, n) ==
    /\ RowsAlike(s, t, n) /\ t.tab[n].inc = t.inc /\ t.left = s.left
    /\ t.live = s.live /\ t.placed = s.placed /\ t.roster = s.roster
    /\ t.denied = s.denied /\ t.dirty = s.dirty
    /\ \A p \in Nodes : t.lease[p] = 0 \/ t.lease[p] = s.lease[p]
    /\ t.probe.to # n /\ (t.probe.indirect => t.probe.to # None)

LEMMA AlikeKeeps ==
  ASSUME NEW n \in Nodes, NEW A, NEW s, Sound(s, n, A), NEW t \in NodeState, Alike(s, t, n)
  PROVE  Sound(t, n, A) /\ Live(t) = Live(s) /\ Known(t) = Known(s)
<1>1. RowsAlike(s, t, n)
  BY DEF Alike
<1>2. Known(t) = Known(s)
  BY <1>1 DEF RowsAlike, Known
<1>3. Live(t) = Live(s)
  BY <1>1, <1>2 DEF RowsAlike, Known, Live
<1>4. PlacedOf(t) = PlacedOf(s)
  BY <1>1, <1>2, <1>3 DEF RowsAlike, PlacedOf, Live, Known
<1>5. Views(t)
  BY <1>3, <1>4 DEF Sound, Views, Alike
<1>6. Shields(t, n)
  <2> SUFFICES ASSUME NEW p \in Nodes, t.lease[p] # 0
               PROVE  p # n /\ t.tab[p] # None /\ t.tab[p].st = "Alive" /\ t.tab[p].ver
    BY DEF Shields
  <2>1. s.lease[p] # 0
    BY DEF Alike
  <2>2. p # n /\ s.tab[p] # None /\ s.tab[p].st = "Alive" /\ s.tab[p].ver
    BY <2>1 DEF Sound, Shields
  <2> QED BY <1>1, <2>2 DEF RowsAlike
<1>7. Own(t, n)
  <2>1. /\ s.tab[n] # None /\ s.tab[n].ver /\ n \notin s.denied
        /\ s.tab[n].st = IF s.left THEN "Left" ELSE "Alive"
    BY DEF Sound, Own
  <2>2. t.tab[n] # None /\ t.tab[n].st = s.tab[n].st /\ t.tab[n].ver = s.tab[n].ver
    BY <1>1, <2>1 DEF RowsAlike
  <2> QED BY <2>1, <2>2 DEF Own, Alike
<1>8. Clean(t)
  BY <1>3 DEF Sound, Clean, Alike
<1>9. Issued(t, n, A)
  BY <1>1, <1>2 DEF Sound, Issued, RowsAlike, Known
<1> QED BY <1>2, <1>3, <1>5, <1>6, <1>7, <1>8, <1>9 DEF Sound

-----------------------------------------------------------------------------
(* The housekeeping of a tick.                                               *)

LEMMA ExpireKeeps ==
  ASSUME NEW n \in Nodes, NEW A, NEW s, Sound(s, n, A), NEW L \in SUBSET {p \in Nodes : s.lease[p] # 0},
         NEW t, t = expire_suspend_leases(s, n, L)
  PROVE  Sound(t, n, A) /\ Follows(s, t) /\ Others(s, t, L) /\ t.inc = s.inc
<1> DEFINE D == L \cap Live(s)
           row(p) == IF p \in D THEN [s.tab[p] EXCEPT !.lapsed = s.tab[p].inc] ELSE s.tab[p]
           u == [s EXCEPT !.lease = [p \in Nodes |-> IF p \in L THEN 0 ELSE s.lease[p]],
                          !.tab = [p \in Nodes |-> row(p)]]
           upd == [p \in D |-> [inc |-> s.tab[p].inc, st |-> "Suspect"]]
<1>1. s \in NodeState /\ s.tab \in Tables /\ s.lease \in [Nodes -> Nat] /\ s.inc \in Nat
  BY DEF Sound, NodeState, Tables
<1>2. D \in SUBSET Nodes /\ n \notin D /\ n \notin L /\ \A p \in D : s.tab[p] \in Entry
  BY <1>1 DEF Sound, Shields, Tables, Live, Known
<1>3. \A p \in D : upd[p].inc = s.tab[p].inc /\ upd[p].st = "Suspect"
  OBVIOUS
<1>4. t = apply_all(u, n, D, upd, "Local", {})
  BY DEF expire_suspend_leases
<1>5. ASSUME NEW p \in Nodes
      PROVE  /\ row(p) \in Entry \cup {None} /\ (s.tab[p] = None <=> row(p) = None)
             /\ s.tab[p] # None => /\ row(p).st = s.tab[p].st /\ row(p).ver = s.tab[p].ver
                                   /\ row(p).inc = s.tab[p].inc
  <2>1. CASE p \in D
    <3>1. s.tab[p] \in [inc : Nat, st : Status, ver : BOOLEAN, verify : BOOLEAN, lapsed : Nat]
      BY <1>2, <2>1 DEF Entry
    <3>2. /\ row(p) \in [inc : Nat, st : Status, ver : BOOLEAN, verify : BOOLEAN, lapsed : Nat]
          /\ row(p).st = s.tab[p].st /\ row(p).ver = s.tab[p].ver /\ row(p).inc = s.tab[p].inc
      BY <2>1, <3>1
    <3>3. row(p) \in Entry /\ row(p) # None /\ s.tab[p] # None
      BY <1>2, <2>1, <3>2, NodesAssumption DEF Entry
    <3> QED BY <3>2, <3>3
  <2>2. CASE p \notin D
    BY <1>1, <2>2 DEF Tables
  <2> QED BY <2>1, <2>2
<1> HIDE DEF row
<1>6. /\ u.tab = [p \in Nodes |-> row(p)] /\ u.lease = [p \in Nodes |-> IF p \in L THEN 0 ELSE s.lease[p]]
      /\ Same(s, u) /\ u.inc = s.inc /\ u.live = s.live /\ u.placed = s.placed /\ u.roster = s.roster
  BY <1>1, SMTT(30) DEF NodeState, Same
<1>7. u \in NodeState
  <2>1. [p \in Nodes |-> row(p)] \in [Nodes -> Entry \cup {None}]
    BY <1>5
  <2>2. [p \in Nodes |-> IF p \in L THEN 0 ELSE s.lease[p]] \in [Nodes -> Nat]
    BY <1>1
  <2> QED BY <1>1, <2>1, <2>2 DEF NodeState
<1> HIDE DEF u, D, upd
<1>8. Alike(s, u, n)
  <2>1. RowsAlike(s, u, n)
    BY <1>5, <1>6 DEF RowsAlike
  <2>2. u.tab[n].inc = u.inc
    <3>1. s.tab[n] # None /\ s.tab[n].inc = s.inc
      BY DEF Sound, Own
    <3> QED BY <1>5, <1>6, <3>1
  <2>3. \A p \in Nodes : u.lease[p] = 0 \/ u.lease[p] = s.lease[p]
    BY <1>6
  <2> QED BY <1>6, <2>1, <2>2, <2>3 DEF Alike, Same, Sound, Own
<1>9. Sound(u, n, A)
  BY <1>7, <1>8, AlikeKeeps
<1>10. Applied(t, u, n, D, upd, "Local", A)
  <2>1. \A p \in D : upd[p].inc \in Nat /\ upd[p].st \in Status
    BY <1>2, <1>3 DEF Entry, Status
  <2>2. \A p \in D \ {n} : <<p, upd[p].inc>> \in A
    BY <1>2, <1>3 DEF Sound, Issued, D, Live
  <2>3. \A p \in D : upd[p].st = "Suspect" => p # n /\ u.lease[p] = 0
    BY <1>2, <1>6 DEF D
  <2>4. "Local" \in Sources
    BY DEF Sources
  <2> QED BY <1>2, <1>4, <1>9, <2>1, <2>2, <2>3, <2>4, AllKeep
<1>11. Sound(t, n, A) /\ Follows(u, t) /\ t.inc = u.inc /\ t \in NodeState
  BY <1>2, <1>10 DEF Applied, Sound
<1>12. Follows(s, u)
  BY <1>1, <1>6 DEF Follows
<1>13. Follows(s, t)
  BY <1>1, <1>7, <1>11, <1>12, FollowsOn
<1>14. Others(s, t, L)
  <2> SUFFICES ASSUME NEW q \in Nodes \ L PROVE t.tab[q] = s.tab[q] /\ t.lease[q] = s.lease[q]
    BY DEF Others
  <2>1. q \in Nodes \ D
    BY DEF D
  <2>2. t.tab[q] = u.tab[q] /\ t.lease[q] = u.lease[q]
    BY <1>10, <2>1 DEF Applied, Others
  <2>3. u.tab[q] = s.tab[q] /\ u.lease[q] = s.lease[q]
    BY <1>6, <2>1 DEF row
  <2> QED BY <2>2, <2>3
<1> QED BY <1>6, <1>11, <1>13, <1>14

\* Suspects whose time is up are dead, for the table, the views and the events.
LEMMA ReapKeeps ==
  ASSUME NEW n \in Nodes, NEW A, NEW s, Sound(s, n, A),
         NEW S \in SUBSET {q \in awake_peers(s, n) : s.tab[q].st = "Suspect"}, NEW t, t = reap_suspects(s, S)
  PROVE  /\ Sound(t, n, A) /\ Same(s, t) /\ Others(s, t, S) /\ t.inc = s.inc
         /\ \A p \in S : t.tab[p] # None /\ t.tab[p].ver = s.tab[p].ver
<1> DEFINE row(p) == IF p \in S THEN [s.tab[p] EXCEPT !.st = "Dead", !.verify = FALSE] ELSE s.tab[p]
           u == [s EXCEPT !.tab = [p \in Nodes |-> row(p)]]
           v == IF S = {} THEN u ELSE republish(u)
           lease == [p \in Nodes |-> IF p \in S THEN 0 ELSE s.lease[p]]
<1>1. s \in NodeState /\ s.tab \in Tables /\ s.lease \in [Nodes -> Nat] /\ s.inc \in Nat
  BY DEF Sound, NodeState, Tables
<1>2. S \in SUBSET Nodes /\ n \notin S /\ S \subseteq Live(s) /\ \A p \in S : s.tab[p] \in Entry
  BY <1>1 DEF awake_peers, live_peers, Live, Known, Tables
<1>3. t = [v EXCEPT !.roster = v.roster \ S, !.lease = lease]
  BY DEF reap_suspects
<1>4. ASSUME NEW p \in S
      PROVE  /\ row(p) \in Entry /\ row(p) # None /\ row(p).st = "Dead" /\ row(p).ver = s.tab[p].ver
             /\ row(p).inc = s.tab[p].inc
  <2>1. s.tab[p] \in [inc : Nat, st : Status, ver : BOOLEAN, verify : BOOLEAN, lapsed : Nat]
    BY <1>2 DEF Entry
  <2>2. /\ row(p) \in [inc : Nat, st : Status, ver : BOOLEAN, verify : BOOLEAN, lapsed : Nat]
        /\ row(p).st = "Dead" /\ row(p).ver = s.tab[p].ver /\ row(p).inc = s.tab[p].inc
    BY <2>1 DEF Status
  <2> QED BY <2>2, NodesAssumption DEF Entry
<1>5. \A p \in Nodes \ S : row(p) = s.tab[p]
  OBVIOUS
<1> HIDE DEF row
<1>6. [p \in Nodes |-> row(p)] \in Tables
  BY <1>1, <1>4, <1>5 DEF Tables
<1>7. /\ u \in NodeState /\ Same(s, u) /\ u.inc = s.inc /\ u.tab = [p \in Nodes |-> row(p)] /\ u.lease = s.lease
      /\ u.live = s.live /\ u.placed = s.placed /\ u.roster = s.roster
  BY <1>1, <1>6 DEF NodeState, Same, Tables
<1> HIDE DEF u
<1>8. Known(u) = Known(s)
  BY <1>2, <1>4, <1>5, <1>7 DEF Known, Live
<1>9. Live(u) = Live(s) \ S
  BY <1>4, <1>5, <1>7, <1>8 DEF Known, Live, is_tomb
<1>10. PlacedOf(u) = PlacedOf(s) \ S
  BY <1>5, <1>7, <1>9 DEF PlacedOf, Live, Known
<1>11. /\ v \in NodeState /\ Same(s, v) /\ v.inc = s.inc /\ v.tab = u.tab /\ v.lease = s.lease
       /\ v.roster = s.roster /\ v.live = Live(u) /\ v.placed = PlacedOf(u)
  <2>1. CASE S = {}
    BY <1>7, <1>9, <1>10, <2>1 DEF Sound, Views
  <2>2. CASE S # {}
    <3>1. v = republish(u)
      BY <2>2
    <3> HIDE DEF v
    <3> QED BY <1>7, <3>1, RepublishIs DEF Same
  <2> QED BY <2>1, <2>2
<1> HIDE DEF v
<1>12. /\ t \in NodeState /\ Same(v, t) /\ t.inc = v.inc /\ t.tab = v.tab /\ t.lease = lease
       /\ t.roster = v.roster \ S /\ t.live = v.live /\ t.placed = v.placed
  <2>1. lease \in [Nodes -> Nat] /\ v.roster \ S \in SUBSET Nodes
    BY <1>1, <1>11 DEF NodeState
  <2> HIDE DEF lease
  <2> QED BY <1>3, <1>11, <2>1, ZenonT(60) DEF NodeState, Same
<1>13. /\ Same(s, t) /\ t.inc = s.inc /\ t.tab = [p \in Nodes |-> row(p)]
  BY <1>7, <1>11, <1>12 DEF Same
<1>14. Live(t) = Live(s) \ S /\ Known(t) = Known(s) /\ PlacedOf(t) = PlacedOf(s) \ S
  BY <1>7, <1>8, <1>9, <1>10, <1>13 DEF Live, Known, PlacedOf
<1>15. Views(t)
  BY <1>9, <1>10, <1>11, <1>12, <1>14 DEF Sound, Views
<1>16. Others(s, t, S)
  BY <1>5, <1>12, <1>13 DEF Others
<1>17. Shields(t, n)
  <2> SUFFICES ASSUME NEW p \in Nodes, t.lease[p] # 0
               PROVE  p # n /\ t.tab[p] # None /\ t.tab[p].st = "Alive" /\ t.tab[p].ver
    BY DEF Shields
  <2>1. p \notin S
    BY <1>12
  <2> QED BY <1>16, <2>1 DEF Others, Sound, Shields
<1>18. Own(t, n)
  BY <1>2, <1>13, <1>16 DEF Sound, Own, Same, Others
<1>19. Clean(t)
  BY <1>13, <1>14 DEF Sound, Clean, Same
<1>20. Issued(t, n, A)
  <2> SUFFICES ASSUME NEW p \in Known(t) \ {n} PROVE <<p, t.tab[p].inc>> \in A
    BY DEF Issued
  <2>1. p \in Nodes /\ <<p, s.tab[p].inc>> \in A
    BY <1>14 DEF Sound, Issued, Known
  <2>2. t.tab[p].inc = s.tab[p].inc
    BY <1>4, <1>5, <1>13, <2>1
  <2> QED BY <2>1, <2>2
<1>21. \A p \in S : t.tab[p] # None /\ t.tab[p].ver = s.tab[p].ver
  BY <1>2, <1>4, <1>13
<1> QED BY <1>12, <1>13, <1>15, <1>16, <1>17, <1>18, <1>19, <1>20, <1>21 DEF Sound

\* Rows of tombstones and of members never heard from can go: no lease is
\* held of them and nobody places on them.
Spent(s, n) == {p \in Known(s) \ {n} : is_tomb(s.tab[p].st) \/ ~s.tab[p].ver}

Erased(t, s, n, A, P) ==
    /\ t \in NodeState /\ Same(s, t) /\ t.inc = s.inc /\ t.lease = s.lease /\ t.live = s.live
    /\ t.placed = s.placed /\ t.roster = s.roster /\ Others(s, t, P)
    /\ Live(t) = Live(s) \ P /\ PlacedOf(t) = PlacedOf(s)
    /\ Shields(t, n) /\ Own(t, n) /\ Clean(t) /\ Issued(t, n, A)

LEMMA EraseKeeps ==
  ASSUME NEW n \in Nodes, NEW A, NEW s, Sound(s, n, A), NEW P \in SUBSET Spent(s, n), NEW t, t = erase(s, P)
  PROVE  Erased(t, s, n, A, P)
<1>1. s \in NodeState /\ s.tab \in Tables /\ P \in SUBSET Nodes /\ n \notin P
  BY DEF Sound, NodeState, Tables, Spent, Known
<1>2. [p \in Nodes |-> IF p \in P THEN None ELSE s.tab[p]] \in Tables
  BY <1>1 DEF Tables
<1>3. /\ t \in NodeState /\ Same(s, t) /\ t.inc = s.inc /\ t.lease = s.lease /\ t.live = s.live
      /\ t.placed = s.placed /\ t.roster = s.roster
      /\ t.tab = [p \in Nodes |-> IF p \in P THEN None ELSE s.tab[p]]
  BY <1>1, <1>2 DEF erase, NodeState, Same, Tables
<1>4. (\A p \in P : t.tab[p] = None) /\ \A p \in Nodes \ P : t.tab[p] = s.tab[p]
  BY <1>1, <1>3
<1>5. Known(t) = Known(s) \ P
  BY <1>4 DEF Known
<1>6. Live(t) = Live(s) \ P
  BY <1>4, <1>5 DEF Known, Live
<1>7. PlacedOf(t) = PlacedOf(s)
  <2>1. P \cap PlacedOf(s) = {}
    BY DEF Spent, PlacedOf, Live
  <2>2. PlacedOf(t) = PlacedOf(s) \ P
    BY <1>4, <1>6 DEF PlacedOf, Live, Known
  <2> QED BY <2>1, <2>2
<1>8. Shields(t, n)
  <2> SUFFICES ASSUME NEW p \in Nodes, t.lease[p] # 0
               PROVE  p # n /\ t.tab[p] # None /\ t.tab[p].st = "Alive" /\ t.tab[p].ver
    BY DEF Shields
  <2>1. p # n /\ s.tab[p] # None /\ s.tab[p].st = "Alive" /\ s.tab[p].ver
    BY <1>3 DEF Sound, Shields
  <2>2. p \notin P
    BY <2>1 DEF Spent, is_tomb
  <2> QED BY <1>4, <2>1, <2>2
<1>9. Own(t, n)
  BY <1>1, <1>3, <1>4 DEF Sound, Own, Same
<1>10. Clean(t)
  BY <1>3, <1>6 DEF Sound, Clean, Same
<1>11. Issued(t, n, A)
  BY <1>4, <1>5 DEF Sound, Issued, Known
<1> QED BY <1>3, <1>4, <1>6, <1>7, <1>8, <1>9, <1>10, <1>11 DEF Erased, Others

LEMMA TombstonesGo ==
  ASSUME NEW n \in Nodes, NEW A, NEW s, Sound(s, n, A), NEW P \in SUBSET (Known(s) \ ({n} \cup Live(s))),
         NEW t, t = reap_tombstones(s, P)
  PROVE  Sound(t, n, A) /\ Same(s, t) /\ Others(s, t, P) /\ t.inc = s.inc
<1>1. P \in SUBSET Spent(s, n) /\ P \cap Live(s) = {}
  BY DEF Spent, Live
<1>2. Erased(t, s, n, A, P)
  BY <1>1, EraseKeeps DEF reap_tombstones
<1>3. Live(t) = Live(s)
  BY <1>1, <1>2 DEF Erased
<1>4. Views(t)
  BY <1>2, <1>3 DEF Erased, Sound, Views
<1> QED BY <1>2, <1>4 DEF Erased, Sound

LEMMA GhostsGo ==
  ASSUME NEW n \in Nodes, NEW A, NEW s, Sound(s, n, A), NEW P \in SUBSET Spent(s, n),
         NEW t, t = reap_unverified(s, P)
  PROVE  Sound(t, n, A) /\ Same(s, t) /\ t.inc = s.inc
<1>1. CASE P = {}
  BY <1>1 DEF reap_unverified, Same
<1>2. CASE P # {}
  <2> DEFINE u == erase(s, P)
  <2>1. Erased(u, s, n, A, P)
    BY EraseKeeps
  <2>2. t = republish(u)
    BY <1>2 DEF reap_unverified
  <2> HIDE DEF u
  <2>3. /\ t \in NodeState /\ Same(u, t) /\ t.inc = u.inc /\ t.tab = u.tab /\ t.lease = u.lease
        /\ t.roster = u.roster /\ t.live = Live(u) /\ t.placed = PlacedOf(u)
    BY <2>1, <2>2, RepublishIs DEF Erased
  <2>4. Live(t) = Live(u) /\ Known(t) = Known(u) /\ PlacedOf(t) = PlacedOf(u)
    BY <2>3 DEF Live, Known, PlacedOf
  <2>5. Views(t)
    BY <2>1, <2>3, <2>4 DEF Erased, Sound, Views
  <2>6. Shields(t, n) /\ Own(t, n) /\ Clean(t) /\ Issued(t, n, A)
    BY <2>1, <2>3, <2>4 DEF Erased, Shields, Own, Clean, Issued, Same
  <2>7. Same(s, t) /\ t.inc = s.inc
    BY <2>1, <2>3 DEF Erased, Same
  <2> QED BY <2>3, <2>5, <2>6, <2>7 DEF Sound
<1> QED BY <1>1, <1>2

\* The probe in flight is resolved, escalated, or its target suspected.
LEMMA DriveKeeps ==
  ASSUME NEW n \in Nodes, NEW A, NEW s, Sound(s, n, A), NEW lapsed, NEW t, t = drive_probe(s, n, lapsed)
  PROVE  Sound(t, n, A) /\ t.inc = s.inc
<1> DEFINE p == s.probe.to
           closed == [s EXCEPT !.probe = NoProbe]
           asked == [s EXCEPT !.probe.indirect = TRUE]
<1>1. /\ s \in NodeState /\ s.probe \in ProbeState /\ s.inc \in Nat /\ None \notin Nodes
      /\ \A q \in Nodes : s.tab[q] \in Entry \cup {None}
  BY NodesAssumption DEF Sound, NodeState
<1>2. s.probe \in [to : Nodes \cup {None}, indirect : BOOLEAN, acked : BOOLEAN]
  BY <1>1 DEF ProbeState
<1>3. p \in awake_peers(s, n) => p \in Nodes /\ p # n /\ s.lease[p] = 0 /\ s.tab[p] # None /\ p # None
  BY <1>1 DEF awake_peers, live_peers, Live, Known
<1>4. Sound(closed, n, A) /\ closed.inc = s.inc /\ closed.tab = s.tab /\ closed.lease = s.lease
  <2>1. NoProbe \in ProbeState /\ NoProbe.to = None /\ ~NoProbe.indirect
    BY DEF NoProbe, ProbeState
  <2>2. /\ closed \in NodeState /\ closed.probe = NoProbe /\ closed.inc = s.inc /\ closed.tab = s.tab
        /\ closed.lease = s.lease /\ closed.left = s.left /\ closed.live = s.live /\ closed.placed = s.placed
        /\ closed.roster = s.roster /\ closed.denied = s.denied /\ closed.dirty = s.dirty
    BY <1>1, <2>1 DEF NodeState
  <2> HIDE DEF closed
  <2>3. Alike(s, closed, n)
    BY <1>1, <2>1, <2>2 DEF Alike, RowsAlike, Sound, Own
  <2> QED BY <2>2, <2>3, AlikeKeeps
<1>5. CASE t = s
  BY <1>5
<1>6. CASE t = closed
  BY <1>4, <1>6
<1>7. CASE t = asked /\ p # None
  <2>1. [s.probe EXCEPT !.indirect = TRUE] \in ProbeState /\ [s.probe EXCEPT !.indirect = TRUE].to = p
    BY <1>2 DEF ProbeState
  <2>2. /\ t \in NodeState /\ t.probe = [s.probe EXCEPT !.indirect = TRUE] /\ t.inc = s.inc /\ t.tab = s.tab
        /\ t.lease = s.lease /\ t.left = s.left /\ t.live = s.live /\ t.placed = s.placed
        /\ t.roster = s.roster /\ t.denied = s.denied /\ t.dirty = s.dirty
    BY <1>1, <1>7, <2>1, ZenonT(60) DEF NodeState
  <2>3. p # n
    BY DEF Sound, Own
  <2>4. Alike(s, t, n)
    BY <1>7, <2>1, <2>2, <2>3, ZenonT(60) DEF Alike, RowsAlike, Sound, Own
  <2> QED BY <2>2, <2>4, AlikeKeeps
<1>8. CASE /\ p \in awake_peers(s, n)
           /\ t = apply_update(closed, n, p, incarnation_of(s, p), "Suspect", "Local", FALSE)
  <2>1. incarnation_of(s, p) = s.tab[p].inc /\ s.tab[p].inc \in Nat
    BY <1>1, <1>3, <1>8 DEF incarnation_of, Entry
  <2>2. <<p, s.tab[p].inc>> \in A
    BY <1>3, <1>8 DEF Sound, Issued, Known
  <2>3. "Suspect" \in Status /\ "Local" \in Sources /\ closed.lease[p] = 0
    BY <1>3, <1>4, <1>8 DEF Status, Sources
  <2> HIDE DEF closed, p
  <2>4. UpdateTakes(t, closed, n, p, A)
    BY <1>3, <1>4, <1>8, <2>1, <2>2, <2>3, UpdateKeeps
  <2> QED BY <1>3, <1>4, <1>8, <2>4 DEF UpdateTakes
<1>9. \/ t = s \/ t = closed \/ (t = asked /\ p # None)
      \/ /\ p \in awake_peers(s, n)
         /\ t = apply_update(closed, n, p, incarnation_of(s, p), "Suspect", "Local", FALSE)
  <2>1. CASE p = None
    BY <1>3, <2>1 DEF drive_probe
  <2>2. CASE p # None /\ (s.probe.acked \/ p \notin awake_peers(s, n))
    BY <1>3, <2>2 DEF drive_probe
  <2>3. CASE p # None /\ ~s.probe.acked /\ p \in awake_peers(s, n)
    BY <1>3, <2>3 DEF drive_probe
  <2> QED BY <2>1, <2>2, <2>3
<1> QED BY <1>5, <1>6, <1>7, <1>8, <1>9

\* All of tick up to start_probe, on the deadlines that have lapsed.
LEMMA HousekeepKeeps ==
  ASSUME NEW n \in Nodes, NEW A, NEW s, Sound(s, n, A), NEW lapsed \in SUBSET Deadlines(s, n),
         NEW t, t = housekeep(s, n, lapsed)
  PROVE  Sound(t, n, A) /\ t.inc = s.inc
<1> DEFINE P(what) == {p \in Nodes : <<what, p>> \in lapsed}
           L == P("lease")
           S == P("suspect")
           Tm == P("tomb")
           Gh == P("ghost")
           a == expire_suspend_leases(s, n, L)
           b == reap_suspects(a, S)
           c == reap_tombstones(b, Tm)
           d == reap_unverified(c, Gh)
<1>1. L \in SUBSET {p \in Nodes : s.lease[p] # 0}
  BY DEF Deadlines
<1>2. S \in SUBSET {q \in awake_peers(s, n) : s.tab[q].st = "Suspect"}
  BY DEF Deadlines
<1>3. Tm \in SUBSET (Known(s) \ ({n} \cup Live(s)))
  BY DEF Deadlines
<1>4. Gh \in SUBSET {q \in live_peers(s, n) : ~s.tab[q].ver}
  BY DEF Deadlines
<1>5. t = drive_probe(d, n, P("probe") # {})
  BY DEF housekeep
<1> HIDE DEF L, S, Tm, Gh
<1>6. L \cap S = {} /\ L \cap Tm = {} /\ L \cap Gh = {} /\ S \cap Tm = {} /\ Gh \cap Tm = {}
  <2>1. L \cap S = {} /\ S \cap Tm = {} /\ Gh \cap Tm = {}
    BY <1>1, <1>2, <1>3, <1>4 DEF awake_peers, live_peers
  <2>2. \A p \in L : p \in Live(s) /\ s.tab[p].ver
    BY <1>1 DEF Sound, Shields, Live, Known, is_tomb
  <2> QED BY <1>3, <1>4, <2>1, <2>2
<1>7. Sound(a, n, A) /\ Follows(s, a) /\ Others(s, a, L) /\ a.inc = s.inc
  BY <1>1, ExpireKeeps
<1> HIDE DEF a
<1>8. /\ S \in SUBSET {q \in awake_peers(a, n) : a.tab[q].st = "Suspect"}
      /\ Tm \in SUBSET (Known(a) \ ({n} \cup Live(a)))
      /\ \A q \in Gh : q \in Nodes \ {n} /\ a.tab[q] # None /\ ~a.tab[q].ver
  <2>1. ASSUME NEW q \in Nodes \ L PROVE a.tab[q] = s.tab[q] /\ a.lease[q] = s.lease[q]
    BY <1>7 DEF Others
  <2>2. \A q \in S : q \in Nodes \ L /\ q \in awake_peers(a, n) /\ a.tab[q].st = "Suspect"
    BY <1>2, <1>6, <2>1 DEF awake_peers, live_peers, Live, Known
  <2>3. \A q \in Tm : q \in Nodes \ L /\ q \in Known(a) /\ q # n /\ q \notin Live(a)
    BY <1>3, <1>6, <2>1 DEF Live, Known
  <2>4. \A q \in Gh : q \in Nodes \ L /\ q # n /\ a.tab[q] # None /\ ~a.tab[q].ver
    BY <1>4, <1>6, <2>1 DEF live_peers, Live, Known
  <2> QED BY <2>2, <2>3, <2>4
<1>9. /\ Sound(b, n, A) /\ Same(a, b) /\ Others(a, b, S) /\ b.inc = a.inc
      /\ \A p \in S : b.tab[p] # None /\ b.tab[p].ver = a.tab[p].ver
  BY <1>7, <1>8, ReapKeeps
<1> HIDE DEF b
<1>10. /\ Tm \in SUBSET (Known(b) \ ({n} \cup Live(b)))
       /\ \A q \in Gh : q \in Nodes \ {n} /\ b.tab[q] # None /\ ~b.tab[q].ver
  <2>1. ASSUME NEW q \in Nodes \ S PROVE b.tab[q] = a.tab[q]
    BY <1>9 DEF Others
  <2>2. \A q \in Tm : q \in Nodes \ S /\ q \in Known(b) /\ q # n /\ q \notin Live(b)
    BY <1>6, <1>8, <2>1 DEF Live, Known
  <2>3. \A q \in Gh : b.tab[q] # None /\ ~b.tab[q].ver
    BY <1>8, <1>9, <2>1
  <2> QED BY <1>8, <2>2, <2>3
<1>11. Sound(c, n, A) /\ Same(b, c) /\ Others(b, c, Tm) /\ c.inc = b.inc
  BY <1>9, <1>10, TombstonesGo
<1> HIDE DEF c
<1>12. Gh \in SUBSET Spent(c, n)
  <2>1. \A q \in Gh : c.tab[q] = b.tab[q]
    BY <1>6, <1>10, <1>11 DEF Others
  <2> QED BY <1>10, <2>1 DEF Spent, Known
<1>13. Sound(d, n, A) /\ d.inc = c.inc
  BY <1>11, <1>12, GhostsGo
<1> HIDE DEF d
<1>14. Sound(t, n, A) /\ t.inc = d.inc
  BY <1>5, <1>13, DriveKeeps, SMTT(30)
<1> QED BY <1>7, <1>9, <1>11, <1>13, <1>14

-----------------------------------------------------------------------------
(* A frame.                                                                  *)

Frames == [kind : Kinds, from : Nodes, to : Nodes, finc : Nat, sub : Nodes \cup {None}, sinc : Nat,
           cur : BOOLEAN, upd : UNION {[D -> Update] : D \in SUBSET Nodes}]

\* What a frame says of incarnations is in A; joins are sent where nodes start
\* anew, in which case every incarnation is.
Honest(f, A, free) ==
    /\ f \in Frames /\ <<f.from, f.finc>> \in A
    /\ \A q \in DOMAIN f.upd : <<q, f.upd[q].inc>> \in A
    /\ f.kind \in {"PingReq", "PingReqAck"} => f.sub \in Nodes
    /\ f.kind = "PingReqAck" => <<f.sub, f.sinc>> \in A
    /\ f.kind \in {"Join", "JoinAck"} => free

LEMMA FrameFacts ==
  ASSUME NEW f \in Frames
  PROVE  /\ f.from \in Nodes /\ f.to \in Nodes /\ f.finc \in Nat /\ f.sinc \in Nat /\ f.kind \in Kinds
         /\ f.sub \in Nodes \cup {None} /\ f.cur \in BOOLEAN
         /\ DOMAIN f.upd \in SUBSET Nodes
         /\ \A q \in DOMAIN f.upd : f.upd[q].inc \in Nat /\ f.upd[q].st \in Status
<1>1. /\ f.from \in Nodes /\ f.to \in Nodes /\ f.finc \in Nat /\ f.sinc \in Nat /\ f.kind \in Kinds
      /\ f.sub \in Nodes \cup {None} /\ f.cur \in BOOLEAN
  BY DEF Frames
<1>2. PICK D \in SUBSET Nodes : f.upd \in [D -> Update]
  <2>1. f.upd \in UNION {[D -> Update] : D \in SUBSET Nodes}
    BY DEF Frames
  <2> QED BY <2>1
<1>3. DOMAIN f.upd \in SUBSET Nodes
  BY <1>2
<1>4. \A q \in DOMAIN f.upd : f.upd[q].inc \in Nat /\ f.upd[q].st \in Status
  BY <1>2 DEF Update
<1> QED BY <1>1, <1>3, <1>4

\* A handler's work: in order, and the own incarnation has not fallen.
Grown(t, s, n, A) == Sound(t, n, A) /\ t \in NodeState /\ t.inc \in Nat /\ t.inc >= s.inc

LEMMA GrownOn ==
  ASSUME NEW n, NEW A, NEW s \in NodeState, NEW t, NEW u, Grown(t, s, n, A), Grown(u, t, n, A)
  PROVE  Grown(u, s, n, A)
<1>1. s.inc \in Nat /\ t.inc \in Nat /\ u.inc \in Nat /\ t.inc >= s.inc /\ u.inc >= t.inc
  BY DEF NodeState, Grown
<1>2. u.inc >= s.inc
  BY <1>1
<1> QED BY <1>2 DEF Grown

\* An update that is not of the node's own timers.
LEMMA HeardKeeps ==
  ASSUME NEW n \in Nodes, NEW A, NEW s, Sound(s, n, A), NEW p \in Nodes, NEW i \in Nat, <<p, i>> \in A,
         NEW src \in {"Direct", "Gossip", "Join"}, NEW t, t = apply_update(s, n, p, i, "Alive", src, FALSE)
  PROVE  Grown(t, s, n, A) /\ t.probe = s.probe
<1>1. "Alive" \in Status /\ src \in Sources /\ src # "Local"
  BY DEF Status, Sources
<1>2. UpdateTakes(t, s, n, p, A)
  BY <1>1, UpdateKeeps
<1> QED BY <1>2 DEF UpdateTakes, Grown, Follows, Same, Sound, NodeState

\* The updates of a digest.
LEMMA DigestKeeps ==
  ASSUME NEW n \in Nodes, NEW A, NEW s, Sound(s, n, A), NEW f \in Frames,
         \A q \in DOMAIN f.upd : <<q, f.upd[q].inc>> \in A,
         NEW D \in SUBSET DOMAIN f.upd, NEW src \in {"Gossip", "JoinSnapshot"}, NEW recent,
         NEW t, t = apply_all(s, n, D, f.upd, src, recent)
  PROVE  Grown(t, s, n, A)
<1>1. /\ D \in SUBSET Nodes /\ \A q \in D : f.upd[q].inc \in Nat /\ f.upd[q].st \in Status
      /\ \A q \in D \ {n} : <<q, f.upd[q].inc>> \in A
  BY FrameFacts
<1>2. src \in Sources /\ src # "Local"
  BY DEF Sources
<1>3. Applied(t, s, n, D, f.upd, src, A)
  BY <1>1, <1>2, AllKeep
<1> QED BY <1>3 DEF Applied, Grown, Follows, Sound, NodeState

\* A record like s in everything but the probe, the incarnation, leases and
\* the details of rows is Alike; the cases of on_frame that are such.
LEMMA LeaseEnds ==
  ASSUME NEW n \in Nodes, NEW A, NEW s, Sound(s, n, A), NEW p \in Nodes, NEW t, t = [s EXCEPT !.lease[p] = 0]
  PROVE  Grown(t, s, n, A)
<1>1. s \in NodeState /\ s.inc \in Nat /\ s.lease \in [Nodes -> Nat]
  BY DEF Sound, NodeState
<1>2. /\ t \in NodeState /\ t.lease = [s.lease EXCEPT ![p] = 0] /\ t.inc = s.inc /\ t.tab = s.tab
      /\ t.probe = s.probe /\ t.left = s.left /\ t.live = s.live /\ t.placed = s.placed
      /\ t.roster = s.roster /\ t.denied = s.denied /\ t.dirty = s.dirty
  BY <1>1 DEF NodeState
<1>3. \A q \in Nodes : t.lease[q] = 0 \/ t.lease[q] = s.lease[q]
  BY <1>1, <1>2
<1>4. Alike(s, t, n)
  BY <1>2, <1>3 DEF Alike, RowsAlike, Sound, Own
<1> QED BY <1>1, <1>2, <1>4, AlikeKeeps DEF Grown

LEMMA AckedKeeps ==
  ASSUME NEW n \in Nodes, NEW A, NEW s, Sound(s, n, A), NEW p, NEW f, NEW t, t = acked(s, p, f)
  PROVE  Grown(t, s, n, A)
<1>1. s \in NodeState /\ s.inc \in Nat /\ s.probe \in ProbeState
  BY DEF Sound, NodeState
<1>2. CASE t = s
  BY <1>1, <1>2 DEF Grown
<1>3. CASE t # s
  <2> DEFINE pr == [s.probe EXCEPT !.acked = TRUE]
  <2>1. t = [s EXCEPT !.probe.acked = TRUE]
    BY <1>3 DEF acked
  <2>2. pr \in ProbeState /\ pr.to = s.probe.to /\ pr.indirect = s.probe.indirect
    BY <1>1 DEF ProbeState
  <2>3. /\ t \in NodeState /\ t.probe = pr /\ t.lease = s.lease /\ t.inc = s.inc /\ t.tab = s.tab
        /\ t.left = s.left /\ t.live = s.live /\ t.placed = s.placed
        /\ t.roster = s.roster /\ t.denied = s.denied /\ t.dirty = s.dirty
    BY <1>1, <2>1, <2>2 DEF NodeState
  <2> HIDE DEF pr
  <2>4. Alike(s, t, n)
    BY <2>2, <2>3 DEF Alike, RowsAlike, Sound, Own
  <2> QED BY <1>1, <2>3, <2>4, AlikeKeeps DEF Grown
<1> QED BY <1>2, <1>3

\* The own incarnation is replaced, in the table too.
Adopted(s, n, i) == [s EXCEPT !.inc = i, !.tab[n].inc = i]

LEMMA AdoptKeeps ==
  ASSUME NEW n \in Nodes, NEW A, NEW s, Sound(s, n, A), NEW i \in Nat, NEW t, t = Adopted(s, n, i)
  PROVE  Sound(t, n, A) /\ t.inc = i /\ t \in NodeState /\ t.left = s.left
<1> DEFINE e == [s.tab[n] EXCEPT !.inc = i]
<1>1. s \in NodeState /\ s.tab \in Tables /\ s.tab[n] \in Entry /\ None \notin Entry
  BY NodesAssumption DEF Sound, NodeState, Own, Tables
<1>2. e \in Entry /\ e.inc = i /\ e.st = s.tab[n].st /\ e.ver = s.tab[n].ver
  <2>1. s.tab[n] \in [inc : Nat, st : Status, ver : BOOLEAN, verify : BOOLEAN, lapsed : Nat]
    BY <1>1 DEF Entry
  <2>2. /\ e \in [inc : Nat, st : Status, ver : BOOLEAN, verify : BOOLEAN, lapsed : Nat]
        /\ e.inc = i /\ e.st = s.tab[n].st /\ e.ver = s.tab[n].ver
    BY <2>1
  <2> QED BY <2>2 DEF Entry
<1>3. /\ t \in NodeState /\ t.tab = [s.tab EXCEPT ![n] = e] /\ t.inc = i /\ t.lease = s.lease
      /\ t.probe = s.probe /\ t.left = s.left /\ t.live = s.live /\ t.placed = s.placed
      /\ t.roster = s.roster /\ t.denied = s.denied /\ t.dirty = s.dirty
  BY <1>1, <1>2 DEF Adopted, NodeState, Tables
<1> HIDE DEF e
<1>4. t.tab[n] = e /\ (\A q \in Nodes \ {n} : t.tab[q] = s.tab[q]) /\ e # None /\ s.tab[n] # None
  BY <1>1, <1>2, <1>3 DEF Tables
<1>5. RowsAlike(s, t, n)
  BY <1>2, <1>4 DEF RowsAlike
<1>6. Alike(s, t, n)
  BY <1>2, <1>3, <1>4, <1>5 DEF Alike, Sound, Own
<1> QED BY <1>3, <1>6, AlikeKeeps

\* A member that goes to sleep is granted a lease, and a suspicion of it goes.
LEMMA SuspendKeeps ==
  ASSUME NEW n \in Nodes, NEW A, NEW s, Sound(s, n, A), NEW f \in Frames, f.from # n,
         NEW t, t = on_suspend_announced(s, n, f)
  PROVE  Grown(t, s, n, A)
<1> DEFINE p == f.from
           e == s.tab[p]
<1>1. s \in NodeState /\ s.inc \in Nat /\ s.tab \in Tables /\ s.lease \in [Nodes -> Nat] /\ s.probe \in ProbeState
  BY DEF Sound, NodeState, Tables
<1>2. p \in Nodes /\ f.finc \in Nat
  BY FrameFacts
<1>3. CASE t = s
  BY <1>1, <1>3, SMTT(30) DEF Grown
<1>4. CASE t # s
  <2> DEFINE verify == IF e.st = "Suspect" THEN FALSE ELSE e.verify
             new == [e EXCEPT !.st = "Alive", !.verify = verify]
             pr == IF s.probe.to = p THEN NoProbe ELSE s.probe
  <2>1. e # None /\ ~is_tomb(e.st) /\ e.ver
    BY <1>4 DEF on_suspend_announced
  <2>2. t = [s EXCEPT !.lease[p] = f.finc, !.tab[p].st = "Alive", !.tab[p].verify = verify, !.probe = pr]
    BY <1>4, <2>1 DEF on_suspend_announced
  <2>3. e \in Entry
    BY <1>1, <1>2, <2>1 DEF Tables
  <2>4. new \in Entry /\ new.st = "Alive" /\ new.ver /\ new.inc = e.inc
    <3>1. e \in [inc : Nat, st : Status, ver : BOOLEAN, verify : BOOLEAN, lapsed : Nat]
      BY <2>3 DEF Entry
    <3>2. verify \in BOOLEAN /\ "Alive" \in Status
      BY <3>1 DEF Status
    <3> HIDE DEF verify
    <3>3. /\ new \in [inc : Nat, st : Status, ver : BOOLEAN, verify : BOOLEAN, lapsed : Nat]
          /\ new.st = "Alive" /\ new.ver = e.ver /\ new.inc = e.inc
      BY <3>1, <3>2
    <3> QED BY <2>1, <3>3 DEF Entry
  <2>5. pr \in ProbeState /\ pr.to # n /\ (pr.indirect => pr.to # None)
    BY <1>1, NodesAssumption DEF Sound, Own, NoProbe, ProbeState
  <2> HIDE DEF verify, pr
  <2>6. /\ t.tab = [[s.tab EXCEPT ![p].st = "Alive"] EXCEPT ![p].verify = verify]
        /\ t.lease = [s.lease EXCEPT ![p] = f.finc] /\ t.probe = pr
        /\ t.inc = s.inc /\ t.left = s.left /\ t.live = s.live /\ t.placed = s.placed
        /\ t.roster = s.roster /\ t.denied = s.denied /\ t.dirty = s.dirty
        /\ t = [[[s EXCEPT !.tab = t.tab] EXCEPT !.lease = t.lease] EXCEPT !.probe = t.probe]
    BY <1>1, <2>2, ZenonT(60) DEF NodeState
  <2>7. t.tab = [s.tab EXCEPT ![p] = new]
    <3>1. [[s.tab EXCEPT ![p].st = "Alive"] EXCEPT ![p].verify = verify] = [s.tab EXCEPT ![p] = new]
      BY <1>1, <1>2, <2>3 DEF Tables
    <3> QED BY <2>6, <3>1
  <2> HIDE DEF new
  <2>8. t \in NodeState
    <3>1. t.tab \in Tables /\ t.lease \in [Nodes -> Nat]
      BY <1>1, <1>2, <2>4, <2>6, <2>7 DEF Tables
    <3> QED BY <1>1, <2>5, <2>6, <3>1 DEF NodeState, Tables
  <2>9. RowIs(s, t, p, new)
    BY <1>1, <1>2, <2>4, <2>7, RowChange
  <2>10. p \in Known(s) /\ p \in Live(s) /\ p \in PlacedOf(s)
    BY <1>2, <2>1 DEF Known, Live, PlacedOf
  <2>11. Known(t) = Known(s) /\ Live(t) = Live(s) /\ PlacedOf(t) = PlacedOf(s)
    BY <2>4, <2>9, <2>10 DEF RowIs, is_tomb
  <2>12. Views(t)
    BY <2>6, <2>11, SMTT(30) DEF Sound, Views
  <2>13. t.tab[p] = new /\ new # None /\ \A q \in Nodes \ {p} : t.tab[q] = s.tab[q] /\ t.lease[q] = s.lease[q]
    BY <1>1, <2>6, <2>9 DEF RowIs
  <2>14. Shields(t, n)
    BY <2>4, <2>13, SMTT(30) DEF Sound, Shields
  <2>15. Own(t, n)
    BY <2>5, <2>6, <2>13 DEF Sound, Own
  <2>16. Clean(t)
    BY <2>6, <2>11 DEF Sound, Clean
  <2>17. Issued(t, n, A)
    BY <2>4, <2>11, <2>13 DEF Sound, Issued, Known
  <2> QED BY <1>1, <2>6, <2>8, <2>12, <2>14, <2>15, <2>16, <2>17 DEF Sound, Grown
<1> QED BY <1>3, <1>4

\* The whole of handle_control.
LEMMA ControlKeeps ==
  ASSUME NEW n \in Nodes, NEW A, NEW s, Sound(s, n, A), NEW f, NEW free, Honest(f, A, free),
         free => A = Nodes \X Nat, f.from # n, NEW recent, NEW t, t = handle_control(s, n, f, recent)
  PROVE  Grown(t, s, n, A)
<1> DEFINE a == apply_update(s, n, f.from, f.finc, "Alive", "Direct", FALSE)
           b == on_leased_peer_spoke(a, f)
           c == IF s.tab[f.from] # None THEN b ELSE s
           near == recent \cup (IF s.tab[f.from] # None THEN {f.from} ELSE {})
           d == absorb(c, n, f, near)
<1>1. /\ f \in Frames /\ <<f.from, f.finc>> \in A /\ \A q \in DOMAIN f.upd : <<q, f.upd[q].inc>> \in A
  BY DEF Honest
<1>2. f.from \in Nodes /\ f.finc \in Nat /\ f.sinc \in Nat /\ f.kind \in Kinds
  BY <1>1, FrameFacts
<1>3. s \in NodeState /\ s.inc \in Nat /\ Grown(s, s, n, A)
  BY DEF Sound, NodeState, Grown
<1>4. t = by_kind(d, n, f)
  BY DEF handle_control
<1>5. Grown(a, s, n, A)
  BY <1>1, <1>2, HeardKeeps
<1> HIDE DEF a
<1>6. Grown(b, a, n, A)
  <2>1. CASE b = a
    BY <1>5, <2>1 DEF Grown
  <2>2. CASE b # a
    <3>1. b = [a EXCEPT !.lease[f.from] = 0]
      BY <2>2 DEF on_leased_peer_spoke
    <3> QED BY <1>2, <1>5, <3>1, LeaseEnds DEF Grown
  <2> QED BY <2>1, <2>2
<1> HIDE DEF b
<1>7. Grown(c, s, n, A)
  <2>1. Grown(b, s, n, A)
    BY <1>3, <1>5, <1>6, GrownOn
  <2> QED BY <1>3, <2>1
<1> HIDE DEF c, near
<1>8. Grown(d, c, n, A)
  <2> DEFINE D == {p \in DOMAIN f.upd : f.upd[p].st = "Left" => p = f.from}
  <2>1. d = apply_all(c, n, D, f.upd, "Gossip", near) /\ D \in SUBSET DOMAIN f.upd
    BY DEF absorb
  <2> HIDE DEF D, d
  <2>2. Sound(c, n, A)
    BY <1>7 DEF Grown
  <2> QED BY <1>1, <2>1, <2>2, DigestKeeps
<1> HIDE DEF d
<1>9. Sound(d, n, A) /\ d \in NodeState /\ d.inc \in Nat /\ Grown(d, d, n, A)
  BY <1>8 DEF Grown, NodeState
<1>10. Grown(t, d, n, A)
  <2>1. CASE f.kind = "Ack"
    <3> DEFINE u == apply_update(d, n, f.from, f.finc, "Alive", "Direct", FALSE)
    <3>1. Grown(u, d, n, A)
      BY <1>1, <1>2, <1>9, HeardKeeps
    <3>2. t = IF f.sub = None THEN acked(u, f.from, f) ELSE u
      BY <1>4, <2>1 DEF by_kind
    <3> HIDE DEF u
    <3>3. CASE f.sub = None
      <4>1. Grown(t, u, n, A)
        BY <3>1, <3>2, <3>3, AckedKeeps DEF Grown
      <4> QED BY <1>9, <3>1, <4>1, GrownOn
    <3>4. CASE f.sub # None
      BY <3>1, <3>2, <3>4
    <3> QED BY <3>3, <3>4
  <2>2. CASE f.kind = "PingReqAck"
    <3> DEFINE u == acked(d, f.sub, f)
    <3>1. f.sub \in Nodes /\ <<f.sub, f.sinc>> \in A
      BY <2>2 DEF Honest
    <3>2. t = apply_update(u, n, f.sub, f.sinc, "Alive", "Gossip", FALSE)
      BY <1>4, <2>2 DEF by_kind
    <3>3. Grown(u, d, n, A)
      BY <1>9, AckedKeeps
    <3> HIDE DEF u
    <3>4. Grown(t, u, n, A)
      <4>1. Sound(u, n, A) /\ "Gossip" \in {"Direct", "Gossip", "Join"} /\ f.sub \in Nodes /\ f.sinc \in Nat
        BY <1>2, <3>1, <3>3 DEF Grown
      <4>2. Grown(apply_update(u, n, f.sub, f.sinc, "Alive", "Gossip", FALSE), u, n, A)
        <5> DEFINE v == apply_update(u, n, f.sub, f.sinc, "Alive", "Gossip", FALSE)
        <5>1. v = apply_update(u, n, f.sub, f.sinc, "Alive", "Gossip", FALSE)
          OBVIOUS
        <5> HIDE DEF v
        <5>2. Grown(v, u, n, A)
          BY <3>1, <4>1, <5>1, HeardKeeps, ZenonT(60)
        <5> QED BY <5>1, <5>2
      <4> QED BY <3>2, <4>2
    <3> QED BY <1>9, <3>3, <3>4, GrownOn
  <2>3. CASE f.kind = "Join"
    <3> DEFINE e == d.tab[f.from]
               inc == IF e # None /\ is_tomb(e.st) /\ e.inc >= f.sinc THEN e.inc + 1 ELSE f.sinc
               u == apply_update(d, n, f.from, inc, "Alive", "Join", FALSE)
    <3>1. inc \in Nat
      <4>1. e \in Entry \cup {None}
        BY <1>2, <1>9 DEF NodeState
      <4>2. e # None => e.inc \in Nat
        BY <4>1 DEF Entry
      <4> QED BY <1>2, <4>2
    <3>2. <<f.from, inc>> \in A
      BY <1>2, <2>3, <3>1, SMTT(30) DEF Honest
    <3>3. t = [u EXCEPT !.lease[f.from] = 0]
      BY <1>4, <2>3 DEF by_kind, on_join
    <3>6. u = apply_update(d, n, f.from, inc, "Alive", "Join", FALSE) /\ "Join" \in {"Direct", "Gossip", "Join"}
      OBVIOUS
    <3> HIDE DEF inc, u
    <3>4. Grown(u, d, n, A)
      BY <1>2, <1>9, <3>1, <3>2, <3>6, HeardKeeps, ZenonT(60)
    <3>5. Grown(t, u, n, A)
      BY <1>2, <3>3, <3>4, LeaseEnds DEF Grown
    <3> QED BY <1>9, <3>4, <3>5, GrownOn
  <2>4. CASE f.kind = "JoinAck"
    <3> DEFINE adopt == ~d.left /\ f.sinc > d.inc
               u == IF adopt THEN [d EXCEPT !.inc = f.sinc, !.tab[n].inc = f.sinc] ELSE d
               D == {p \in DOMAIN f.upd : f.upd[p].st = "Alive"}
    <3>1. t = apply_all(u, n, D, f.upd, "JoinSnapshot", {}) /\ D \in SUBSET DOMAIN f.upd
      BY <1>4, <2>4 DEF by_kind, on_join_ack
    <3>2. Grown(u, d, n, A)
      <4>1. CASE adopt
        <5>1. PICK i \in Nat : i = f.sinc
          BY <1>2
        <5>2. u = Adopted(d, n, i)
          BY <4>1, <5>1 DEF Adopted
        <5> HIDE DEF u
        <5>3. Sound(d, n, A)
          BY <1>9
        <5>4. Sound(u, n, A) /\ u.inc = i /\ u \in NodeState
          BY <5>2, <5>3, AdoptKeeps
        <5>5. f.sinc >= d.inc
          BY <1>2, <1>9, <4>1
        <5> QED BY <5>1, <5>4, <5>5 DEF Grown
      <4>2. CASE ~adopt
        BY <1>9, <4>2
      <4> QED BY <4>1, <4>2
    <3> HIDE DEF u, D
    <3>3. Grown(t, u, n, A)
      BY <1>1, <3>1, <3>2, DigestKeeps DEF Grown
    <3> QED BY <1>9, <3>2, <3>3, GrownOn
  <2>5. CASE f.kind = "Suspend"
    <3>1. t = on_suspend_announced(d, n, f)
      BY <1>4, <2>5 DEF by_kind
    <3> QED BY <1>1, <1>9, <3>1, SuspendKeeps
  <2>6. CASE f.kind \notin {"Ack", "PingReqAck", "Join", "JoinAck", "Suspend"}
    <3>1. t = d
      BY <1>4, <2>6 DEF by_kind
    <3> QED BY <1>9, <3>1
  <2> QED BY <2>1, <2>2, <2>3, <2>4, <2>5, <2>6
<1>11. Grown(d, s, n, A)
  BY <1>3, <1>7, <1>8, GrownOn
<1> QED BY <1>3, <1>10, <1>11, GrownOn

-----------------------------------------------------------------------------
(* The frames in flight.                                                     *)

LEMMA ChannelsAreFinite == IsFiniteSet(Channels)
<1>1. IsFiniteSet(Nodes \X Nodes)
  BY FS_Product, NodesAssumption
<1>2. Channels \in SUBSET (Nodes \X Nodes)
  BY DEF Channels
<1> QED BY <1>1, <1>2, FS_Subset

Nets == [Channels -> Seq(Frames)]

\* f[P] counts the frames on the connections P, taken in the order of the fold.
Summed(f, b) ==
    /\ f \in [SUBSET Channels -> Nat] /\ f[{}] = 0
    /\ \A P \in SUBSET Channels : P # {} =>
          f[P] = f[P \ {CHOOSE c \in P : TRUE}] + Len(b[CHOOSE c \in P : TRUE])

LEMMA InFlightSums ==
  ASSUME NEW b \in Nets
  PROVE  \E f : Summed(f, b) /\ InFlight(b) = f[Channels]
<1> DEFINE D == Channels
           c == [P \in SUBSET D |-> CHOOSE p \in P : TRUE]
           Law(f, P) == IF P = {} THEN 0
                        ELSE f[P \ {CHOOSE p \in P : TRUE}] + Len(b[CHOOSE p \in P : TRUE])
           g == [z \in D \X Nat |-> z[2] + Len(b[z[1]])]
           it == CHOOSE f : f = [P \in SUBSET D |-> Law(f, P)]
<1>1. InFlight(b) = it[D]
  BY DEF InFlight, FoldSet, MapThenFoldSet
<1>2. \A P \in SUBSET D : P # {} => (CHOOSE p \in P : TRUE) \in P
  OBVIOUS
<1>3. g \in [D \X Nat -> Nat] /\ Chooses(c, D)
  <2>1. \A p \in D : Len(b[p]) \in Nat
    BY LenProperties DEF Nets
  <2> QED BY <1>2, <2>1 DEF Chooses
<1>4. PICK f \in [SUBSET D -> Nat] : Recurs(f, D, 0, g, c)
  <2> HIDE DEF g, c, D
  <2> QED BY <1>3, FoldTable, ChannelsAreFinite DEF D
<1>5. ASSUME NEW P \in SUBSET D PROVE f[P] = Law(f, P)
  <2>1. CASE P = {}
    BY <1>4, <2>1 DEF Recurs
  <2>2. CASE P # {}
    <3> DEFINE x == CHOOSE p \in P : TRUE
    <3>1. c[P] = x /\ x \in D /\ P \ {x} \in SUBSET D
      BY <1>2, <2>2
    <3> HIDE DEF x, c
    <3>2. f[P] = g[<<x, f[P \ {x}]>>] /\ f[P \ {x}] \in Nat
      BY <1>4, <2>2, <3>1 DEF Recurs
    <3>3. f[P] = f[P \ {x}] + Len(b[x])
      BY <3>1, <3>2
    <3> QED BY <2>2, <3>3 DEF x
  <2> QED BY <2>1, <2>2
<1>6. f = [P \in SUBSET D |-> Law(f, P)]
  BY <1>5
<1>7. it = [P \in SUBSET D |-> Law(it, P)]
  <2> HIDE DEF Law
  <2> QED BY <1>6
<1>8. \A P \in SUBSET D : it[P] = Law(it, P)
  <2> HIDE DEF Law, it
  <2> QED BY <1>7
<1> HIDE DEF it
<1> DEFINE G == {P \in SUBSET D : it[P] = f[P]}
<1>9. ASSUME NEW P \in SUBSET D, \A Q \in (SUBSET P) \ {P} : Q \in G PROVE P \in G
  <2>1. CASE P = {}
    BY <1>5, <1>8, <2>1
  <2>2. CASE P # {}
    <3> DEFINE x == CHOOSE p \in P : TRUE
    <3>1. x \in P
      BY <1>2, <2>2
    <3>2. P \ {x} \in G
      BY <1>9, <3>1
    <3>3. it[P] = it[P \ {x}] + Len(b[x]) /\ f[P] = f[P \ {x}] + Len(b[x])
      BY <1>5, <1>8, <2>2
    <3> QED BY <3>2, <3>3
  <2> QED BY <2>1, <2>2
<1>10. SUBSET D \subseteq G
  <2> HIDE DEF G, D
  <2> QED BY <1>9, SetInduction, ChannelsAreFinite DEF D
<1>11. it[D] = f[D]
  BY <1>10
<1>12. Summed(f, b)
  BY <1>5 DEF Summed
<1> QED BY <1>1, <1>11, <1>12

LEMMA SumsBound ==
  ASSUME NEW x \in Nat, NEW y \in Nat, NEW u \in Nat, NEW v \in Nat, NEW e \in Nat, NEW k \in Nat,
         y <= x + k, v <= u + e
  PROVE  y + v <= (x + u) + (k + e)
  OBVIOUS

\* Nowhere more frames, but for e on one connection: at most e more in all.
LEMMA InFlightBound ==
  ASSUME NEW b \in Nets, NEW h \in Nets, NEW d, NEW e \in Nat,
         \A c \in Channels : Len(h[c]) <= Len(b[c]) + (IF c = d THEN e ELSE 0)
  PROVE  InFlight(b) \in Nat /\ InFlight(h) \in Nat /\ InFlight(h) <= InFlight(b) + e
<1>1. PICK f : Summed(f, b) /\ InFlight(b) = f[Channels]
  BY InFlightSums
<1>2. PICK g : Summed(g, h) /\ InFlight(h) = g[Channels]
  BY InFlightSums
<1> DEFINE G == {P \in SUBSET Channels : g[P] <= f[P] + (IF d \in P THEN e ELSE 0)}
<1>3. ASSUME NEW P \in SUBSET Channels, \A Q \in (SUBSET P) \ {P} : Q \in G PROVE P \in G
  <2>1. CASE P = {}
    BY <1>1, <1>2, <2>1 DEF Summed
  <2>2. CASE P # {}
    <3> DEFINE x == CHOOSE c \in P : TRUE
               Q == P \ {x}
    <3>1. x \in P /\ x \in Channels /\ Q \in SUBSET Channels
      BY <2>2
    <3>2. Q \in G
      BY <1>3, <3>1
    <3>3. /\ f[P] = f[Q] + Len(b[x]) /\ g[P] = g[Q] + Len(h[x])
          /\ f[Q] \in Nat /\ g[Q] \in Nat /\ f[P] \in Nat /\ g[P] \in Nat
      BY <1>1, <1>2, <2>2, <3>1 DEF Summed
    <3>4. Len(b[x]) \in Nat /\ Len(h[x]) \in Nat /\ Len(h[x]) <= Len(b[x]) + (IF x = d THEN e ELSE 0)
      BY <3>1, LenProperties DEF Nets
    <3> HIDE DEF x
    <3>5. g[Q] <= f[Q] + (IF d \in Q THEN e ELSE 0)
      BY <3>2
    <3>6. /\ x = d => d \in P /\ d \notin Q
          /\ x # d => (d \in P <=> d \in Q)
      BY <3>1
    <3> HIDE DEF Q
    <3> DEFINE k == IF d \in Q THEN e ELSE 0
               l == IF x = d THEN e ELSE 0
    <3>7. k \in Nat /\ l \in Nat /\ g[Q] <= f[Q] + k /\ Len(h[x]) <= Len(b[x]) + l
      BY <3>4, <3>5
    <3>8. k + l = IF d \in P THEN e ELSE 0
      <4>1. CASE x = d
        BY <3>6, <4>1
      <4>2. CASE x # d
        BY <3>6, <4>2
      <4> QED BY <4>1, <4>2
    <3> HIDE DEF k, l
    <3>9. g[Q] + Len(h[x]) <= (f[Q] + Len(b[x])) + (k + l)
      BY <3>3, <3>4, <3>7, SumsBound
    <3>10. g[P] <= f[P] + (IF d \in P THEN e ELSE 0)
      BY <3>3, <3>8, <3>9
    <3> QED BY <3>10
  <2> QED BY <2>1, <2>2
<1>4. SUBSET Channels \subseteq G
  <2> HIDE DEF G
  <2> QED BY <1>3, SetInduction, ChannelsAreFinite
<1>5. f[Channels] \in Nat /\ g[Channels] \in Nat /\ Channels \in G
  BY <1>1, <1>2, <1>4 DEF Summed
<1>6. g[Channels] <= f[Channels] + e
  BY <1>5
<1> QED BY <1>1, <1>2, <1>5, <1>6

\* What is on the connections is honest, and within the bounds.
OnWay(f, c, A, free) == Honest(f, A, free) /\ f.from = c[1] /\ f.to = c[2]
Carries(b, A, free) == \A c \in Channels : \A k \in 1..Len(b[c]) : OnWay(b[c][k], c, A, free)
Roomy(b) == InFlight(b) <= MaxNet /\ \A c \in Channels : Len(b[c]) <= ChanCap
NetOk(b, A, free) == b \in Nets /\ Carries(b, A, free) /\ Roomy(b)

LEMMA Shrinks ==
  ASSUME NEW b \in Nets, NEW h \in Nets, Roomy(b), \A c \in Channels : Len(h[c]) <= Len(b[c])
  PROVE  Roomy(h)
<1>1. \A c \in Channels : Len(b[c]) \in Nat /\ Len(h[c]) \in Nat
  BY LenProperties DEF Nets
<1>2. \A c \in Channels : Len(h[c]) <= Len(b[c]) + (IF c = None THEN 0 ELSE 0)
  BY <1>1
<1>3. InFlight(b) \in Nat /\ InFlight(h) \in Nat /\ InFlight(h) <= InFlight(b) + 0
  <2>1. 0 \in Nat
    OBVIOUS
  <2> QED BY <1>2, <2>1, InFlightBound
<1>4. InFlight(h) <= MaxNet
  BY <1>3, BoundsAssumption DEF Roomy
<1>5. \A c \in Channels : Len(h[c]) <= ChanCap
  BY <1>1, BoundsAssumption DEF Roomy
<1> QED BY <1>4, <1>5 DEF Roomy

LEMMA TailOk ==
  ASSUME NEW b, NEW A, NEW free, NetOk(b, A, free), NEW c \in Channels, b[c] # <<>>,
         NEW h, h = [b EXCEPT ![c] = Tail(@)]
  PROVE  NetOk(h, A, free)
<1>1. b \in Nets /\ b[c] \in Seq(Frames)
  BY DEF NetOk, Nets
<1>2. /\ Tail(b[c]) \in Seq(Frames) /\ Len(b[c]) \in Nat /\ Len(Tail(b[c])) = Len(b[c]) - 1
      /\ \A k \in 1..Len(Tail(b[c])) : Tail(b[c])[k] = b[c][k + 1] /\ k + 1 \in 1..Len(b[c])
  BY <1>1, HeadTailProperties, LenProperties
<1>3. h \in Nets /\ h[c] = Tail(b[c]) /\ \A d \in Channels \ {c} : h[d] = b[d]
  BY <1>1, <1>2 DEF Nets
<1>4. Carries(h, A, free)
  <2> SUFFICES ASSUME NEW d \in Channels, NEW k \in 1..Len(h[d]) PROVE OnWay(h[d][k], d, A, free)
    BY DEF Carries
  <2>1. CASE d = c
    BY <1>2, <1>3, <2>1 DEF NetOk, Carries
  <2>2. CASE d # c
    BY <1>3, <2>2 DEF NetOk, Carries
  <2> QED BY <2>1, <2>2
<1>5. \A d \in Channels : Len(h[d]) <= Len(b[d])
  <2> SUFFICES ASSUME NEW d \in Channels PROVE Len(h[d]) <= Len(b[d])
    OBVIOUS
  <2>1. CASE d = c
    BY <1>2, <1>3, <2>1
  <2>2. CASE d # c
    <3>1. Len(b[d]) \in Nat
      BY <1>1, LenProperties DEF Nets
    <3> QED BY <1>3, <2>2, <3>1
  <2> QED BY <2>1, <2>2
<1>6. Roomy(h)
  BY <1>1, <1>3, <1>5, Shrinks DEF NetOk
<1> QED BY <1>3, <1>4, <1>6 DEF NetOk

\* A frame of a closed probe says what it said.
LEMMA StaleIsHonest ==
  ASSUME NEW f, NEW c, NEW A, NEW free, OnWay(f, c, A, free), NEW g, g = f \/ g = [f EXCEPT !.cur = FALSE]
  PROVE  OnWay(g, c, A, free)
<1>1. f \in Frames
  BY DEF OnWay, Honest
<1>2. CASE g = f
  BY <1>2
<1>3. CASE g = [f EXCEPT !.cur = FALSE]
  <2>1. /\ g \in Frames /\ g.kind = f.kind /\ g.from = f.from /\ g.to = f.to /\ g.finc = f.finc
        /\ g.sub = f.sub /\ g.sinc = f.sinc /\ g.upd = f.upd
    BY <1>1, <1>3 DEF Frames
  <2> QED BY <2>1 DEF OnWay, Honest
<1> QED BY <1>2, <1>3

LEMMA CloseOk ==
  ASSUME NEW A, NEW free, NetOk(net, A, free), NEW n, NEW h, h = close_probe(n)
  PROVE  NetOk(h, A, free) /\ \A c \in Channels : Len(h[c]) = Len(net[c])
<1> DEFINE old(c, k) == net[c][k]
           new(c, k) == IF requester(old(c, k)) = n THEN [old(c, k) EXCEPT !.cur = FALSE] ELSE old(c, k)
<1>1. ASSUME NEW c \in Channels
      PROVE  /\ net[c] \in Seq(Frames) /\ Len(net[c]) \in Nat /\ DOMAIN net[c] = 1..Len(net[c])
             /\ h[c] = [k \in DOMAIN net[c] |-> new(c, k)]
  <2>1. net[c] \in Seq(Frames)
    BY DEF NetOk, Nets
  <2>2. h[c] = [k \in DOMAIN net[c] |-> new(c, k)]
    BY DEF close_probe
  <2> QED BY <2>1, <2>2, LenProperties
<1>2. ASSUME NEW c \in Channels, NEW k \in 1..Len(net[c])
      PROVE  OnWay(new(c, k), c, A, free) /\ new(c, k) \in Frames
  <2>1. OnWay(old(c, k), c, A, free)
    BY DEF NetOk, Carries
  <2>2. new(c, k) = old(c, k) \/ new(c, k) = [old(c, k) EXCEPT !.cur = FALSE]
    OBVIOUS
  <2> HIDE DEF old, new
  <2>3. OnWay(new(c, k), c, A, free)
    BY <2>1, <2>2, StaleIsHonest
  <2> QED BY <2>3 DEF OnWay, Honest
<1> HIDE DEF new
<1>3. ASSUME NEW c \in Channels
      PROVE  /\ h[c] \in Seq(Frames) /\ Len(h[c]) = Len(net[c])
             /\ \A k \in 1..Len(net[c]) : h[c][k] = new(c, k)
  <2>1. \A k \in 1..Len(net[c]) : new(c, k) \in Frames
    BY <1>2
  <2>2. h[c] = [k \in 1..Len(net[c]) |-> new(c, k)] /\ Len(net[c]) \in Nat
    BY <1>1
  <2>3. h[c] \in Seq(Frames) /\ Len(h[c]) = Len(net[c])
    BY <2>1, <2>2, IsASeq
  <2> QED BY <2>2, <2>3
<1>4. h \in Nets
  <2>1. h = [c \in Channels |-> h[c]]
    BY DEF close_probe
  <2> QED BY <1>3, <2>1 DEF Nets
<1>5. Carries(h, A, free)
  BY <1>2, <1>3 DEF Carries
<1>6. \A c \in Channels : Len(h[c]) <= Len(net[c])
  BY <1>1, <1>3
<1>7. net \in Nets /\ Roomy(net)
  BY DEF NetOk
<1>8. Roomy(h)
  BY <1>4, <1>6, <1>7, Shrinks
<1> QED BY <1>3, <1>4, <1>5, <1>8 DEF NetOk

\* What a handler may send.
Fit(o, n, A, free) ==
    /\ o.kind \in Kinds /\ o.to \in Nodes \ {n} /\ o.sub \in Nodes \cup {None} /\ o.sinc \in Nat
    /\ o.cur \in BOOLEAN
    /\ o.kind \in {"PingReq", "PingReqAck"} => o.sub \in Nodes
    /\ o.kind = "PingReqAck" => <<o.sub, o.sinc>> \in A
    /\ o.kind \in {"Join", "JoinAck"} => free

LEMMA StampedIsHonest ==
  ASSUME NEW n \in Nodes, NEW A, NEW free, NEW s, Sound(s, n, A), <<n, s.inc>> \in A,
         NEW o, Fit(o, n, A, free), NEW turn, NEW f, f = stamped(s, n, o, turn)
  PROVE  OnWay(f, <<n, o.to>>, A, free)
<1> DEFINE D == {n} \cup (Known(s) \cap {o.to})
                  \cup {p \in Known(s) \cap turn : s.tab[p].ver /\ p # o.to}
           upd == [p \in D |-> [inc |-> s.tab[p].inc, st |-> s.tab[p].st]]
<1>1. /\ s.inc \in Nat /\ \A p \in Nodes : s.tab[p] \in Entry \cup {None}
      /\ s.tab[n] # None /\ s.tab[n].inc = s.inc
  BY DEF Sound, NodeState, Own
<1>2. D \in SUBSET Nodes /\ \A p \in D : s.tab[p] \in Entry
  BY <1>1 DEF Known
<1>3. \A p \in D : <<p, s.tab[p].inc>> \in A
  <2>1. \A p \in D : p = n \/ p \in Known(s) \ {n}
    OBVIOUS
  <2> HIDE DEF D
  <2> QED BY <1>1, <2>1 DEF Sound, Issued
<1>4. f = [kind |-> o.kind, from |-> n, to |-> o.to, finc |-> s.inc, sub |-> o.sub,
           sinc |-> o.sinc, cur |-> o.cur, upd |-> upd]
  BY DEF stamped, digest
<1> HIDE DEF D
<1>5. upd \in [D -> Update] /\ DOMAIN upd = D /\ \A p \in D : upd[p].inc = s.tab[p].inc
  BY <1>2 DEF Update, Entry
<1>6. upd \in UNION {[E -> Update] : E \in SUBSET Nodes}
  BY <1>2, <1>5
<1> HIDE DEF upd
<1>7. f \in Frames
  BY <1>1, <1>4, <1>6 DEF Frames, Fit
<1>8. /\ f.kind = o.kind /\ f.from = n /\ f.to = o.to /\ f.finc = s.inc /\ f.sub = o.sub
      /\ f.sinc = o.sinc /\ f.upd = upd
  BY <1>4
<1>9. \A q \in DOMAIN f.upd : <<q, f.upd[q].inc>> \in A
  BY <1>3, <1>5, <1>8
<1>10. Honest(f, A, free)
  BY <1>7, <1>8, <1>9 DEF Honest, Fit
<1> QED BY <1>8, <1>10 DEF OnWay

LEMMA SendOk ==
  ASSUME NEW n \in Nodes, NEW A, NEW free, NEW s, Sound(s, n, A), <<n, s.inc>> \in A, NEW b, NetOk(b, A, free),
         NEW out, \A o \in out : Fit(o, n, A, free), send_control(s, n, b, out)
  PROVE  NetOk(net', A, free)
<1>1. CASE net' = b
  BY <1>1
<1>2. CASE net' # b
  <2>1. PICK o \in out : /\ Len(b[<<n, o.to>>]) < ChanCap /\ InFlight(b) < MaxNet
                         /\ \E turn \in SUBSET (Nodes \ {n, o.to}) :
                              net' = [b EXCEPT ![<<n, o.to>>] = Append(@, stamped(s, n, o, turn))]
    BY <1>2 DEF send_control
  <2>2. PICK turn : net' = [b EXCEPT ![<<n, o.to>>] = Append(@, stamped(s, n, o, turn))]
    BY <2>1
  <2> DEFINE c == <<n, o.to>>
             f == stamped(s, n, o, turn)
             h == net'
  <2>3. OnWay(f, c, A, free)
    BY StampedIsHonest
  <2>4. c \in Channels /\ f \in Frames
    BY <2>3 DEF Channels, Fit, OnWay, Honest
  <2>5. Len(b[c]) < ChanCap /\ InFlight(b) < MaxNet /\ h = [b EXCEPT ![c] = Append(@, f)]
    BY <2>1, <2>2
  <2> HIDE DEF c, f, h
  <2>6. b \in Nets /\ \A d \in Channels : b[d] \in Seq(Frames) /\ Len(b[d]) \in Nat
    BY LenProperties DEF NetOk, Nets
  <2>7. /\ Append(b[c], f) \in Seq(Frames) /\ Len(Append(b[c], f)) = Len(b[c]) + 1
        /\ \A k \in 1..Len(b[c]) : Append(b[c], f)[k] = b[c][k]
        /\ Append(b[c], f)[Len(b[c]) + 1] = f
    BY <2>4, <2>6, AppendProperties
  <2>8. h \in Nets /\ h[c] = Append(b[c], f) /\ \A d \in Channels \ {c} : h[d] = b[d]
    BY <2>4, <2>5, <2>6, <2>7 DEF Nets
  <2>9. Carries(h, A, free)
    <3> SUFFICES ASSUME NEW d \in Channels, NEW k \in 1..Len(h[d]) PROVE OnWay(h[d][k], d, A, free)
      BY DEF Carries
    <3>1. CASE d # c
      BY <2>8, <3>1 DEF NetOk, Carries
    <3>2. CASE d = c /\ k = Len(b[c]) + 1
      BY <2>3, <2>7, <2>8, <3>2
    <3>3. CASE d = c /\ k # Len(b[c]) + 1
      <4>1. k \in 1..Len(b[c])
        <5>1. k \in 1..(Len(b[c]) + 1) /\ Len(b[c]) \in Nat
          BY <2>4, <2>6, <2>7, <2>8, <3>3
        <5> QED BY <3>3, <5>1
      <4> QED BY <2>4, <2>7, <2>8, <3>3, <4>1 DEF NetOk, Carries
    <3> QED BY <3>1, <3>2, <3>3
  <2>10. ASSUME NEW d \in Channels PROVE Len(h[d]) <= Len(b[d]) + (IF d = c THEN 1 ELSE 0) /\ Len(h[d]) <= ChanCap
    <3>1. CASE d = c
      <4>1. Len(h[d]) = Len(b[d]) + 1 /\ Len(b[d]) \in Nat /\ Len(b[d]) < ChanCap
        BY <2>5, <2>6, <2>7, <2>8, <3>1
      <4>2. Len(h[d]) <= Len(b[d]) + 1 /\ Len(h[d]) <= ChanCap
        BY <4>1, BoundsAssumption
      <4> QED BY <3>1, <4>2
    <3>2. CASE d # c
      <4>1. h[d] = b[d] /\ Len(b[d]) \in Nat /\ Len(b[d]) <= ChanCap
        BY <2>6, <2>8, <3>2 DEF NetOk, Roomy
      <4> QED BY <3>2, <4>1
    <3> QED BY <3>1, <3>2
  <2>11. InFlight(b) \in Nat /\ InFlight(h) \in Nat /\ InFlight(h) <= InFlight(b) + 1
    <3>1. 1 \in Nat /\ \A d \in Channels : Len(h[d]) <= Len(b[d]) + (IF d = c THEN 1 ELSE 0)
      BY <2>10
    <3> QED BY <2>6, <2>8, <3>1, InFlightBound
  <2>12. InFlight(h) <= MaxNet
    BY <2>5, <2>11, BoundsAssumption
  <2> QED BY <2>8, <2>9, <2>10, <2>12 DEF NetOk, Roomy, h
<1> QED BY <1>1, <1>2

-----------------------------------------------------------------------------
(* The inductive invariant.                                                  *)

\* Somebody may be admitted at an incarnation it has not reached.
Free == ~(setup.restarts = {} /\ setup.leavers = {})

\* The incarnations there may be: where nobody is admitted anew, those its
\* node has reached.
Allowed == {x \in Nodes \X Nat : Free \/ x[2] <= node[x[1]].inc}

Inv == /\ setup \in Setups
       /\ node \in [Nodes -> NodeState]
       /\ \A n \in Nodes : Sound(node[n], n, Allowed)
       /\ NetOk(net, Allowed, Free)
       /\ lapses \in 0..setup.lapses
       /\ ops \in 0..setup.ops

LEMMA WidenSound ==
  ASSUME NEW s, NEW n, NEW A, NEW B, A \subseteq B, Sound(s, n, A)
  PROVE  Sound(s, n, B)
<1>1. Issued(s, n, B)
  BY DEF Sound, Issued
<1> QED BY <1>1 DEF Sound

LEMMA WidenNet ==
  ASSUME NEW b, NEW free, NEW A, NEW B, A \subseteq B, NetOk(b, A, free)
  PROVE  NetOk(b, B, free)
<1>1. ASSUME NEW f, NEW c, OnWay(f, c, A, free) PROVE OnWay(f, c, B, free)
  <2>1. Honest(f, A, free)
    BY <1>1 DEF OnWay
  <2>2. Honest(f, B, free)
    BY <2>1 DEF Honest
  <2> QED BY <1>1, <2>2 DEF OnWay
<1>2. Carries(b, B, free)
  BY <1>1 DEF NetOk, Carries
<1> QED BY <1>2 DEF NetOk

\* One node's handler has left the record t.
Moved(n, t) == /\ node' \in [Nodes -> NodeState] /\ \A m \in Nodes : Sound(node'[m], m, Allowed')
               /\ Allowed \subseteq Allowed' /\ <<n, t.inc>> \in Allowed' /\ Free' = Free
               /\ Sound(t, n, Allowed')

LEMMA NodeStep ==
  ASSUME Inv, setup' = setup, NEW n \in Nodes, NEW t, Sound(t, n, Allowed), Free \/ t.inc >= node[n].inc,
         node' = [node EXCEPT ![n] = t]
  PROVE  Moved(n, t)
<1>1. node \in [Nodes -> NodeState] /\ t \in NodeState /\ t.inc \in Nat /\ \A m \in Nodes : node[m].inc \in Nat
  BY DEF Inv, Sound, NodeState
<1>2. node' \in [Nodes -> NodeState] /\ node'[n] = t /\ \A m \in Nodes \ {n} : node'[m] = node[m]
  BY <1>1
<1>3. Free' = Free
  BY DEF Free
<1>4. \A m \in Nodes : Free \/ node'[m].inc >= node[m].inc
  BY <1>1, <1>2
<1>5. Allowed \subseteq Allowed'
  <2> SUFFICES ASSUME NEW x \in Allowed PROVE x \in Allowed'
    OBVIOUS
  <2>1. x \in Nodes \X Nat /\ (Free \/ x[2] <= node[x[1]].inc)
    BY DEF Allowed
  <2>2. x[1] \in Nodes /\ x[2] \in Nat /\ node[x[1]].inc \in Nat /\ node'[x[1]].inc \in Nat
    BY <1>1, <1>2, <2>1
  <2>3. Free \/ x[2] <= node'[x[1]].inc
    BY <1>4, <2>1, <2>2
  <2> QED BY <1>3, <2>1, <2>3 DEF Allowed
<1>6. <<n, t.inc>> \in Allowed'
  BY <1>1, <1>2 DEF Allowed
<1>7. Sound(t, n, Allowed')
  BY <1>5, WidenSound
<1>8. ASSUME NEW m \in Nodes PROVE Sound(node'[m], m, Allowed')
  <2>1. CASE m = n
    BY <1>2, <1>7, <2>1
  <2>2. CASE m # n
    <3>1. Sound(node[m], m, Allowed) /\ node'[m] = node[m]
      BY <1>2, <2>2 DEF Inv
    <3> QED BY <1>5, <3>1, WidenSound
  <2> QED BY <2>1, <2>2
<1> QED BY <1>2, <1>3, <1>5, <1>6, <1>7, <1>8 DEF Moved

\* The invariant after a handler of one node, from its parts.
LEMMA InvNext ==
  ASSUME Inv, setup' = setup, NEW n, NEW t, Moved(n, t), NetOk(net', Allowed', Free),
         lapses' \in 0..setup.lapses, ops' \in 0..setup.ops
  PROVE  Inv'
<1>1. setup' \in Setups /\ Free' = Free
  BY DEF Inv, Moved
<1> QED BY <1>1 DEF Inv, Moved

\* The same for a handler that ends with the frames it sends: t is the record
\* when they are sent, u what the end of the handler makes of it.
LEMMA HandlerStep ==
  ASSUME Inv, setup' = setup, NEW n \in Nodes, NEW t, NEW u, Sound(t, n, Allowed), Sound(u, n, Allowed),
         u.inc = t.inc, Free \/ t.inc >= node[n].inc, node' = [node EXCEPT ![n] = u],
         NEW b, NetOk(b, Allowed, Free), NEW out, \A o \in out : Fit(o, n, Allowed, Free),
         send_control(t, n, b, out), lapses' \in 0..setup.lapses, ops' \in 0..setup.ops
  PROVE  Inv'
<1>1. Free \/ u.inc >= node[n].inc
  OBVIOUS
<1>2. Moved(n, u)
  BY <1>1, NodeStep
<1>3. Allowed \subseteq Allowed' /\ <<n, t.inc>> \in Allowed'
  BY <1>2 DEF Moved
<1>4. Sound(t, n, Allowed') /\ NetOk(b, Allowed', Free)
  BY <1>3, WidenSound, WidenNet
<1>5. \A o \in out : Fit(o, n, Allowed', Free)
  BY <1>3 DEF Fit
<1>6. NetOk(net', Allowed', Free)
  BY <1>3, <1>4, <1>5, SendOk
<1> QED BY <1>2, <1>6, InvNext

\* A handler that sends nothing, on a network it may have taken a frame off.
LEMMA QuietStep ==
  ASSUME Inv, setup' = setup, NEW n \in Nodes, NEW t, Sound(t, n, Allowed), Free \/ t.inc >= node[n].inc,
         node' = [node EXCEPT ![n] = t], NetOk(net', Allowed, Free),
         lapses' \in 0..setup.lapses, ops' \in 0..setup.ops
  PROVE  Inv'
<1>1. Moved(n, t)
  BY NodeStep
<1>2. NetOk(net', Allowed', Free)
  <2>1. Allowed \subseteq Allowed'
    BY <1>1 DEF Moved
  <2> QED BY <2>1, WidenNet
<1> QED BY <1>1, <1>2, InvNext

\* What the invariant says of the parts a handler starts from.
LEMMA InvFacts ==
  ASSUME Inv, NEW n \in Nodes
  PROVE  /\ Sound(node[n], n, Allowed) /\ node[n] \in NodeState /\ node[n].inc \in Nat
         /\ node \in [Nodes -> NodeState] /\ NetOk(net, Allowed, Free)
         /\ lapses \in 0..setup.lapses /\ ops \in 0..setup.ops
         /\ setup \in Setup /\ setup.ops \in Nat /\ setup.lapses \in Nat
         /\ (Free => Allowed = Nodes \X Nat)
<1>1. setup \in Setup /\ setup.ops \in Nat /\ setup.lapses \in Nat
  BY SetupsAssumption DEF Inv, Setup
<1>2. Free => Allowed = Nodes \X Nat
  BY DEF Allowed
<1>3. Sound(node[n], n, Allowed) /\ node[n] \in NodeState /\ node[n].inc \in Nat
  BY DEF Inv, Sound, NodeState
<1> QED BY <1>1, <1>2, <1>3 DEF Inv

-----------------------------------------------------------------------------
(* Frames that arrive.                                                       *)

\* What a frame is answered with may be sent.
LEMMA RepliesFit ==
  ASSUME NEW n \in Nodes, NEW A, NEW free, NEW s, Sound(s, n, A), NEW f, Honest(f, A, free), f.from # n,
         NEW o \in replies(s, n, f)
  PROVE  Fit(o, n, A, free)
<1>1. /\ f.from \in Nodes /\ f.finc \in Nat /\ f.sub \in Nodes \cup {None} /\ f.cur \in BOOLEAN
      /\ <<f.from, f.finc>> \in A
  BY FrameFacts DEF Honest
<1>2. incarnation_of(s, f.from) \in Nat
  BY <1>1 DEF Sound, NodeState, Entry, incarnation_of
<1>3. CASE f.kind = "Ping" /\ o = Out("Ack", f.from, f.sub, 0, f.cur)
  BY <1>1, <1>3 DEF Fit, Out, Kinds
<1>4. CASE f.kind = "Ack" /\ f.sub \notin {None, n} /\ o = Out("PingReqAck", f.sub, f.from, f.finc, f.cur)
  BY <1>1, <1>4 DEF Fit, Out, Kinds
<1>5. CASE f.kind = "PingReq" /\ f.sub # n /\ o = Out("Ping", f.sub, f.from, 0, f.cur)
  <2>1. f.sub \in Nodes
    BY <1>5 DEF Honest
  <2> QED BY <1>1, <1>5, <2>1 DEF Fit, Out, Kinds
<1>6. CASE f.kind = "Join" /\ o = Out("JoinAck", f.from, f.from, incarnation_of(s, f.from), FALSE)
  <2>1. free
    BY <1>6 DEF Honest
  <2> QED BY <1>1, <1>2, <1>6, <2>1 DEF Fit, Out, Kinds
<1>7. \/ f.kind = "Ping" /\ o = Out("Ack", f.from, f.sub, 0, f.cur)
      \/ f.kind = "Ack" /\ f.sub \notin {None, n} /\ o = Out("PingReqAck", f.sub, f.from, f.finc, f.cur)
      \/ f.kind = "PingReq" /\ f.sub # n /\ o = Out("Ping", f.sub, f.from, 0, f.cur)
      \/ f.kind = "Join" /\ o = Out("JoinAck", f.from, f.from, incarnation_of(s, f.from), FALSE)
  BY DEF replies
<1> QED BY <1>3, <1>4, <1>5, <1>6, <1>7

\* The next frame of a connection.
LEMMA HeadOk ==
  ASSUME Inv, NEW c \in Channels, net[c] # <<>>
  PROVE  /\ c[1] \in Nodes /\ c[2] \in Nodes /\ c[1] # c[2]
         /\ OnWay(Head(net[c]), c, Allowed, Free) /\ Head(net[c]).from = c[1]
<1>1. NetOk(net, Allowed, Free) /\ c[1] \in Nodes /\ c[2] \in Nodes /\ c[1] # c[2]
  BY DEF Inv, Channels
<1>2. net[c] \in Seq(Frames)
  BY <1>1 DEF NetOk, Nets
<1>3. Head(net[c]) = net[c][1] /\ 1 \in 1..Len(net[c])
  <2>1. Len(net[c]) \in Nat /\ Len(net[c]) # 0
    BY <1>2, EmptySeq, LenProperties
  <2> QED BY <1>2, <2>1, HeadTailProperties
<1>4. OnWay(net[c][1], c, Allowed, Free)
  BY <1>1, <1>3 DEF NetOk, Carries
<1> QED BY <1>1, <1>3, <1>4 DEF OnWay

LEMMA ReceiveKeeps ==
  ASSUME Inv, NEW c \in Channels, Receive(c)
  PROVE  Inv'
<1> DEFINE n == c[2]
           f == Head(net[c])
           s == node[n]
<1>1. net[c] # <<>> /\ setup' = setup /\ lapses' = lapses /\ ops' = ops
  BY DEF Receive
<1>2. n \in Nodes /\ f.from # n /\ Honest(f, Allowed, Free)
  BY <1>1, HeadOk, SMTT(40) DEF OnWay
<1>3. PICK recent \in SUBSET Doubtful(s, f) :
        LET t == handle_control(s, n, f, recent)
            closed == s.probe.to # None /\ t.probe.to = None
            rest == [(IF closed THEN close_probe(n) ELSE net) EXCEPT ![c] = Tail(@)]
        IN /\ node' = [node EXCEPT ![n] = flush_events(t, n)]
           /\ send_control(t, n, rest, replies(t, n, f))
  BY DEF Receive
<1> DEFINE t == handle_control(s, n, f, recent)
           u == flush_events(t, n)
           b == IF s.probe.to # None /\ t.probe.to = None THEN close_probe(n) ELSE net
           rest == [b EXCEPT ![c] = Tail(@)]
<1>4. node' = [node EXCEPT ![n] = u] /\ send_control(t, n, rest, replies(t, n, f))
  BY <1>3
<1>5. /\ Sound(s, n, Allowed) /\ NetOk(net, Allowed, Free) /\ (Free => Allowed = Nodes \X Nat)
      /\ lapses' \in 0..setup.lapses /\ ops' \in 0..setup.ops
  BY <1>1, <1>2, InvFacts
<1>6. Grown(t, s, n, Allowed)
  <2> HIDE DEF n, f, s
  <2> QED BY <1>2, <1>5, ControlKeeps
<1>7. NetOk(b, Allowed, Free) /\ b[c] # <<>>
  <2>1. CASE b = net
    BY <1>1, <1>5, <2>1
  <2>2. CASE b = close_probe(n)
    <3> HIDE DEF n
    <3>1. NetOk(b, Allowed, Free) /\ Len(b[c]) = Len(net[c])
      BY <1>5, <2>2, CloseOk
    <3>2. net[c] \in Seq(Frames) /\ b[c] \in Seq(Frames)
      BY <1>5, <3>1 DEF NetOk, Nets
    <3> QED BY <1>1, <3>1, <3>2, EmptySeq
  <2> QED BY <2>1, <2>2
<1> HIDE DEF n, f, s, t, u, b
<1>8. NetOk(rest, Allowed, Free)
  BY <1>7, TailOk
<1> HIDE DEF rest
<1>9. Sound(t, n, Allowed) /\ t.inc >= s.inc
  BY <1>6 DEF Grown
<1>10. Sound(u, n, Allowed) /\ u.inc = t.inc
  BY <1>2, <1>9, FlushKeeps DEF Flushed, u
<1>11. \A o \in replies(t, n, f) : Fit(o, n, Allowed, Free)
  BY <1>2, <1>9, RepliesFit
<1>12. t.inc >= node[n].inc
  BY <1>9 DEF s
<1> QED BY <1>1, <1>2, <1>4, <1>5, <1>8, <1>9, <1>10, <1>11, <1>12, HandlerStep

LEMMA ReceiveAsleepKeeps ==
  ASSUME Inv, NEW c \in Channels, ReceiveAsleep(c)
  PROVE  Inv'
<1> DEFINE n == c[2]
           u == flush_events(node[n], n)
<1>1. net[c] # <<>> /\ setup' = setup /\ lapses' = lapses /\ ops' = ops /\ net' = [net EXCEPT ![c] = Tail(@)]
  BY DEF ReceiveAsleep
<1>2. n \in Nodes
  BY <1>1, HeadOk
<1>3. /\ Sound(node[n], n, Allowed) /\ NetOk(net, Allowed, Free) /\ node \in [Nodes -> NodeState]
      /\ lapses' \in 0..setup.lapses /\ ops' \in 0..setup.ops
      /\ node[n].inc \in Nat
  BY <1>1, <1>2, InvFacts
<1>4. node' = [node EXCEPT ![n] = u]
  BY <1>2, <1>3 DEF ReceiveAsleep
<1>5. Sound(u, n, Allowed) /\ u.inc = node[n].inc
  <2> HIDE DEF n
  <2> QED BY <1>2, <1>3, FlushKeeps DEF Flushed
<1>6. NetOk(net', Allowed, Free)
  BY <1>1, <1>3, TailOk
<1> HIDE DEF n, u
<1>7. u.inc >= node[n].inc
  BY <1>3, <1>5
<1> QED BY <1>1, <1>2, <1>3, <1>4, <1>5, <1>6, <1>7, QuietStep

\* Only the network changes.
LEMMA NetStep ==
  ASSUME Inv, UNCHANGED <<setup, node, lapses>>, NetOk(net', Allowed, Free), ops' \in 0..setup.ops
  PROVE  Inv'
<1>1. Free' = Free /\ Allowed' = Allowed
  BY DEF Free, Allowed
<1> QED BY <1>1 DEF Inv

LEMMA LoseKeeps ==
  ASSUME Inv, NEW c \in Channels, Lose(c)
  PROVE  Inv'
<1>1. net[c] # <<>> /\ UNCHANGED <<setup, node, lapses, ops>> /\ net' = [net EXCEPT ![c] = Tail(@)]
  BY DEF Lose
<1>2. NetOk(net', Allowed, Free) /\ ops' \in 0..setup.ops
  BY <1>1, TailOk DEF Inv
<1> QED BY <1>1, <1>2, NetStep

-----------------------------------------------------------------------------
(* The protocol period.                                                      *)

\* The deadlines of a node are finitely many.
LEMMA DeadlinesCount ==
  ASSUME NEW n \in Nodes, NEW s \in NodeState, NEW lapsed \in SUBSET Deadlines(s, n)
  PROVE  Cardinality(lapsed) \in Nat
<1> DEFINE K == {"lease", "suspect", "tomb", "ghost", "probe"}
<1>1. IsFiniteSet(K)
  <2>1. IsFiniteSet({})
    BY FS_EmptySet
  <2>2. IsFiniteSet({} \cup {"lease"})
    BY <2>1, FS_AddElement
  <2>3. IsFiniteSet(({} \cup {"lease"}) \cup {"suspect"})
    BY <2>2, FS_AddElement
  <2>4. IsFiniteSet((({} \cup {"lease"}) \cup {"suspect"}) \cup {"tomb"})
    BY <2>3, FS_AddElement
  <2>5. IsFiniteSet(((({} \cup {"lease"}) \cup {"suspect"}) \cup {"tomb"}) \cup {"ghost"})
    BY <2>4, FS_AddElement
  <2>6. IsFiniteSet((((({} \cup {"lease"}) \cup {"suspect"}) \cup {"tomb"}) \cup {"ghost"}) \cup {"probe"})
    BY <2>5, FS_AddElement
  <2>7. K = (((({} \cup {"lease"}) \cup {"suspect"}) \cup {"tomb"}) \cup {"ghost"}) \cup {"probe"}
    OBVIOUS
  <2> QED BY <2>6, <2>7
<1>2. IsFiniteSet(K \X Nodes)
  BY <1>1, NodesAssumption, FS_Product
<1>3. {s.probe.to} \ {None} \subseteq Nodes
  BY DEF NodeState, ProbeState
<1>4. Deadlines(s, n) \subseteq K \X Nodes
  <2> SUFFICES ASSUME NEW x \in Deadlines(s, n) PROVE x \in K \X Nodes
    OBVIOUS
  <2>1. \E k \in K, p \in Nodes : x = <<k, p>>
    BY <1>3 DEF Deadlines, awake_peers, live_peers, Live, Known
  <2> QED BY <2>1
<1> HIDE DEF K
<1>5. IsFiniteSet(lapsed)
  <2>1. lapsed \in SUBSET (K \X Nodes)
    BY <1>4
  <2> QED BY <1>2, <2>1, FS_Subset
<1> QED BY <1>5, FS_CardinalityType

LEMMA StartProbeKeeps ==
  ASSUME NEW n \in Nodes, NEW A, NEW s, Sound(s, n, A), NEW p \in awake_peers(s, n), NEW t, t = start_probe(s, p)
  PROVE  Sound(t, n, A) /\ t.inc = s.inc /\ t.probe.to = p
<1> DEFINE pr == [to |-> p, indirect |-> FALSE, acked |-> FALSE]
<1>1. s \in NodeState /\ p \in Nodes /\ p # n
  BY DEF Sound, awake_peers, live_peers, Live, Known
<1>2. pr \in ProbeState /\ pr.to = p /\ ~pr.indirect
  BY <1>1 DEF ProbeState
<1>3. /\ t \in NodeState /\ t.probe = pr /\ t.lease = s.lease /\ t.inc = s.inc /\ t.tab = s.tab
      /\ t.left = s.left /\ t.live = s.live /\ t.placed = s.placed
      /\ t.roster = s.roster /\ t.denied = s.denied /\ t.dirty = s.dirty
  BY <1>1, <1>2 DEF NodeState, start_probe
<1> HIDE DEF pr
<1>4. Alike(s, t, n)
  BY <1>1, <1>2, <1>3 DEF Alike, RowsAlike, Sound, Own
<1> QED BY <1>2, <1>3, <1>4, AlikeKeeps

LEMMA VerifiesKeep ==
  ASSUME NEW n \in Nodes, NEW A, NEW s, Sound(s, n, A), NEW t, t = send_verifies(s)
  PROVE  Sound(t, n, A) /\ t.inc = s.inc
<1> DEFINE row(p) == IF s.tab[p] = None THEN None ELSE [s.tab[p] EXCEPT !.verify = FALSE]
           T == [p \in Nodes |-> row(p)]
<1>1. s \in NodeState /\ s.tab \in Tables /\ None \notin Entry
  BY NodesAssumption DEF Sound, NodeState, Tables
<1>2. ASSUME NEW p \in Nodes, s.tab[p] # None
      PROVE  row(p) \in Entry /\ row(p).st = s.tab[p].st /\ row(p).ver = s.tab[p].ver /\ row(p).inc = s.tab[p].inc
  <2>1. s.tab[p] \in [inc : Nat, st : Status, ver : BOOLEAN, verify : BOOLEAN, lapsed : Nat]
    BY <1>1, <1>2 DEF Tables, Entry
  <2>2. row(p) = [s.tab[p] EXCEPT !.verify = FALSE]
    BY <1>2
  <2>3. /\ row(p) \in [inc : Nat, st : Status, ver : BOOLEAN, verify : BOOLEAN, lapsed : Nat]
        /\ row(p).st = s.tab[p].st /\ row(p).ver = s.tab[p].ver /\ row(p).inc = s.tab[p].inc
    BY <2>1, <2>2
  <2> QED BY <2>3 DEF Entry
<1>3. \A p \in Nodes : s.tab[p] = None => row(p) = None
  OBVIOUS
<1> HIDE DEF row
<1>4. T \in Tables /\ \A p \in Nodes : T[p] = row(p)
  BY <1>2, <1>3 DEF Tables
<1>5. t = [s EXCEPT !.tab = T]
  BY DEF send_verifies, row
<1> HIDE DEF T
<1>6. /\ t \in NodeState /\ t.tab = T /\ t.probe = s.probe /\ t.lease = s.lease /\ t.inc = s.inc
      /\ t.left = s.left /\ t.live = s.live /\ t.placed = s.placed
      /\ t.roster = s.roster /\ t.denied = s.denied /\ t.dirty = s.dirty
  BY <1>1, <1>4, <1>5 DEF NodeState, Tables
<1>7. RowsAlike(s, t, n)
  BY <1>1, <1>2, <1>3, <1>4, <1>6 DEF RowsAlike
<1>8. t.tab[n].inc = t.inc
  BY <1>2, <1>4, <1>6 DEF Sound, Own
<1>9. Alike(s, t, n)
  BY <1>6, <1>7, <1>8 DEF Alike, Sound, Own
<1> QED BY <1>6, <1>9, AlikeKeeps

\* What a tick sends may be sent.
LEMMA TickFramesFit ==
  ASSUME NEW n \in Nodes, NEW A, NEW free, NEW s, Sound(s, n, A), NEW asked, NEW started,
         asked \/ started => s.probe.to # None, NEW o \in tick_frames(s, n, asked, started)
  PROVE  Fit(o, n, A, free)
<1>1. s.probe.to \in Nodes \cup {None} /\ s.probe.to # n
  BY DEF Sound, NodeState, ProbeState, Own
<1>2. awake_peers(s, n) \subseteq Nodes \ {n} /\ Known(s) \subseteq Nodes
  BY DEF awake_peers, live_peers, Live, Known
<1>3. ASSUME asked, NEW p \in awake_peers(s, n), o = Out("PingReq", p, s.probe.to, 0, TRUE)
      PROVE  Fit(o, n, A, free)
  <2>1. s.probe.to \in Nodes
    BY <1>1, <1>3
  <2> QED BY <1>2, <1>3, <2>1 DEF Fit, Out, Kinds
<1>4. ASSUME started, o = Out("Ping", s.probe.to, None, 0, TRUE)
      PROVE  Fit(o, n, A, free)
  <2>1. s.probe.to \in Nodes \ {n}
    BY <1>1, <1>4
  <2> QED BY <1>4, <2>1 DEF Fit, Out, Kinds
<1>5. ASSUME NEW p \in Nodes \ {n}, o = Out("Ping", p, None, 0, FALSE) \/ o = Out("Gossip", p, None, 0, FALSE)
      PROVE  Fit(o, n, A, free)
  <2>1. CASE o = Out("Ping", p, None, 0, FALSE)
    BY <2>1 DEF Fit, Out, Kinds
  <2>2. CASE o = Out("Gossip", p, None, 0, FALSE)
    BY <2>2 DEF Fit, Out, Kinds
  <2> QED BY <1>5, <2>1, <2>2
<1>6. \/ asked /\ \E p \in awake_peers(s, n) : o = Out("PingReq", p, s.probe.to, 0, TRUE)
      \/ started /\ o = Out("Ping", s.probe.to, None, 0, TRUE)
      \/ \E p \in Known(s) \ {n} : o = Out("Ping", p, None, 0, FALSE)
      \/ \E p \in awake_peers(s, n) : o = Out("Gossip", p, None, 0, FALSE)
  BY DEF tick_frames
<1> QED BY <1>2, <1>3, <1>4, <1>5, <1>6

LEMMA TickKeeps ==
  ASSUME Inv, NEW n \in Nodes, Tick(n)
  PROVE  Inv'
<1> DEFINE s == node[n]
<1>1. setup' = setup /\ ops' = ops
  BY DEF Tick
<1>2. PICK lapsed \in SUBSET Deadlines(s, n) :
        LET t == housekeep(s, n, lapsed)
            closed == s.probe.to # None /\ t.probe.to = None
            asked == t.probe.indirect /\ ~s.probe.indirect
            targets == IF t.probe.to = None THEN awake_peers(t, n) ELSE {}
        IN /\ lapses + Cardinality(lapsed) <= setup.lapses
           /\ lapses' = lapses + Cardinality(lapsed)
           /\ \E target \in IF targets = {} THEN {None} ELSE targets :
                LET u == IF target = None THEN t ELSE start_probe(t, target)
                IN /\ node' = [node EXCEPT ![n] = flush_events(send_verifies(u), n)]
                   /\ send_control(u, n, IF closed THEN close_probe(n) ELSE net,
                                   tick_frames(u, n, asked, target # None))
  BY DEF Tick
<1> DEFINE t == housekeep(s, n, lapsed)
           b == IF s.probe.to # None /\ t.probe.to = None THEN close_probe(n) ELSE net
           asked == t.probe.indirect /\ ~s.probe.indirect
           targets == IF t.probe.to = None THEN awake_peers(t, n) ELSE {}
<1>3. PICK target \in IF targets = {} THEN {None} ELSE targets :
        LET u == IF target = None THEN t ELSE start_probe(t, target)
        IN /\ node' = [node EXCEPT ![n] = flush_events(send_verifies(u), n)]
           /\ send_control(u, n, b, tick_frames(u, n, asked, target # None))
  BY <1>2
<1> DEFINE u == IF target = None THEN t ELSE start_probe(t, target)
           v == send_verifies(u)
           w == flush_events(v, n)
<1>4. node' = [node EXCEPT ![n] = w] /\ send_control(u, n, b, tick_frames(u, n, asked, target # None))
  BY <1>3
<1>5. /\ Sound(s, n, Allowed) /\ s \in NodeState /\ NetOk(net, Allowed, Free)
      /\ lapses \in 0..setup.lapses /\ ops' \in 0..setup.ops /\ setup.lapses \in Nat /\ s.inc \in Nat
  BY <1>1, InvFacts
<1>6. lapses' \in 0..setup.lapses
  <2>1. Cardinality(lapsed) \in Nat
    <3> HIDE DEF s
    <3> QED BY <1>5, DeadlinesCount
  <2>2. lapses + Cardinality(lapsed) <= setup.lapses /\ lapses' = lapses + Cardinality(lapsed)
    BY <1>2
  <2> QED BY <1>5, <2>1, <2>2
<1>7. NetOk(b, Allowed, Free)
  BY <1>5, CloseOk
<1>8. Sound(t, n, Allowed) /\ t.inc = s.inc
  <2> HIDE DEF s
  <2> QED BY <1>5, HousekeepKeeps
<1> HIDE DEF s, t, b, v, w
<1>9. target = None \/ target \in awake_peers(t, n)
  BY <1>3
<1>10. Sound(u, n, Allowed) /\ u.inc = t.inc /\ (asked \/ target # None => u.probe.to # None)
  <2>1. CASE target = None
    <3>1. asked => t.probe.to # None
      BY <1>8 DEF Sound, Own
    <3> QED BY <1>8, <2>1, <3>1
  <2>2. CASE target # None
    BY <1>8, <1>9, <2>2, StartProbeKeeps
  <2> QED BY <2>1, <2>2
<1> HIDE DEF u, asked
<1>11. Sound(v, n, Allowed) /\ v.inc = u.inc
  BY <1>10, VerifiesKeep DEF v
<1>12. Sound(w, n, Allowed) /\ w.inc = u.inc
  BY <1>11, FlushKeeps DEF Flushed, w
<1>13. \A o \in tick_frames(u, n, asked, target # None) : Fit(o, n, Allowed, Free)
  BY <1>10, TickFramesFit
<1>14. u.inc >= node[n].inc
  BY <1>5, <1>8, <1>10 DEF s
<1> QED BY <1>1, <1>4, <1>5, <1>6, <1>7, <1>10, <1>12, <1>13, <1>14, HandlerStep

LEMMA TickAsleepKeeps ==
  ASSUME Inv, NEW n \in Nodes, TickAsleep(n)
  PROVE  Inv'
<1> DEFINE u == flush_events(node[n], n)
<1>1. setup' = setup /\ UNCHANGED <<net, lapses, ops>>
  BY DEF TickAsleep
<1>2. /\ Sound(node[n], n, Allowed) /\ NetOk(net, Allowed, Free) /\ node \in [Nodes -> NodeState]
      /\ lapses' \in 0..setup.lapses /\ ops' \in 0..setup.ops /\ node[n].inc \in Nat
  BY <1>1, InvFacts
<1>3. node' = [node EXCEPT ![n] = u]
  BY <1>2 DEF TickAsleep
<1>4. Sound(u, n, Allowed) /\ u.inc = node[n].inc
  BY <1>2, FlushKeeps DEF Flushed
<1>5. NetOk(net', Allowed, Free)
  BY <1>1, <1>2
<1> HIDE DEF u
<1>6. u.inc >= node[n].inc
  BY <1>2, <1>4
<1> QED BY <1>1, <1>2, <1>3, <1>4, <1>5, <1>6, QuietStep

-----------------------------------------------------------------------------
(* What the host calls.                                                      *)

LEMMA HostCalls ==
  ASSUME Inv, HostCall
  PROVE  setup' = setup /\ lapses' \in 0..setup.lapses /\ ops' \in 0..setup.ops
<1>1. ops \in 0..setup.ops /\ lapses \in 0..setup.lapses /\ setup.ops \in Nat
  BY SetupsAssumption DEF Inv, Setup
<1> QED BY <1>1 DEF HostCall

\* Sleep and the probe concern neither the table nor the views.
LEMMA DozeKeeps ==
  ASSUME NEW n \in Nodes, NEW A, NEW s, Sound(s, n, A), NEW t, t = [s EXCEPT !.asleep = TRUE]
  PROVE  Sound(t, n, A) /\ t.inc = s.inc
<1>1. s \in NodeState
  BY DEF Sound
<1>2. /\ t \in NodeState /\ t.probe = s.probe /\ t.lease = s.lease /\ t.inc = s.inc /\ t.tab = s.tab
      /\ t.left = s.left /\ t.live = s.live /\ t.placed = s.placed
      /\ t.roster = s.roster /\ t.denied = s.denied /\ t.dirty = s.dirty
  BY <1>1 DEF NodeState
<1>3. Alike(s, t, n)
  BY <1>2 DEF Alike, RowsAlike, Sound, Own
<1> QED BY <1>2, <1>3, AlikeKeeps

LEMMA AwakeKeeps ==
  ASSUME NEW n \in Nodes, NEW A, NEW s, Sound(s, n, A), NEW t, t = [s EXCEPT !.asleep = FALSE]
  PROVE  Sound(t, n, A) /\ t.inc = s.inc
<1>1. s \in NodeState
  BY DEF Sound
<1>2. /\ t \in NodeState /\ t.probe = s.probe /\ t.lease = s.lease /\ t.inc = s.inc /\ t.tab = s.tab
      /\ t.left = s.left /\ t.live = s.live /\ t.placed = s.placed
      /\ t.roster = s.roster /\ t.denied = s.denied /\ t.dirty = s.dirty
  BY <1>1 DEF NodeState
<1>3. Alike(s, t, n)
  BY <1>2 DEF Alike, RowsAlike, Sound, Own
<1> QED BY <1>2, <1>3, AlikeKeeps

LEMMA DownKeeps ==
  ASSUME NEW n \in Nodes, NEW A, NEW s, Sound(s, n, A), NEW t, t = [s EXCEPT !.up = FALSE]
  PROVE  Sound(t, n, A) /\ t.inc = s.inc
<1>1. s \in NodeState
  BY DEF Sound
<1>2. /\ t \in NodeState /\ t.probe = s.probe /\ t.lease = s.lease /\ t.inc = s.inc /\ t.tab = s.tab
      /\ t.left = s.left /\ t.live = s.live /\ t.placed = s.placed
      /\ t.roster = s.roster /\ t.denied = s.denied /\ t.dirty = s.dirty
  BY <1>1 DEF NodeState
<1>3. Alike(s, t, n)
  BY <1>2 DEF Alike, RowsAlike, Sound, Own
<1> QED BY <1>2, <1>3, AlikeKeeps

LEMMA BackKeeps ==
  ASSUME NEW n \in Nodes, NEW A, NEW s, Sound(s, n, A), NEW t, t = [s EXCEPT !.up = TRUE]
  PROVE  Sound(t, n, A) /\ t.inc = s.inc
<1>1. s \in NodeState
  BY DEF Sound
<1>2. /\ t \in NodeState /\ t.probe = s.probe /\ t.lease = s.lease /\ t.inc = s.inc /\ t.tab = s.tab
      /\ t.left = s.left /\ t.live = s.live /\ t.placed = s.placed
      /\ t.roster = s.roster /\ t.denied = s.denied /\ t.dirty = s.dirty
  BY <1>1 DEF NodeState
<1>3. Alike(s, t, n)
  BY <1>2 DEF Alike, RowsAlike, Sound, Own
<1> QED BY <1>2, <1>3, AlikeKeeps

LEMMA NoProbeKeeps ==
  ASSUME NEW n \in Nodes, NEW A, NEW s, Sound(s, n, A), NEW t, t = [s EXCEPT !.probe = NoProbe]
  PROVE  Sound(t, n, A) /\ t.inc = s.inc
<1>1. s \in NodeState
  BY DEF Sound
<1>2. NoProbe \in ProbeState /\ NoProbe.to = None /\ ~NoProbe.indirect /\ None # n
  BY NodesAssumption DEF NoProbe, ProbeState
<1>3. /\ t \in NodeState /\ t.probe = NoProbe /\ t.lease = s.lease /\ t.inc = s.inc /\ t.tab = s.tab
      /\ t.left = s.left /\ t.live = s.live /\ t.placed = s.placed
      /\ t.roster = s.roster /\ t.denied = s.denied /\ t.dirty = s.dirty
  BY <1>1, <1>2 DEF NodeState
<1>4. Alike(s, t, n)
  BY <1>2, <1>3 DEF Alike, RowsAlike, Sound, Own
<1> QED BY <1>3, <1>4, AlikeKeeps

\* A word to every live peer may be sent.
LEMMA ToldFit ==
  ASSUME NEW n \in Nodes, NEW A, NEW free, NEW s, NEW kind \in {"Suspend", "Gossip"},
         NEW o \in {Out(kind, p, None, 0, FALSE) : p \in live_peers(s, n)}
  PROVE  Fit(o, n, A, free)
<1>1. PICK p \in live_peers(s, n) : o = Out(kind, p, None, 0, FALSE)
  OBVIOUS
<1>2. p \in Nodes \ {n}
  BY DEF live_peers, Live, Known
<1>3. CASE kind = "Suspend"
  BY <1>1, <1>2, <1>3 DEF Fit, Out, Kinds
<1>4. CASE kind = "Gossip"
  BY <1>1, <1>2, <1>4 DEF Fit, Out, Kinds
<1> QED BY <1>3, <1>4

LEMMA SuspendStep ==
  ASSUME Inv, NEW n \in Nodes, Suspend(n)
  PROVE  Inv'
<1> DEFINE s == node[n]
           u == [s EXCEPT !.asleep = TRUE]
           out == {Out("Suspend", p, None, 0, FALSE) : p \in live_peers(s, n)}
<1>1. setup' = setup /\ lapses' \in 0..setup.lapses /\ ops' \in 0..setup.ops
  BY HostCalls DEF Suspend
<1>2. /\ Sound(s, n, Allowed) /\ s.inc \in Nat /\ NetOk(net, Allowed, Free) /\ node \in [Nodes -> NodeState]
  BY InvFacts
<1>3. node' = [node EXCEPT ![n] = u] /\ send_control(s, n, net, out)
  BY <1>2 DEF Suspend
<1> HIDE DEF s
<1>20. u = [s EXCEPT !.asleep = TRUE]
  OBVIOUS
<1> HIDE DEF u
<1>4. Sound(u, n, Allowed) /\ u.inc = s.inc
  BY <1>2, <1>20, DozeKeeps
<1>5. \A o \in out : Fit(o, n, Allowed, Free)
  BY ToldFit
<1> HIDE DEF u, out
<1>6. s.inc >= node[n].inc
  BY <1>2 DEF s
<1> QED BY <1>1, <1>2, <1>3, <1>4, <1>5, <1>6, HandlerStep

LEMMA ResumeStep ==
  ASSUME Inv, NEW n \in Nodes, Resume(n)
  PROVE  Inv'
<1> DEFINE o == node[n]
           r == [o EXCEPT !.asleep = FALSE]
           s == evict_denied(r, n)
           i == s.inc + 1
           d == Adopted(s, n, i)
           t == [s EXCEPT !.inc = @ + 1, !.tab[n].inc = s.inc + 1, !.probe = NoProbe]
           u == flush_events(t, n)
           out == {Out("Gossip", p, None, 0, FALSE) : p \in live_peers(t, n)}
<1>1. setup' = setup /\ lapses' = lapses /\ ops' = ops
  BY DEF Resume
<1>2. /\ Sound(o, n, Allowed) /\ o.inc \in Nat /\ NetOk(net, Allowed, Free)
      /\ lapses' \in 0..setup.lapses /\ ops' \in 0..setup.ops
  BY <1>1, InvFacts
<1>3. node' = [node EXCEPT ![n] = u] /\ send_control(t, n, close_probe(n), out)
  BY DEF Resume
<1> HIDE DEF o
<1>20. r = [o EXCEPT !.asleep = FALSE]
  OBVIOUS
<1> HIDE DEF r
<1>4. Sound(r, n, Allowed) /\ r.inc = o.inc
  BY <1>2, <1>20, AwakeKeeps
<1>5. Sound(s, n, Allowed) /\ s.inc = r.inc
  BY <1>4, EvictKeeps DEF Evicted
<1> HIDE DEF s
<1>6. s \in NodeState /\ i \in Nat /\ i > s.inc
  BY <1>2, <1>4, <1>5 DEF Sound
<1>7. Sound(d, n, Allowed) /\ d.inc = i
  BY <1>5, <1>6, AdoptKeeps, SMTT(30)
<1>8. t = [d EXCEPT !.probe = NoProbe]
  BY <1>6 DEF Adopted, NodeState
<1> HIDE DEF d, t
<1>9. Sound(t, n, Allowed) /\ t.inc = i
  BY <1>7, <1>8, NoProbeKeeps
<1>10. Sound(u, n, Allowed) /\ u.inc = t.inc
  BY <1>9, FlushKeeps DEF Flushed
<1>11. NetOk(close_probe(n), Allowed, Free)
  BY <1>2, CloseOk
<1>12. \A x \in out : Fit(x, n, Allowed, Free)
  BY ToldFit
<1> HIDE DEF u, out, i
<1>13. t.inc >= node[n].inc
  BY <1>2, <1>4, <1>5, <1>6, <1>9 DEF o
<1> QED BY <1>1, <1>2, <1>3, <1>9, <1>10, <1>11, <1>12, <1>13, HandlerStep

LEMMA NetworkChangedStep ==
  ASSUME Inv, NEW n \in Nodes, NetworkChanged(n)
  PROVE  Inv'
<1> DEFINE t == [node[n] EXCEPT !.probe = NoProbe]
<1>1. setup' = setup /\ lapses' \in 0..setup.lapses /\ ops' \in 0..setup.ops
  BY HostCalls DEF NetworkChanged
<1>2. /\ Sound(node[n], n, Allowed) /\ node[n].inc \in Nat /\ NetOk(net, Allowed, Free)
      /\ node \in [Nodes -> NodeState]
  BY InvFacts
<1>3. node' = [node EXCEPT ![n] = t] /\ net' = close_probe(n)
  BY <1>2 DEF NetworkChanged
<1>4. Sound(t, n, Allowed) /\ t.inc = node[n].inc
  BY <1>2, NoProbeKeeps
<1>5. NetOk(net', Allowed, Free)
  BY <1>2, <1>3, CloseOk
<1> HIDE DEF t
<1>6. t.inc >= node[n].inc
  BY <1>2, <1>4
<1> QED BY <1>1, <1>3, <1>4, <1>5, <1>6, QuietStep

\* The record that a departure makes of s.
Departed(s, n, i) == [s EXCEPT !.inc = i, !.left = TRUE, !.tab[n].inc = i, !.tab[n].st = "Left"]

LEMMA DepartKeeps ==
  ASSUME NEW n \in Nodes, NEW A, NEW s, Sound(s, n, A), NEW i \in Nat, NEW t,
         t = note_transition(republish(Departed(s, n, i)), n)
  PROVE  Sound(t, n, A) /\ t.inc = i
<1> DEFINE d == Departed(s, n, i)
           r == republish(d)
           e == [s.tab[n] EXCEPT !.inc = i, !.st = "Left"]
<1>1. s \in NodeState /\ s.tab \in Tables /\ s.tab[n] \in Entry /\ s.tab[n].ver /\ None \notin Entry
  BY NodesAssumption DEF Sound, NodeState, Own, Tables
<1>2. e \in Entry /\ e.ver /\ e.st = "Left" /\ e.inc = i
  <2>1. s.tab[n] \in [inc : Nat, st : Status, ver : BOOLEAN, verify : BOOLEAN, lapsed : Nat]
    BY <1>1 DEF Entry
  <2>2. "Left" \in Status
    BY DEF Status
  <2>3. /\ e \in [inc : Nat, st : Status, ver : BOOLEAN, verify : BOOLEAN, lapsed : Nat]
        /\ e.ver = s.tab[n].ver /\ e.st = "Left" /\ e.inc = i
    BY <2>1, <2>2
  <2> QED BY <1>1, <2>3 DEF Entry
<1>3. d.tab = [s.tab EXCEPT ![n] = e]
  <2>1. d.tab = [[s.tab EXCEPT ![n].inc = i] EXCEPT ![n].st = "Left"]
    BY <1>1 DEF NodeState, Departed
  <2>2. [[s.tab EXCEPT ![n].inc = i] EXCEPT ![n].st = "Left"] = [s.tab EXCEPT ![n] = e]
    BY <1>1 DEF Tables
  <2> QED BY <2>1, <2>2
<1>4. /\ d.inc = i /\ d.left /\ d.probe = s.probe /\ d.denied = s.denied /\ d.dirty = s.dirty
      /\ d.lease = s.lease /\ d.live = s.live /\ d.placed = s.placed /\ d.roster = s.roster
  BY <1>1 DEF NodeState, Departed
<1>5. d \in NodeState
  <2>1. d.tab \in Tables
    BY <1>1, <1>2, <1>3 DEF Tables
  <2>2. d = [[[s EXCEPT !.inc = i] EXCEPT !.left = TRUE] EXCEPT !.tab = d.tab]
    BY <1>1 DEF NodeState, Departed
  <2> HIDE DEF d
  <2> QED BY <1>1, <2>1, <2>2 DEF NodeState, Tables
<1> HIDE DEF d, e
<1>6. /\ d.tab[n] = e /\ \A q \in Nodes \ {n} : d.tab[q] = s.tab[q]
      /\ Known(d) = Known(s) \cup {n} /\ Live(d) = Live(s) \ {n} /\ PlacedOf(d) = PlacedOf(s) \ {n}
  <2>1. is_tomb(e.st)
    BY <1>2 DEF is_tomb
  <2>2. RowIs(s, d, n, e)
    BY <1>1, <1>2, <1>3, RowChange
  <2> QED BY <2>1, <2>2 DEF RowIs
<1>7. /\ r \in NodeState /\ Same(d, r) /\ r.inc = d.inc /\ r.tab = d.tab /\ r.lease = d.lease
      /\ r.roster = d.roster /\ r.live = Live(d) /\ r.placed = PlacedOf(d)
  BY <1>5, RepublishIs
<1>8. t = note_transition(r, n)
  BY DEF d
<1> HIDE DEF r
<1>9. Noted(r, n, t)
  BY <1>7, <1>8, NoteIs
<1>10. /\ t \in NodeState /\ Same(r, t) /\ t.inc = i /\ t.tab = d.tab /\ t.live = Live(d) /\ t.placed = PlacedOf(d)
       /\ t.lease = [s.lease EXCEPT ![n] = 0] /\ t.roster = s.roster \ {n}
  <2>1. is_tomb(r.tab[n].st)
    BY <1>2, <1>6, <1>7 DEF is_tomb
  <2> QED BY <1>4, <1>7, <1>9, <2>1 DEF Noted
<1>11. Known(t) = Known(d) /\ Live(t) = Live(d) /\ PlacedOf(t) = PlacedOf(d)
  BY <1>10 DEF Known, Live, PlacedOf
<1>12. Views(t)
  BY <1>6, <1>10, <1>11 DEF Sound, Views
<1>13. s.lease \in [Nodes -> Nat] /\ t.lease[n] = 0 /\ \A q \in Nodes \ {n} : t.lease[q] = s.lease[q]
  BY <1>1, <1>10 DEF NodeState
<1>14. Shields(t, n)
  BY <1>6, <1>10, <1>13 DEF Sound, Shields
<1>15. /\ t.left /\ t.probe = s.probe /\ t.denied = s.denied /\ t.dirty = s.dirty
  BY <1>4, <1>7, <1>10 DEF Same
<1>16. Own(t, n)
  BY <1>1, <1>2, <1>6, <1>10, <1>15 DEF Sound, Own
<1>17. Clean(t)
  BY <1>6, <1>11, <1>15 DEF Sound, Clean
<1>18. Issued(t, n, A)
  BY <1>6, <1>10, <1>11 DEF Sound, Issued, Known
<1> QED BY <1>10, <1>12, <1>14, <1>16, <1>17, <1>18 DEF Sound

\* Somebody who leaves or starts anew makes the incarnations free.
LEMMA FreeNow ==
  ASSUME Inv, NEW n, n \in setup.leavers \cup setup.restarts
  PROVE  Free /\ Allowed = Nodes \X Nat
<1>1. Free
  BY DEF Free
<1> QED BY <1>1 DEF Allowed

LEMMA LeaveStep ==
  ASSUME Inv, NEW n \in Nodes, Leave(n)
  PROVE  Inv'
<1> DEFINE s == node[n]
           i == s.tab[n].inc + LeftBand
           t == note_transition(republish(Departed(s, n, i)), n)
           u == flush_events(t, n)
<1>1. setup' = setup /\ lapses' \in 0..setup.lapses /\ ops' \in 0..setup.ops
  BY HostCalls DEF Leave
<1>2. Sound(s, n, Allowed) /\ NetOk(net, Allowed, Free) /\ s.inc \in Nat
  BY InvFacts
<1>3. node' = [node EXCEPT ![n] = u] /\ net' = net
  BY DEF Leave, Departed
<1>4. Free
  BY FreeNow DEF Leave
<1> HIDE DEF s
<1>5. i \in Nat
  BY <1>2, LeftBandAssumption DEF Sound, Own
<1> HIDE DEF i
<1>6. Sound(t, n, Allowed)
  BY <1>2, <1>5, DepartKeeps
<1> HIDE DEF t
<1>7. Sound(u, n, Allowed)
  BY <1>6, FlushKeeps DEF Flushed
<1>8. NetOk(net', Allowed, Free)
  BY <1>2, <1>3
<1> HIDE DEF u
<1> QED BY <1>1, <1>3, <1>4, <1>7, <1>8, QuietStep

LEMMA LeaveOtherStep ==
  ASSUME Inv, NEW n \in Nodes, NEW p \in Nodes, LeaveOther(n, p)
  PROVE  Inv'
<1> DEFINE s == node[n]
           i == incarnation_of(s, p) + LeftBand
           t == apply_update(s, n, p, i, "Left", "Local", FALSE)
           u == flush_events(t, n)
<1>1. setup' = setup /\ lapses' \in 0..setup.lapses /\ ops' \in 0..setup.ops
  BY HostCalls DEF LeaveOther
<1>2. Sound(s, n, Allowed) /\ NetOk(net, Allowed, Free) /\ s \in NodeState
  BY InvFacts
<1>3. node' = [node EXCEPT ![n] = u] /\ net' = net /\ p # n
  BY DEF LeaveOther
<1>4. Free /\ Allowed = Nodes \X Nat
  BY FreeNow DEF LeaveOther
<1> HIDE DEF s
<1>5. i \in Nat
  BY <1>2, LeftBandAssumption DEF NodeState, Entry, incarnation_of
<1> HIDE DEF i
<1>6. "Left" \in Status /\ "Local" \in Sources /\ <<p, i>> \in Allowed
  BY <1>4, <1>5 DEF Status, Sources
<1>7. UpdateTakes(t, s, n, p, Allowed)
  BY <1>2, <1>5, <1>6, UpdateKeeps
<1>8. Sound(t, n, Allowed)
  BY <1>7 DEF UpdateTakes
<1> HIDE DEF t
<1>9. Sound(u, n, Allowed)
  BY <1>8, FlushKeeps DEF Flushed
<1>10. NetOk(net', Allowed, Free)
  BY <1>2, <1>3
<1> HIDE DEF u
<1> QED BY <1>1, <1>3, <1>4, <1>9, <1>10, QuietStep

LEMMA AdmitStep ==
  ASSUME Inv, NEW n \in Nodes, NEW p \in Nodes, Admit(n, p)
  PROVE  Inv'
<1> DEFINE s == node[n]
           i == IF p \in Known(s) \ Live(s) THEN s.tab[p].inc + 1 ELSE 0
           t == apply_update(s, n, p, i, "Alive", "Join", FALSE)
           u == flush_events(t, n)
<1>1. setup' = setup /\ lapses' \in 0..setup.lapses /\ ops' \in 0..setup.ops
  BY HostCalls DEF Admit
<1>2. Sound(s, n, Allowed) /\ NetOk(net, Allowed, Free) /\ s \in NodeState
  BY InvFacts
<1>3. node' = [node EXCEPT ![n] = u] /\ net' = net
  BY DEF Admit
<1>4. Free /\ Allowed = Nodes \X Nat
  BY FreeNow DEF Admit
<1> HIDE DEF s
<1>5. i \in Nat
  BY <1>2 DEF NodeState, Entry, Known
<1> HIDE DEF i
<1>6. <<p, i>> \in Allowed
  BY <1>4, <1>5
<1>7. Sound(t, n, Allowed)
  BY <1>2, <1>5, <1>6, HeardKeeps DEF Grown
<1> HIDE DEF t
<1>8. Sound(u, n, Allowed)
  BY <1>7, FlushKeeps DEF Flushed
<1>9. NetOk(net', Allowed, Free)
  BY <1>2, <1>3
<1> HIDE DEF u
<1> QED BY <1>1, <1>3, <1>4, <1>8, <1>9, QuietStep

\* A denial waits for the next handler to apply it.
LEMMA DenyStep ==
  ASSUME Inv, NEW n \in Nodes, NEW p \in Nodes, Deny(n, p)
  PROVE  Inv'
<1> DEFINE s == node[n]
           t == [s EXCEPT !.denied = @ \cup {p}, !.dirty = TRUE]
<1>1. setup' = setup /\ lapses' \in 0..setup.lapses /\ ops' \in 0..setup.ops
  BY HostCalls DEF Deny
<1>2. /\ Sound(s, n, Allowed) /\ NetOk(net, Allowed, Free) /\ s \in NodeState /\ s.inc \in Nat
      /\ node \in [Nodes -> NodeState]
  BY InvFacts
<1>3. net' = net /\ p # n /\ node' = [node EXCEPT ![n].denied = @ \cup {p}, ![n].dirty = TRUE]
  BY DEF Deny
<1>4. node' = [node EXCEPT ![n] = t]
  BY <1>2, <1>3
<1> HIDE DEF s
<1>5. /\ t \in NodeState /\ t.denied = s.denied \cup {p} /\ t.dirty /\ t.probe = s.probe /\ t.lease = s.lease
      /\ t.inc = s.inc /\ t.tab = s.tab /\ t.left = s.left /\ t.live = s.live /\ t.placed = s.placed
      /\ t.roster = s.roster
  BY <1>2 DEF NodeState
<1> HIDE DEF t
<1>6. Known(t) = Known(s) /\ Live(t) = Live(s) /\ PlacedOf(t) = PlacedOf(s)
  BY <1>5 DEF Known, Live, PlacedOf
<1>7. Views(t) /\ Shields(t, n) /\ Clean(t) /\ Issued(t, n, Allowed)
  BY <1>2, <1>5, <1>6 DEF Sound, Views, Shields, Clean, Issued
<1>8. Own(t, n)
  BY <1>2, <1>3, <1>5 DEF Sound, Own
<1>9. Sound(t, n, Allowed)
  BY <1>5, <1>7, <1>8 DEF Sound
<1>10. t.inc >= node[n].inc
  BY <1>2, <1>5 DEF s
<1>11. NetOk(net', Allowed, Free)
  BY <1>2, <1>3
<1> QED BY <1>1, <1>4, <1>9, <1>10, <1>11, QuietStep

\* A process that has just been constructed.
LEMMA BornSound ==
  ASSUME NEW n \in Nodes, NEW A
  PROVE  Sound(Born(n), n, A)
<1> DEFINE e == [inc |-> 1, st |-> "Alive", ver |-> TRUE, verify |-> FALSE, lapsed |-> 0]
           T == [p \in Nodes |-> IF p = n THEN e ELSE None]
           s == Born(n)
<1>1. e \in Entry /\ e # None /\ e.inc = 1 /\ e.st = "Alive" /\ e.ver
  <2>1. e \in Entry
    BY DEF Entry, Status
  <2>2. e # None
    BY <2>1, NodesAssumption
  <2> QED BY <2>1, <2>2
<1> HIDE DEF e
<1>2. T \in Tables /\ T[n] = e /\ \A p \in Nodes \ {n} : T[p] = None
  BY <1>1 DEF Tables
<1>3. NoProbe \in ProbeState /\ NoProbe.to = None /\ ~NoProbe.indirect /\ None # n
  BY NodesAssumption DEF NoProbe, ProbeState
<1>4. /\ s.up /\ s.inc = 1 /\ ~s.left /\ ~s.asleep /\ s.tab = T /\ s.lease = [p \in Nodes |-> 0]
      /\ s.probe = NoProbe /\ s.live = {n} /\ s.placed = {n} /\ s.roster = {n} /\ s.denied = {} /\ ~s.dirty
  BY DEF Born, e
<1> HIDE DEF T
<1>5. s \in NodeState
  <2>1. [p \in Nodes |-> 0] \in [Nodes -> Nat] /\ 1 \in Nat /\ {n} \in SUBSET Nodes /\ {} \in SUBSET Nodes
    OBVIOUS
  <2>2. s = [up |-> TRUE, inc |-> 1, left |-> FALSE, asleep |-> FALSE, tab |-> T, lease |-> [p \in Nodes |-> 0],
             probe |-> NoProbe, live |-> {n}, placed |-> {n}, roster |-> {n}, denied |-> {}, dirty |-> FALSE]
    BY DEF Born, e, T
  <2> HIDE DEF s
  <2> QED BY <1>2, <1>3, <2>1, <2>2 DEF NodeState, Tables
<1> HIDE DEF s
<1>6. Known(s) = {n} /\ Live(s) = {n} /\ PlacedOf(s) = {n}
  <2>1. Known(s) = {n}
    BY <1>1, <1>2, <1>4 DEF Known
  <2>2. Live(s) = {n}
    BY <1>1, <1>2, <1>4, <2>1 DEF Live, is_tomb
  <2> QED BY <1>1, <1>2, <1>4, <2>1, <2>2 DEF PlacedOf
<1>7. Views(s) /\ Shields(s, n) /\ Clean(s) /\ Issued(s, n, A)
  BY <1>4, <1>6 DEF Views, Shields, Clean, Issued
<1>8. Own(s, n)
  BY <1>1, <1>2, <1>3, <1>4 DEF Own
<1> QED BY <1>5, <1>7, <1>8 DEF Sound, s

LEMMA CrashStep ==
  ASSUME Inv, NEW n \in Nodes, Crash(n)
  PROVE  Inv'
<1> DEFINE s == Born(n)
           t == [s EXCEPT !.up = FALSE]
<1>1. setup' = setup /\ lapses' \in 0..setup.lapses /\ ops' \in 0..setup.ops
  BY HostCalls DEF Crash
<1>2. node' = [node EXCEPT ![n] = t] /\ net' = net
  BY DEF Crash
<1>3. Free
  BY FreeNow DEF Crash
<1>4. Sound(s, n, Allowed)
  BY BornSound
<1>20. t = [s EXCEPT !.up = FALSE]
  OBVIOUS
<1> HIDE DEF s, t
<1>5. Sound(t, n, Allowed)
  BY <1>4, <1>20, DownKeeps
<1>6. NetOk(net', Allowed, Free)
  BY <1>2 DEF Inv
<1> QED BY <1>1, <1>2, <1>3, <1>5, <1>6, QuietStep

LEMMA RestartStep ==
  ASSUME Inv, NEW n \in Nodes, Restart(n)
  PROVE  Inv'
<1> DEFINE s == node[n]
           t == [s EXCEPT !.up = TRUE]
<1>1. setup' = setup /\ net' = net /\ lapses' = lapses /\ ops' = ops
  BY DEF Restart
<1>2. /\ Sound(s, n, Allowed) /\ NetOk(net, Allowed, Free) /\ s.inc \in Nat /\ node \in [Nodes -> NodeState]
      /\ lapses' \in 0..setup.lapses /\ ops' \in 0..setup.ops
  BY <1>1, InvFacts
<1>3. node' = [node EXCEPT ![n] = t]
  BY <1>2 DEF Restart
<1>20. t = [s EXCEPT !.up = TRUE]
  OBVIOUS
<1> HIDE DEF s, t
<1>4. Sound(t, n, Allowed) /\ t.inc = s.inc
  BY <1>2, <1>20, BackKeeps
<1>5. t.inc >= node[n].inc
  BY <1>2, <1>4 DEF s
<1>6. NetOk(net', Allowed, Free)
  BY <1>1, <1>2
<1> QED BY <1>1, <1>2, <1>3, <1>4, <1>5, <1>6, QuietStep

LEMMA RequestJoinStep ==
  ASSUME Inv, NEW n \in Nodes, NEW p \in Nodes, RequestJoin(n, p)
  PROVE  Inv'
<1> DEFINE s == node[n]
           o == Out("Join", p, n, s.inc, FALSE)
<1>1. setup' = setup /\ node' = node /\ lapses' = lapses /\ ops' = ops /\ p # n /\ n \in setup.restarts
  BY DEF RequestJoin
<1>2. /\ Sound(s, n, Allowed) /\ NetOk(net, Allowed, Free) /\ s.inc \in Nat /\ node \in [Nodes -> NodeState]
      /\ lapses' \in 0..setup.lapses /\ ops' \in 0..setup.ops
  BY <1>1, InvFacts
<1>3. node' = [node EXCEPT ![n] = s]
  BY <1>1, <1>2
<1>4. send_control(s, n, net, {o})
  BY DEF RequestJoin
<1>5. Free
  BY <1>1, FreeNow
<1> HIDE DEF s
<1>6. Fit(o, n, Allowed, Free)
  BY <1>1, <1>2, <1>5 DEF Fit, Out, Kinds
<1>7. \A x \in {o} : Fit(x, n, Allowed, Free)
  BY <1>6
<1> HIDE DEF o
<1>8. s.inc >= node[n].inc
  BY <1>2 DEF s
<1>9. /\ setup' = setup /\ lapses' \in 0..setup.lapses /\ ops' \in 0..setup.ops
      /\ Sound(s, n, Allowed) /\ NetOk(net, Allowed, Free) /\ s.inc = s.inc /\ (Free \/ s.inc >= node[n].inc)
  BY <1>1, <1>2, <1>8
<1> HIDE DEF s
<1> QED BY <1>3, <1>4, <1>7, <1>9, HandlerStep

-----------------------------------------------------------------------------
(* The invariant holds in a cluster that has formed, and is kept.            *)

\* Empty connections carry nothing.
LEMMA EmptyNet ==
  ASSUME NEW A, NEW free, NEW b, b = [c \in Channels |-> <<>>]
  PROVE  NetOk(b, A, free)
<1>1. b \in Nets /\ \A c \in Channels : b[c] = <<>> /\ Len(b[c]) = 0
  BY EmptySeq DEF Nets
<1>2. Carries(b, A, free)
  BY <1>1 DEF Carries
<1>3. PICK f : Summed(f, b) /\ InFlight(b) = f[Channels]
  BY <1>1, InFlightSums
<1> DEFINE G == {P \in SUBSET Channels : f[P] = 0}
<1>4. ASSUME NEW P \in SUBSET Channels, \A Q \in (SUBSET P) \ {P} : Q \in G PROVE P \in G
  <2>1. CASE P = {}
    BY <1>3, <2>1 DEF Summed
  <2>2. CASE P # {}
    <3> DEFINE x == CHOOSE c \in P : TRUE
    <3>1. x \in P /\ x \in Channels
      BY <2>2
    <3>2. P \ {x} \in G
      BY <1>4, <3>1
    <3>3. f[P] = f[P \ {x}] + Len(b[x])
      BY <1>3, <2>2 DEF Summed
    <3>4. f[P] = 0 + 0
      BY <1>1, <3>1, <3>2, <3>3
    <3> QED BY <3>4
  <2> QED BY <2>1, <2>2
<1>5. SUBSET Channels \subseteq G
  <2> HIDE DEF G
  <2> QED BY <1>4, SetInduction, ChannelsAreFinite
<1>6. InFlight(b) = 0
  BY <1>3, <1>5
<1>7. Roomy(b)
  BY <1>1, <1>6, BoundsAssumption DEF Roomy
<1> QED BY <1>1, <1>2, <1>7 DEF NetOk

LEMMA InitKeeps ==
  ASSUME Init
  PROVE  Inv
<1> DEFINE e == [inc |-> 1, st |-> "Alive", ver |-> TRUE, verify |-> FALSE, lapsed |-> 0]
           T == [p \in Nodes |-> e]
           start(n) == [Born(n) EXCEPT !.tab = T, !.live = Nodes, !.placed = Nodes, !.roster = Nodes]
<1>1. setup \in Setups /\ lapses = 0 /\ ops = 0 /\ net = [c \in Channels |-> <<>>]
  BY DEF Init
<1>2. node = [n \in Nodes |-> start(n)]
  BY DEF Init
<1>3. e \in Entry /\ e # None /\ e.inc = 1 /\ e.st = "Alive" /\ e.ver
  <2>1. e \in Entry
    BY DEF Entry, Status
  <2>2. e # None
    BY <2>1, NodesAssumption
  <2> QED BY <2>1, <2>2
<1> HIDE DEF e
<1>4. T \in Tables /\ \A p \in Nodes : T[p] = e
  BY <1>3 DEF Tables
<1> HIDE DEF T
<1>5. ASSUME NEW n \in Nodes
      PROVE  /\ start(n) \in NodeState /\ start(n).inc = 1
             /\ start(n).tab = T /\ start(n).live = Nodes /\ start(n).placed = Nodes /\ start(n).roster = Nodes
             /\ start(n).lease = Born(n).lease /\ start(n).probe = Born(n).probe
             /\ start(n).denied = Born(n).denied /\ start(n).dirty = Born(n).dirty /\ start(n).left = Born(n).left
  <2>1. Sound(Born(n), n, {})
    BY BornSound
  <2>2. Born(n) \in NodeState /\ Born(n).inc = 1
    BY <2>1 DEF Sound, Born
  <2> DEFINE s == Born(n)
  <2> HIDE DEF s
  <2>3. start(n) = [s EXCEPT !.tab = T, !.live = Nodes, !.placed = Nodes, !.roster = Nodes]
    BY DEF s
  <2> HIDE DEF start
  <2>4. s \in NodeState /\ s.inc = 1
    BY <2>2 DEF s
  <2>5. /\ start(n) \in NodeState /\ start(n).inc = 1
        /\ start(n).tab = T /\ start(n).live = Nodes /\ start(n).placed = Nodes /\ start(n).roster = Nodes
        /\ start(n).lease = s.lease /\ start(n).probe = s.probe
        /\ start(n).denied = s.denied /\ start(n).dirty = s.dirty /\ start(n).left = s.left
    BY <1>4, <2>3, <2>4, ZenonT(60) DEF NodeState, Tables
  <2> QED BY <2>5 DEF s
<1>6. ASSUME NEW n \in Nodes
      PROVE  /\ start(n).lease = [p \in Nodes |-> 0] /\ start(n).probe = NoProbe /\ start(n).denied = {}
             /\ ~start(n).left
  BY <1>5 DEF Born
<1> HIDE DEF start
<1>7. node \in [Nodes -> NodeState] /\ \A n \in Nodes : node[n].inc = 1
  BY <1>2, <1>5
<1>8. ASSUME NEW n \in Nodes PROVE Sound(start(n), n, Allowed)
  <2> DEFINE s == start(n)
  <2>1. /\ s \in NodeState /\ s.inc = 1 /\ s.tab = T /\ s.live = Nodes /\ s.placed = Nodes /\ s.roster = Nodes
        /\ s.lease = [p \in Nodes |-> 0] /\ s.probe = NoProbe /\ s.denied = {} /\ ~s.left
    BY <1>5, <1>6
  <2> HIDE DEF s
  <2>2. Known(s) = Nodes /\ Live(s) = Nodes /\ PlacedOf(s) = Nodes
    <3>1. Known(s) = Nodes
      BY <1>3, <1>4, <2>1 DEF Known
    <3>2. Live(s) = Nodes
      BY <1>3, <1>4, <2>1, <3>1 DEF Live, is_tomb
    <3>3. \A p \in Nodes : s.tab[p].ver
      BY <1>3, <1>4, <2>1
    <3>4. PlacedOf(s) = {p \in Nodes : s.tab[p].ver}
      BY <3>2 DEF PlacedOf
    <3>5. {p \in Nodes : s.tab[p].ver} = Nodes
      BY <3>3, ZenonT(40)
    <3> QED BY <3>1, <3>2, <3>4, <3>5
  <2>3. Views(s) /\ Shields(s, n) /\ Clean(s)
    BY <2>1, <2>2 DEF Views, Shields, Clean
  <2>4. NoProbe.to = None /\ ~NoProbe.indirect /\ None # n
    BY NodesAssumption DEF NoProbe
  <2>5. Own(s, n)
    BY <1>3, <1>4, <2>1, <2>4 DEF Own
  <2>6. Issued(s, n, Allowed)
    BY <1>3, <1>4, <1>7, <2>1 DEF Issued, Known, Allowed
  <2> QED BY <2>1, <2>3, <2>5, <2>6 DEF Sound, s
<1>9. \A n \in Nodes : Sound(node[n], n, Allowed)
  BY <1>2, <1>8
<1>10. NetOk(net, Allowed, Free)
  BY <1>1, EmptyNet
<1>11. setup.lapses \in Nat /\ setup.ops \in Nat
  BY <1>1, SetupsAssumption DEF Setup
<1>12. lapses \in 0..setup.lapses /\ ops \in 0..setup.ops
  BY <1>1, <1>11
<1> QED BY <1>1, <1>7, <1>9, <1>10, <1>12 DEF Inv

LEMMA StepKeeps ==
  ASSUME Inv, [Next]_vars
  PROVE  Inv'
<1>1. ASSUME NEW c \in Channels, Receive(c) \/ ReceiveAsleep(c) \/ Lose(c) PROVE Inv'
  BY <1>1, ReceiveKeeps, ReceiveAsleepKeeps, LoseKeeps
<1>2. ASSUME NEW n \in Nodes, Tick(n) \/ TickAsleep(n) PROVE Inv'
  BY <1>2, TickKeeps, TickAsleepKeeps
<1>3. ASSUME NEW n \in Nodes, Suspend(n) \/ Resume(n) \/ NetworkChanged(n) PROVE Inv'
  BY <1>3, SuspendStep, ResumeStep, NetworkChangedStep
<1>4. ASSUME NEW n \in Nodes, Leave(n) \/ Crash(n) \/ Restart(n) PROVE Inv'
  BY <1>4, LeaveStep, CrashStep, RestartStep
<1>5. ASSUME NEW n \in Nodes, NEW p \in Nodes, LeaveOther(n, p) \/ Admit(n, p) PROVE Inv'
  BY <1>5, LeaveOtherStep, AdmitStep
<1>6. ASSUME NEW n \in Nodes, NEW p \in Nodes, Deny(n, p) \/ RequestJoin(n, p) PROVE Inv'
  BY <1>6, DenyStep, RequestJoinStep
<1>7. CASE UNCHANGED vars
  <2>1. Free' = Free /\ Allowed' = Allowed
    BY <1>7 DEF vars, Free, Allowed
  <2> QED BY <1>7, <2>1 DEF vars, Inv
<1>8. CASE Next
  BY <1>1, <1>2, <1>3, <1>4, <1>5, <1>6, <1>8 DEF Next
<1> QED BY <1>7, <1>8

-----------------------------------------------------------------------------
(* What it says of the runs' invariant.                                      *)

LEMMA FramesAreFrames ==
  ASSUME NEW f \in Frames
  PROVE  IsFrame(f)
<1>1. f.upd \in UNION {[D -> Update] : D \in SUBSET Nodes}
  BY DEF Frames
<1>2. PICK D \in SUBSET Nodes : f.upd \in [D -> Update]
  BY <1>1
<1>3. DOMAIN f.upd \subseteq Nodes /\ f.upd \in [DOMAIN f.upd -> Update]
  BY <1>2
<1> QED BY <1>3, FrameFacts DEF IsFrame

LEMMA InvGivesTypes ==
  ASSUME Inv
  PROVE  TypeOK
<1>1. /\ net \in Nets /\ Carries(net, Allowed, Free) /\ InFlight(net) <= MaxNet
      /\ \A c \in Channels : Len(net[c]) <= ChanCap
  BY DEF Inv, NetOk, Roomy
<1>2. DOMAIN net = Channels
  BY <1>1 DEF Nets
<1>3. ASSUME NEW c \in Channels, NEW k \in DOMAIN net[c] PROVE IsFrame(net[c][k])
  <2>1. net[c] \in Seq(Frames)
    BY <1>1 DEF Nets
  <2>2. k \in 1..Len(net[c])
    BY <2>1
  <2>3. net[c][k] \in Frames
    BY <2>1, <2>2, ElementOfSeq
  <2> QED BY <2>3, FramesAreFrames
<1> QED BY <1>1, <1>2, <1>3 DEF TypeOK, Inv

LEMMA InvGivesTables ==
  ASSUME Inv
  PROVE  RosterPublished /\ LeaseShieldsTheLiving /\ DeniedStaysOut
<1>1. ASSUME NEW n \in Nodes PROVE Views(node[n]) /\ Shields(node[n], n) /\ Clean(node[n])
  BY DEF Inv, Sound
<1>2. RosterPublished
  BY <1>1 DEF RosterPublished, Views, PlacedOf
<1>3. LeaseShieldsTheLiving
  BY <1>1 DEF LeaseShieldsTheLiving, Shields
<1>4. DeniedStaysOut
  BY <1>1 DEF DeniedStaysOut, Views, Clean
<1> QED BY <1>2, <1>3, <1>4

LEMMA InvGivesIssued ==
  ASSUME Inv
  PROVE  IncarnationsIssued
<1> SUFFICES ASSUME NEW n \in Nodes
             PROVE  /\ node[n].tab[n].inc = node[n].inc
                    /\ setup.restarts = {} /\ setup.leavers = {} =>
                         /\ \A p \in Known(node[n]) : node[n].tab[p].inc <= node[p].inc
                         /\ \A p \in Nodes \ {n} : \A k \in DOMAIN net[<<n, p>>] :
                              LET f == net[<<n, p>>][k] IN \A q \in DOMAIN f.upd : f.upd[q].inc <= node[q].inc
  BY DEF IncarnationsIssued
<1>1. /\ Sound(node[n], n, Allowed) /\ NetOk(net, Allowed, Free) /\ node[n].inc \in Nat
  BY InvFacts
<1>2. node[n].tab[n].inc = node[n].inc
  BY <1>1 DEF Sound, Own
<1>3. ASSUME ~Free, NEW x \in Allowed PROVE x[2] <= node[x[1]].inc
  BY <1>3 DEF Allowed
<1>4. ASSUME ~Free, NEW p \in Known(node[n]) PROVE node[n].tab[p].inc <= node[p].inc
  <2>1. CASE p = n
    BY <1>1, <1>2, <2>1
  <2>2. CASE p # n
    <3>1. <<p, node[n].tab[p].inc>> \in Allowed
      BY <1>1, <1>4, <2>2 DEF Sound, Issued
    <3> QED BY <1>3, <1>4, <3>1
  <2> QED BY <2>1, <2>2
<1>5. ASSUME ~Free, NEW p \in Nodes \ {n}, NEW k \in DOMAIN net[<<n, p>>], NEW q \in DOMAIN net[<<n, p>>][k].upd
      PROVE  net[<<n, p>>][k].upd[q].inc <= node[q].inc
  <2> DEFINE c == <<n, p>>
  <2>1. c \in Channels
    BY DEF Channels
  <2>2. net[c] \in Seq(Frames) /\ k \in 1..Len(net[c])
    BY <1>1, <2>1 DEF NetOk, Nets
  <2>3. OnWay(net[c][k], c, Allowed, Free)
    BY <1>1, <2>1, <2>2 DEF NetOk, Carries
  <2>4. <<q, net[c][k].upd[q].inc>> \in Allowed
    BY <2>3 DEF OnWay, Honest
  <2> QED BY <1>3, <1>5, <2>4
<1>6. setup.restarts = {} /\ setup.leavers = {} => ~Free
  BY DEF Free
<1> QED BY <1>2, <1>4, <1>5, <1>6

\* What a node's table says is what it publishes and what its subscribers were
\* told, a lease shields only a live member, a denied node is in no view, and
\* incarnations come from the node they are about, for any nodes, bounds and
\* host calls (apply_update, evict_denied, tick, leave, admit, resume).
THEOREM TableIsSoundHolds == Spec => []TableIsSound
<1>1. Init => Inv
  BY InitKeeps
<1>2. Inv /\ [Next]_vars => Inv'
  BY StepKeeps
<1>3. Inv => TableIsSound
  BY InvGivesTypes, InvGivesTables, InvGivesIssued DEF TableIsSound
<1> QED BY <1>1, <1>2, <1>3, PTL DEF Spec

-----------------------------------------------------------------------------
(* SecureTransport: a denied peer has no session once the listener of the   *)
(* snapshot has returned, records open in the order they were sealed, no    *)
(* nonce is used twice under one key, and a session belongs to the          *)
(* connection that carries it.                                              *)
(*                                                                          *)
(* Two of the four are about what cannot be seen in the table of sessions   *)
(* alone.  That a denial leaves no session needs to know who may still      *)
(* insert one (GateClosed).  That no nonce is used twice needs the          *)
(* session's counter to bound everything done under its key (Counted), and  *)
(* that holds of a new session only because its key is new: handshakes are  *)
(* numbered (Numbered), and one whose key is not made yet is in one place   *)
(* of a node, as a message that opens it, a pending engine, or a result to  *)
(* install (OnceEach, OneResult).                                           *)

\* What the tables, the wires and the installations hold.
Session == [key : Nat, tx : Nat, rx : Nat, rej : {0, 1}, fresh : BOOLEAN, conn : Nat]
Frame == [t : {"auth", "data"}, h : Nat, step : 0..3, seq : Nat]
Pending == [h : Nat, step : 0..3, stale : BOOLEAN]
Result == [h : Nat, phase : {"ask", "insert", "out"}, conn : Nat]

\* The types of the variables.
Types ==
    /\ sess \in [Node -> SUBSET Session] /\ pend \in [Node -> SUBSET Pending]
    /\ wire \in [Node -> Seq(Frame)] /\ installing \in [Node -> SUBSET Result]
    /\ down \in [Node -> BOOLEAN] /\ denied \in [Node -> BOOLEAN] /\ swept \in [Node -> BOOLEAN]
    /\ hs \in Nat /\ epoch \in Nat
    /\ sealed \in [Node -> Seq(Nat \X Nat)] /\ opened \in [Node -> Seq(Nat \X Nat)]

\* Once the listener of a denying snapshot has returned nobody is about to insert.
GateClosed == \A n \in Node : denied[n] /\ swept[n] =>
                  /\ sess[n] = {}
                  /\ \A i \in installing[n] : i.phase # "insert"

\* What was negotiated is of the present connection until the hook is due.
OfThisConnection == \A n \in Node : ~down[n] =>
                        /\ \A x \in sess[n] : x.conn = epoch
                        /\ \A i \in installing[n] : i.conn = epoch

\* The counters of a session bound what was done under its key.
Bounded(q, k, b) == \A i \in 1..Len(q) : q[i][1] = k => q[i][2] <= b
Counted == \A n \in Node : \A x \in sess[n] :
               Bounded(sealed[n], x.key, x.tx) /\ Bounded(opened[n], x.key, x.rx)

\* The first message of a handshake, which a node reads at most once.
Opener(f) == f.t = "auth" /\ f.step = 1
Opens(q, h) == \E j \in 1..Len(q) : Opener(q[j]) /\ q[j].h = h
OpensOnce(q) == \A j, k \in 1..Len(q) : Opener(q[j]) /\ Opener(q[k]) /\ q[j].h = q[k].h => j = k
KnownUpTo(q, b) == \A j \in 1..Len(q) : q[j].h <= b

\* Nothing was sealed or opened under the key of handshake h, and no session has it.
Unused(n, h) == /\ \A x \in sess[n] : x.key # h
                /\ \A j \in 1..Len(sealed[n]) : sealed[n][j][1] # h
                /\ \A j \in 1..Len(opened[n]) : opened[n][j][1] # h

\* Handshakes are numbered as they are opened.
Numbered == \A n \in Node :
             /\ \A h \in Nat : h > hs => Unused(n, h)
             /\ \A p \in pend[n] : p.h <= hs
             /\ \A i \in installing[n] : i.h <= hs
             /\ KnownUpTo(wire[n], hs)

\* A handshake that has not made its key yet is in one place of a node only.
OnceEach == \A n \in Node :
    /\ \A p \in pend[n] : p.h # 0 => Unused(n, p.h) /\ \A i \in installing[n] : i.h # p.h
    /\ \A i \in installing[n] : i.phase # "out" => Unused(n, i.h)
    /\ OpensOnce(wire[n])
    /\ \A h \in Nat : Opens(wire[n], h) => /\ h # 0 /\ Unused(n, h)
                                           /\ \A p \in pend[n] : p.h # h
                                           /\ \A i \in installing[n] : i.h # h

\* The reader installs one result at a time.
OneResult == \A n \in Node : \A i, j \in installing[n] : i = j

\* Under each key the numbers grow, and so both sequences of a node do.
Ordered(q) == \A i, j \in 1..Len(q) : i < j /\ q[i][1] = q[j][1] => q[i][2] < q[j][2]
SealedInOrder == \A n \in Node : Ordered(sealed[n])

\* The inductive invariant.
IInv == /\ Types /\ GateClosed /\ OfThisConnection /\ Counted /\ Numbered /\ OnceEach /\ OneResult
        /\ SealedInOrder /\ OpenedInOrder

-----------------------------------------------------------------------------
\* An append keeps what was there.
LEMMA AppendKeeps == ASSUME NEW S, NEW q \in Seq(S), NEW e \in S
                     PROVE /\ Append(q, e) \in Seq(S)
                           /\ Len(Append(q, e)) = Len(q) + 1
                           /\ \A i \in 1..Len(q) : Append(q, e)[i] = q[i]
                           /\ Append(q, e)[Len(q) + 1] = e
                           /\ q \o <<e>> = Append(q, e)
  OBVIOUS

\* The head read, the rest moves up.
LEMMA TailKeeps == ASSUME NEW S, NEW q \in Seq(S), q # <<>>
                   PROVE /\ Tail(q) \in Seq(S)
                         /\ Len(Tail(q)) = Len(q) - 1
                         /\ \A i \in 1..Len(Tail(q)) : Tail(q)[i] = q[i + 1]
                         /\ Head(q) \in S /\ Head(q) = q[1] /\ Len(q) >= 1
  OBVIOUS

\* A session is only ever replaced by one that continues it, or by a new one.
Continues(y, x) == y.key = x.key /\ y.conn = x.conn /\ y.tx >= x.tx /\ y.rx >= x.rx

\* The reader settles the sessions it finds.
LEMMA SettleContinues ==
  ASSUME Types, NEW n \in Node, Settle(n)
  PROVE /\ sess' \in [Node -> SUBSET Session]
        /\ \A m \in Node : \A y \in sess'[m] : \E x \in sess[m] : Continues(y, x)
  <1>1. ASSUME NEW x \in Session
        PROVE [x EXCEPT !.fresh = FALSE] \in Session /\ Continues([x EXCEPT !.fresh = FALSE], x)
    <2>1. [x EXCEPT !.fresh = FALSE] \in Session
      BY DEF Session
    <2>2. /\ [x EXCEPT !.fresh = FALSE].key = x.key /\ [x EXCEPT !.fresh = FALSE].conn = x.conn
          /\ [x EXCEPT !.fresh = FALSE].tx = x.tx /\ [x EXCEPT !.fresh = FALSE].rx = x.rx
          /\ x.tx \in Nat /\ x.rx \in Nat
      BY DEF Session
    <2>. QED
      BY <2>1, <2>2 DEF Continues
  <1>2. sess' = [sess EXCEPT ![n] = {[x EXCEPT !.fresh = FALSE] : x \in sess[n]}]
    BY DEF Settle
  <1>3. sess[n] \subseteq Session
    BY DEF Types
  <1>4. \A y \in sess'[n] : \E x \in sess[n] : y = [x EXCEPT !.fresh = FALSE]
    BY <1>2 DEF Types
  <1>5. \A y \in sess'[n] : y \in Session /\ \E x \in sess[n] : Continues(y, x)
    BY <1>1, <1>3, <1>4
  <1>6. \A m \in Node : m # n => sess'[m] = sess[m]
    BY <1>2 DEF Types
  <1>7. \A m \in Node : \A x \in sess[m] : Continues(x, x)
    BY DEF Types, Session, Continues
  <1>. QED
    BY <1>2, <1>5, <1>6, <1>7 DEF Types

\* send() takes the session's next sequence number.
LEMMA SealContinues ==
  ASSUME Types, NEW n \in Node, Seal(n)
  PROVE \E x \in sess[n] :
           /\ next_send_seq(x) \in Session /\ Continues(next_send_seq(x), x)
           /\ next_send_seq(x).tx = x.tx + 1 /\ x.tx \in Nat /\ x.key \in Nat
           /\ sess' = [sess EXCEPT ![n] = {next_send_seq(x)}]
           /\ sealed' = [sealed EXCEPT ![n] = Append(@, <<x.key, x.tx + 1>>)]
           /\ Data(x.key, x.tx + 1) \in Frame
           /\ wire' = [wire EXCEPT ![Peer(n)] = Append(@, Data(x.key, x.tx + 1))]
  <1>1. PICK x \in sess[n] : /\ sess' = [sess EXCEPT ![n] = {next_send_seq(x)}]
                             /\ sealed' = [sealed EXCEPT ![n] = Append(@, <<x.key, next_send_seq(x).tx>>)]
                             /\ Send2(n, <<Data(x.key, next_send_seq(x).tx)>>)
    BY DEF Seal
  <1>2. x \in Session
    BY DEF Types
  <1>3. /\ next_send_seq(x) \in Session /\ Continues(next_send_seq(x), x)
        /\ next_send_seq(x).tx = x.tx + 1 /\ x.tx \in Nat /\ x.key \in Nat
    BY <1>2 DEF next_send_seq, Session, Continues
  <1>4. Data(x.key, x.tx + 1) \in Frame
    BY <1>3 DEF Data, Frame
  <1>5. wire[Peer(n)] \o <<Data(x.key, x.tx + 1)>> = Append(wire[Peer(n)], Data(x.key, x.tx + 1))
    BY <1>4, AppendKeeps DEF Types, Peer, Node
  <1>6. wire' = [wire EXCEPT ![Peer(n)] = Append(@, Data(x.key, x.tx + 1))]
    BY <1>1, <1>3, <1>5 DEF Send2, Types, Peer, Node
  <1>7. sealed' = [sealed EXCEPT ![n] = Append(@, <<x.key, x.tx + 1>>)]
    BY <1>1, <1>3
  <1>. QED
    BY <1>1, <1>3, <1>4, <1>6, <1>7

\* deliver() moves the receive window to the frame it accepts, or not at all.
LEMMA OpenContinues ==
  ASSUME Types, NEW n \in Node, Open(n)
  PROVE /\ sess' \in [Node -> SUBSET Session]
        /\ \A m \in Node : \A y \in sess'[m] : \E x \in sess[m] :
              /\ Continues(y, x) /\ y.tx = x.tx
              /\ m = n /\ ~denied[n] /\ Head(wire[n]).h = x.key => y.rx >= Head(wire[n]).seq
        /\ \/ opened' = opened
           \/ /\ opened' = [opened EXCEPT ![n] = Append(@, <<Head(wire[n]).h, Head(wire[n]).seq>>)]
              /\ ~denied[n]
              /\ \E x \in sess[n] : Head(wire[n]).h = x.key /\ Head(wire[n]).seq > x.rx
  <1>. DEFINE f == Head(wire[n])
  <1>1. wire[n] # <<>> /\ f \in Frame
    BY TailKeeps DEF Types, Open, Reading
  <1>2. ASSUME NEW x \in Session
        PROVE /\ after_open(x, f) \in Session /\ Continues(after_open(x, f), x)
              /\ after_open(x, f).tx = x.tx
              /\ f.h = x.key => after_open(x, f).rx >= f.seq
    BY <1>1 DEF after_open, accept_recv_seq, Session, Frame, Continues
  <1>3. \A m \in Node : \A x \in sess[m] : x \in Session /\ Continues(x, x)
    BY DEF Types, Session, Continues
  <1>4. \/ opened' = opened
        \/ /\ opened' = [opened EXCEPT ![n] = Append(@, <<f.h, f.seq>>)]
           /\ ~denied[n]
           /\ \E x \in sess[n] : f.h = x.key /\ f.seq > x.rx
    BY DEF Open, accept_recv_seq
  <1>5. CASE denied[n]
    <2>1. sess' = sess
      BY <1>5 DEF Open
    <2>. QED
      BY <1>3, <1>4, <1>5, <2>1 DEF Types
  <1>6. CASE ~denied[n]
    <2>1. sess' = [sess EXCEPT ![n] = {after_open(x, f) : x \in sess[n]}]
      BY <1>6 DEF Open
    <2>2. \A y \in sess'[n] : \E x \in sess[n] : y = after_open(x, f)
      BY <2>1 DEF Types
    <2>3. \A y \in sess'[n] : y \in Session /\ \E x \in sess[n] :
              Continues(y, x) /\ y.tx = x.tx /\ (f.h = x.key => y.rx >= f.seq)
      BY <1>2, <1>3, <2>2
    <2>4. \A m \in Node : m # n => sess'[m] = sess[m]
      BY <2>1 DEF Types
    <2>5. sess' \in [Node -> SUBSET Session]
      BY <2>1, <2>3, <2>4 DEF Types
    <2>. QED
      BY <1>3, <1>4, <2>3, <2>4, <2>5
  <1>. QED
    BY <1>5, <1>6

\* The Done result moves on to its next phase.
LEMMA PhaseKeeps ==
  ASSUME Types, NEW n \in Node, NEW ph \in {"ask", "insert", "out"},
         installing' = [installing EXCEPT ![n] = {[i EXCEPT !.phase = ph] : i \in @}]
  PROVE /\ installing' \in [Node -> SUBSET Result]
        /\ \A m \in Node : \A j \in installing'[m] : \E i \in installing[m] :
              /\ j.h = i.h /\ j.conn = i.conn
              /\ j.phase = (IF m = n THEN ph ELSE i.phase)
  <1>1. \A i \in Result : /\ [i EXCEPT !.phase = ph] \in Result
                          /\ [i EXCEPT !.phase = ph].h = i.h /\ [i EXCEPT !.phase = ph].conn = i.conn
                          /\ [i EXCEPT !.phase = ph].phase = ph
    BY DEF Result
  <1>2. installing'[n] = {[i EXCEPT !.phase = ph] : i \in installing[n]} /\ installing[n] \subseteq Result
    BY DEF Types
  <1>3. \A j \in installing'[n] : j \in Result /\ \E i \in installing[n] :
            j.h = i.h /\ j.conn = i.conn /\ j.phase = ph
    <2>1. ASSUME NEW j \in installing'[n]
          PROVE j \in Result /\ \E i \in installing[n] : j.h = i.h /\ j.conn = i.conn /\ j.phase = ph
      <3>1. PICK i \in installing[n] : j = [i EXCEPT !.phase = ph]
        BY <1>2, <2>1
      <3>. QED
        BY <1>1, <1>2, <3>1
    <2>. QED
      BY <2>1
  <1>4. \A m \in Node : m # n => installing'[m] = installing[m]
    BY DEF Types
  <1>5. installing' \in [Node -> SUBSET Result]
    BY <1>3, <1>4 DEF Types
  <1>. QED
    BY <1>3, <1>4, <1>5

\* The question asked, the result goes on to the insertion.
LEMMA AskKeeps ==
  ASSUME Types, NEW n \in Node, InstallAsk(n), ~denied[n]
  PROVE  \A m \in Node : \A j \in installing'[m] : \E i \in installing[m] :
             /\ j.h = i.h /\ j.conn = i.conn
             /\ j.phase = (IF m = n THEN "insert" ELSE i.phase)
  <1>1. installing' = [installing EXCEPT ![n] = {[i EXCEPT !.phase = "insert"] : i \in @}]
    BY DEF InstallAsk
  <1>2. "insert" \in {"ask", "insert", "out"}
    OBVIOUS
  <1>. QED
    BY <1>1, <1>2, PhaseKeeps

\* A connection lost takes what was in flight with it.
LEMMA SeverKeeps == ASSUME Types, Sever
                    PROVE /\ wire' \in [Node -> Seq(Frame)] /\ down' \in [Node -> BOOLEAN] /\ epoch' \in Nat
                          /\ \A n \in Node : wire'[n] = <<>> /\ down'[n]
  BY DEF Types, Sever

\* The insertion replaces the session by a new one under the handshake's key.
LEMMA InsertReplaces ==
  ASSUME Types, NEW n \in Node, InstallInsert(n)
  PROVE /\ \E i \in installing[n] : i.phase = "insert" /\ sess' = [sess EXCEPT ![n] = {NewSession(i.h, i.conn)}]
        /\ installing' \in [Node -> SUBSET Result]
        /\ \A m \in Node : \A j \in installing'[m] : \E i \in installing[m] :
              /\ j.h = i.h /\ j.conn = i.conn
              /\ j.phase = (IF m = n THEN "out" ELSE i.phase)
  <1>1. \E i \in installing[n] : i.phase = "insert" /\ sess' = [sess EXCEPT ![n] = {NewSession(i.h, i.conn)}]
    BY DEF InstallInsert, install_renegotiated
  <1>2. installing' = [installing EXCEPT ![n] = {[i EXCEPT !.phase = "out"] : i \in @}]
    BY DEF InstallInsert
  <1>. QED
    BY <1>1, <1>2, PhaseKeeps

\* Every step keeps the types.
LEMMA TypesStep == ASSUME Types, [SecureNext]_secureVars PROVE Types'
  <1>. USE DEF Node, Peer, sessionVars, gateVars, Types
  <1>1. ASSUME NEW n \in Node, RequestSession(n) PROVE Types'
    <2>1. [h |-> 0, step |-> 0, stale |-> FALSE] \in Pending
      BY DEF Pending
    <2>. QED
      BY <1>1, <2>1 DEF RequestSession, reserve_pending
  <1>2. ASSUME NEW n \in Node, Renegotiate(n) PROVE Types'
    <2>1. [h |-> 0, step |-> 0, stale |-> FALSE] \in Pending
      BY DEF Pending
    <2>. QED
      BY <1>2, <2>1 DEF Renegotiate, reserve_pending
  <1>3. ASSUME NEW n \in Node, Burst(n) PROVE Types'
    <2>1. [h |-> 0, step |-> 0, stale |-> FALSE] \in Pending
      BY DEF Pending
    <2>. QED
      BY <1>3, <2>1 DEF Burst, reserve_pending
  <1>4. ASSUME NEW n \in Node, Drive(n) PROVE Types'
    <2>1. Auth(hs + 1, 1) \in Frame
      BY DEF Auth, Frame
    <2>2. wire[Peer(n)] \o <<Auth(hs + 1, 1)>> \in Seq(Frame)
      BY <2>1, AppendKeeps
    <2>3. wire' \in [Node -> Seq(Frame)]
      BY <1>4, <2>2 DEF Drive, Send2
    <2>4. [h |-> hs + 1, step |-> 2, stale |-> FALSE] \in Pending
      BY DEF Pending
    <2>. QED
      BY <1>4, <2>3, <2>4 DEF Drive
  <1>5. ASSUME NEW n \in Node, DriveFails(n) PROVE Types'
    <2>1. wire' \in [Node -> Seq(Frame)] /\ down' \in [Node -> BOOLEAN] /\ epoch' \in Nat
      BY <1>5, SeverKeeps DEF DriveFails
    <2>. QED
      BY <1>5, <2>1 DEF DriveFails
  <1>6. ASSUME NEW n \in Node, Expire(n) PROVE Types'
    <2>1. \A p \in Pending : [p EXCEPT !.stale = TRUE] \in Pending
      BY DEF Pending
    <2>. QED
      BY <1>6, <2>1 DEF Expire
  <1>7. ASSUME NEW n \in Node, Settle(n) PROVE Types'
    BY <1>7, SettleContinues DEF Settle
  <1>8. ASSUME NEW n \in Node, OnAuthPending(n) PROVE Types'
    <2>1. wire' \in [Node -> Seq(Frame)]
      BY <1>8, TailKeeps DEF OnAuthPending, Consume, Reading
    <2>2. installing' \in [Node -> SUBSET Result]
      BY <1>8 DEF OnAuthPending, taken, Pending, Result
    <2>. QED
      BY <1>8, <2>1, <2>2 DEF OnAuthPending
  <1>9. ASSUME NEW n \in Node, OnAuthOpener(n) PROVE Types'
    <2>1. Head(wire[n]) \in Frame /\ Tail(wire[n]) \in Seq(Frame)
      BY <1>9, TailKeeps DEF OnAuthOpener, Reading
    <2>2. /\ Auth(Head(wire[n]).h, 2) \in Frame
          /\ [h |-> Head(wire[n]).h, step |-> 3, stale |-> FALSE] \in Pending
      BY <2>1 DEF Auth, Frame, Pending
    <2>3. Append(wire[Peer(n)], Auth(Head(wire[n]).h, 2)) \in Seq(Frame)
      BY <2>2, AppendKeeps
    <2>4. CASE opener_refused(n, Head(wire[n]))
      <3>1. pend' = [pend EXCEPT ![n] = {}] /\ wire' = [wire EXCEPT ![n] = Tail(@)]
        BY <1>9, <2>4 DEF OnAuthOpener, Consume
      <3>. QED
        BY <1>9, <2>1, <3>1 DEF OnAuthOpener
    <2>5. CASE ~opener_refused(n, Head(wire[n]))
      <3>1. /\ pend' = [pend EXCEPT ![n] = {[h |-> Head(wire[n]).h, step |-> 3, stale |-> FALSE]}]
            /\ wire' = [wire EXCEPT ![n] = Tail(@), ![Peer(n)] = Append(@, Auth(Head(wire[n]).h, 2))]
        BY <1>9, <2>5 DEF OnAuthOpener
      <3>2. wire' \in [Node -> Seq(Frame)]
        BY <2>1, <2>3, <3>1
      <3>. QED
        BY <1>9, <2>2, <3>1, <3>2 DEF OnAuthOpener
    <2>. QED
      BY <2>4, <2>5
  <1>10. ASSUME NEW n \in Node, InstallAsk(n) PROVE Types'
    <2>1. installing' \in [Node -> SUBSET Result]
      BY <1>10, PhaseKeeps DEF InstallAsk
    <2>2. wire' \in [Node -> Seq(Frame)] /\ down' \in [Node -> BOOLEAN] /\ epoch' \in Nat
      BY <1>10, SeverKeeps DEF InstallAsk
    <2>. QED
      BY <1>10, <2>1, <2>2 DEF InstallAsk
  <1>11. ASSUME NEW n \in Node, InstallInsert(n) PROVE Types'
    <2>1. sess' \in [Node -> SUBSET Session]
      BY <1>11 DEF InstallInsert, install_renegotiated, NewSession, Session, Result
    <2>. QED
      BY <1>11, <2>1, InsertReplaces DEF InstallInsert
  <1>12. ASSUME NEW n \in Node, InstallOut(n) PROVE Types'
    <2>1. PICK i \in installing[n] : Send2(n, IF local_is_client(n) THEN <<Auth(i.h, 3)>> ELSE <<>>)
      BY <1>12 DEF InstallOut
    <2>2. Auth(i.h, 3) \in Frame
      BY DEF Auth, Frame, Result
    <2>3. wire[Peer(n)] \o <<Auth(i.h, 3)>> \in Seq(Frame) /\ wire[Peer(n)] \o <<>> \in Seq(Frame)
      BY <2>2, AppendKeeps
    <2>4. wire' \in [Node -> Seq(Frame)]
      BY <2>1, <2>3 DEF Send2
    <2>. QED
      BY <1>12, <2>4 DEF InstallOut
  <1>13. ASSUME NEW n \in Node, Seal(n) PROVE Types'
    <2>1. PICK x \in sess[n] : /\ next_send_seq(x) \in Session /\ x.tx \in Nat /\ x.key \in Nat
                               /\ sess' = [sess EXCEPT ![n] = {next_send_seq(x)}]
                               /\ sealed' = [sealed EXCEPT ![n] = Append(@, <<x.key, x.tx + 1>>)]
                               /\ Data(x.key, x.tx + 1) \in Frame
                               /\ wire' = [wire EXCEPT ![Peer(n)] = Append(@, Data(x.key, x.tx + 1))]
      BY <1>13, SealContinues
    <2>2. <<x.key, x.tx + 1>> \in Nat \X Nat
      BY SMTT(30), <2>1
    <2>3. wire' \in [Node -> Seq(Frame)]
      BY <2>1, AppendKeeps DEF Types
    <2>4. sealed' \in [Node -> Seq(Nat \X Nat)]
      BY <2>1, <2>2, AppendKeeps DEF Types
    <2>. QED
      BY <1>13, <2>1, <2>3, <2>4 DEF Seal
  <1>14. ASSUME NEW n \in Node, Open(n) PROVE Types'
    <2>1. wire' \in [Node -> Seq(Frame)]
      BY <1>14, TailKeeps DEF Open, Consume, Reading
    <2>2. sess' \in [Node -> SUBSET Session]
      BY <1>14, OpenContinues
    <2>3. opened' \in [Node -> Seq(Nat \X Nat)]
      <3>1. Head(wire[n]) \in Frame
        BY <1>14, TailKeeps DEF Open, Reading
      <3>2. Append(opened[n], <<Head(wire[n]).h, Head(wire[n]).seq>>) \in Seq(Nat \X Nat)
        BY <3>1, AppendKeeps DEF Frame
      <3>3. opened' \in {opened, [opened EXCEPT ![n] = Append(@, <<Head(wire[n]).h, Head(wire[n]).seq>>)]}
        BY <1>14, OpenContinues
      <3>. QED
        BY ZenonT(40), <3>2, <3>3
    <2>. QED
      BY <1>14, <2>1, <2>2, <2>3 DEF Open
  <1>15. ASSUME NEW n \in Node, Duplicate(n) PROVE Types'
    <2>1. wire' \in [Node -> Seq(Frame)]
      BY <1>15, TailKeeps, AppendKeeps DEF Duplicate
    <2>. QED
      BY <1>15, <2>1 DEF Duplicate
  <1>16. ASSUME NEW n \in Node, on_peer_disconnected(n) PROVE Types'
    BY <1>16 DEF on_peer_disconnected, forget_peer
  <1>17. ASSUME NEW n \in Node, Publish(n) PROVE Types'
    BY <1>17 DEF Publish
  <1>18. ASSUME NEW n \in Node, on_admission_published(n) PROVE Types'
    <2>1. wire' \in [Node -> Seq(Frame)] /\ down' \in [Node -> BOOLEAN] /\ epoch' \in Nat
      BY <1>18, SeverKeeps DEF on_admission_published
    <2>2. sess' \in [Node -> SUBSET Session] /\ pend' \in [Node -> SUBSET Pending]
      BY <1>18 DEF on_admission_published, forget_peer
    <2>. QED
      BY <1>18, <2>1, <2>2 DEF on_admission_published
  <1>19. ASSUME Cut PROVE Types'
    BY <1>19, SeverKeeps DEF Cut
  <1>20. CASE UNCHANGED secureVars
    BY <1>20 DEF secureVars
  <1>. QED
    BY <1>1, <1>2, <1>3, <1>4, <1>5, <1>6, <1>7, <1>8, <1>9, <1>10, <1>11, <1>12, <1>13, <1>14,
       <1>15, <1>16, <1>17, <1>18, <1>19, <1>20 DEF SecureNext

\* Who is about to insert has asked the gate before the snapshot, and the barrier
\* waits for it (admission_permits under the lock, barrier).
LEMMA GateStep == ASSUME Types, GateClosed, [SecureNext]_secureVars PROVE GateClosed'
  <1>. USE DEF Node, Peer, sessionVars, gateVars, Types, GateClosed
  <1>1. ASSUME NEW n \in Node, RequestSession(n) PROVE GateClosed'
    BY <1>1 DEF RequestSession, reserve_pending
  <1>2. ASSUME NEW n \in Node, Renegotiate(n) PROVE GateClosed'
    BY <1>2 DEF Renegotiate, reserve_pending
  <1>3. ASSUME NEW n \in Node, Burst(n) PROVE GateClosed'
    BY <1>3 DEF Burst, reserve_pending
  <1>4. ASSUME NEW n \in Node, Drive(n) PROVE GateClosed'
    BY <1>4 DEF Drive, Send2, Auth
  <1>5. ASSUME NEW n \in Node, DriveFails(n) PROVE GateClosed'
    BY <1>5 DEF DriveFails, Sever
  <1>6. ASSUME NEW n \in Node, Expire(n) PROVE GateClosed'
    BY <1>6 DEF Expire
  <1>7. ASSUME NEW n \in Node, Settle(n) PROVE GateClosed'
    BY <1>7 DEF Settle
  <1>8. ASSUME NEW n \in Node, OnAuthPending(n) PROVE GateClosed'
    BY <1>8 DEF OnAuthPending, taken, Reading, Consume
  <1>9. ASSUME NEW n \in Node, OnAuthOpener(n) PROVE GateClosed'
    BY <1>9 DEF OnAuthOpener, Reading, taken, opener_refused, Consume, Auth
  <1>10. ASSUME NEW n \in Node, InstallAsk(n) PROVE GateClosed'
    BY <1>10 DEF InstallAsk, Sever
  <1>11. ASSUME NEW n \in Node, InstallInsert(n) PROVE GateClosed'
    BY <1>11 DEF InstallInsert, install_renegotiated, NewSession
  <1>12. ASSUME NEW n \in Node, InstallOut(n) PROVE GateClosed'
    BY <1>12 DEF InstallOut, Send2, Auth
  <1>13. ASSUME NEW n \in Node, Seal(n) PROVE GateClosed'
    BY <1>13 DEF Seal, Send2, Data, next_send_seq
  <1>14. ASSUME NEW n \in Node, Open(n) PROVE GateClosed'
    BY <1>14 DEF Open, Reading, Consume, after_open, accept_recv_seq
  <1>15. ASSUME NEW n \in Node, Duplicate(n) PROVE GateClosed'
    BY <1>15 DEF Duplicate
  <1>16. ASSUME NEW n \in Node, on_peer_disconnected(n) PROVE GateClosed'
    BY <1>16 DEF on_peer_disconnected, forget_peer
  <1>17. ASSUME NEW n \in Node, Publish(n) PROVE GateClosed'
    BY <1>17 DEF Publish
  <1>18. ASSUME NEW n \in Node, on_admission_published(n) PROVE GateClosed'
    BY <1>18 DEF on_admission_published, forget_peer, Sever, barrier
  <1>19. ASSUME Cut PROVE GateClosed'
    BY <1>19 DEF Cut, Sever
  <1>20. CASE UNCHANGED secureVars
    BY <1>20 DEF secureVars
  <1>. QED
    BY <1>1, <1>2, <1>3, <1>4, <1>5, <1>6, <1>7, <1>8, <1>9, <1>10, <1>11, <1>12, <1>13, <1>14,
       <1>15, <1>16, <1>17, <1>18, <1>19, <1>20 DEF SecureNext

\* What is kept of the sessions and of the installations keeps its connection.
LEMMA ConnectionKeeps ==
  ASSUME OfThisConnection, down' = down, epoch' = epoch,
         \A m \in Node : \A y \in sess'[m] : \E x \in sess[m] : y.conn = x.conn,
         installing' = installing \/ \A m \in Node : \A j \in installing'[m] : \E i \in installing[m] : j.conn = i.conn
  PROVE  OfThisConnection'
  <1>1. ASSUME NEW m \in Node, ~down[m], NEW y \in sess'[m] PROVE y.conn = epoch
    <2>1. PICK x \in sess[m] : y.conn = x.conn
      BY <1>1
    <2>. QED
      BY <1>1, <2>1 DEF OfThisConnection
  <1>2. ASSUME NEW m \in Node, ~down[m], NEW j \in installing'[m] PROVE j.conn = epoch
    <2>1. PICK i \in installing[m] : j.conn = i.conn
      BY <1>2
    <2>. QED
      BY <1>2, <2>1 DEF OfThisConnection
  <1>. QED
    BY <1>1, <1>2 DEF OfThisConnection

\* A session is of the connection its result was negotiated on, and a connection
\* lost is forgotten before the next one is up (install, on_peer_disconnected).
LEMMA ConnectionStep == ASSUME Types, OfThisConnection, [SecureNext]_secureVars PROVE OfThisConnection'
  <1>. USE DEF Node, Peer, sessionVars, gateVars, Types, OfThisConnection
  <1>1. ASSUME NEW n \in Node, RequestSession(n) PROVE OfThisConnection'
    BY <1>1 DEF RequestSession, reserve_pending
  <1>2. ASSUME NEW n \in Node, Renegotiate(n) PROVE OfThisConnection'
    BY <1>2 DEF Renegotiate, reserve_pending
  <1>3. ASSUME NEW n \in Node, Burst(n) PROVE OfThisConnection'
    BY <1>3 DEF Burst, reserve_pending
  <1>4. ASSUME NEW n \in Node, Drive(n) PROVE OfThisConnection'
    BY <1>4 DEF Drive, Send2, Auth
  <1>5. ASSUME NEW n \in Node, DriveFails(n) PROVE OfThisConnection'
    BY <1>5 DEF DriveFails, Sever
  <1>6. ASSUME NEW n \in Node, Expire(n) PROVE OfThisConnection'
    BY <1>6 DEF Expire
  <1>7. ASSUME NEW n \in Node, Settle(n) PROVE OfThisConnection'
    <2>1. \A m \in Node : \A y \in sess'[m] : \E x \in sess[m] : y.conn = x.conn
      BY <1>7, SettleContinues DEF Continues
    <2>2. down' = down /\ epoch' = epoch /\ installing' = installing
      BY <1>7 DEF Settle
    <2>. QED
      BY <2>1, <2>2, ConnectionKeeps
  <1>8. ASSUME NEW n \in Node, OnAuthPending(n) PROVE OfThisConnection'
    BY <1>8 DEF OnAuthPending, taken, Reading, Consume
  <1>9. ASSUME NEW n \in Node, OnAuthOpener(n) PROVE OfThisConnection'
    BY <1>9 DEF OnAuthOpener, Reading, taken, opener_refused, Consume, Auth
  <1>10. ASSUME NEW n \in Node, InstallAsk(n) PROVE OfThisConnection'
    <2>1. CASE denied[n]
      BY <1>10, <2>1 DEF InstallAsk, Sever
    <2>2. CASE ~denied[n]
      <3>1. \A m \in Node : \A j \in installing'[m] : \E i \in installing[m] : j.conn = i.conn
        BY <1>10, <2>2, AskKeeps
      <3>2. down' = down /\ epoch' = epoch /\ sess' = sess
        BY <1>10, <2>2 DEF InstallAsk
      <3>. QED
        BY <3>1, <3>2, ConnectionKeeps
    <2>. QED
      BY <2>1, <2>2
  <1>11. ASSUME NEW n \in Node, InstallInsert(n) PROVE OfThisConnection'
    <2>1. PICK i \in installing[n] : sess' = [sess EXCEPT ![n] = {NewSession(i.h, i.conn)}]
      BY ZenonT(40), <1>11, InsertReplaces
    <2>2. \A m \in Node : \A j \in installing'[m] : \E k \in installing[m] : j.conn = k.conn
      BY <1>11, InsertReplaces
    <2>3. NewSession(i.h, i.conn).conn = i.conn
      BY DEF NewSession
    <2>4. down' = down /\ epoch' = epoch
      BY <1>11 DEF InstallInsert
    <2>5. ASSUME NEW m \in Node, ~down[m], NEW y \in sess'[m] PROVE y.conn = epoch
      <3>1. CASE m = n
        <4>1. y = NewSession(i.h, i.conn)
          BY <2>1, <2>5, <3>1
        <4>. QED
          BY <2>3, <2>5, <3>1, <4>1
      <3>2. CASE m # n
        BY <2>1, <2>5, <3>2
      <3>. QED
        BY <3>1, <3>2
    <2>6. ASSUME NEW m \in Node, ~down[m], NEW j \in installing'[m] PROVE j.conn = epoch
      <3>1. PICK k \in installing[m] : j.conn = k.conn
        BY <2>2, <2>6
      <3>. QED
        BY <2>6, <3>1
    <2>. QED
      BY <2>4, <2>5, <2>6
  <1>12. ASSUME NEW n \in Node, InstallOut(n) PROVE OfThisConnection'
    BY <1>12 DEF InstallOut, Send2, Auth
  <1>13. ASSUME NEW n \in Node, Seal(n) PROVE OfThisConnection'
    <2>1. \A m \in Node : \A y \in sess'[m] : \E x \in sess[m] : y.conn = x.conn
      <3>1. PICK x \in sess[n] : /\ Continues(next_send_seq(x), x)
                                 /\ sess' = [sess EXCEPT ![n] = {next_send_seq(x)}]
        BY <1>13, SealContinues
      <3>. QED
        BY <3>1 DEF Continues
    <2>2. down' = down /\ epoch' = epoch /\ installing' = installing
      BY <1>13 DEF Seal
    <2>. QED
      BY <2>1, <2>2, ConnectionKeeps
  <1>14. ASSUME NEW n \in Node, Open(n) PROVE OfThisConnection'
    <2>1. \A m \in Node : \A y \in sess'[m] : \E x \in sess[m] : y.conn = x.conn
      <3>1. ASSUME NEW m \in Node, NEW y \in sess'[m]
            PROVE \E x \in sess[m] : y.conn = x.conn
        <4>1. PICK x \in sess[m] : Continues(y, x)
          BY <1>14, <3>1, OpenContinues
        <4>. QED
          BY <4>1 DEF Continues
      <3>. QED
        BY <3>1
    <2>2. down' = down /\ epoch' = epoch /\ installing' = installing
      BY <1>14 DEF Open
    <2>. QED
      BY <2>1, <2>2, ConnectionKeeps
  <1>15. ASSUME NEW n \in Node, Duplicate(n) PROVE OfThisConnection'
    BY <1>15 DEF Duplicate
  <1>16. ASSUME NEW n \in Node, on_peer_disconnected(n) PROVE OfThisConnection'
    BY <1>16 DEF on_peer_disconnected, forget_peer
  <1>17. ASSUME NEW n \in Node, Publish(n) PROVE OfThisConnection'
    BY <1>17 DEF Publish
  <1>18. ASSUME NEW n \in Node, on_admission_published(n) PROVE OfThisConnection'
    BY <1>18 DEF on_admission_published, forget_peer, Sever, barrier
  <1>19. ASSUME Cut PROVE OfThisConnection'
    BY <1>19 DEF Cut, Sever
  <1>20. CASE UNCHANGED secureVars
    BY <1>20 DEF secureVars
  <1>. QED
    BY <1>1, <1>2, <1>3, <1>4, <1>5, <1>6, <1>7, <1>8, <1>9, <1>10, <1>11, <1>12, <1>13, <1>14,
       <1>15, <1>16, <1>17, <1>18, <1>19, <1>20 DEF SecureNext

\* What a window or a counter bounds, it bounds after it has moved ...
LEMMA BoundedMoves ==
  ASSUME NEW q \in Seq(Nat \X Nat), NEW k \in Nat, NEW b \in Nat, NEW c \in Nat, Bounded(q, k, b), b <= c
  PROVE  Bounded(q, k, c)
  BY DEF Bounded

\* ... and the entry it has moved to.
LEMMA BoundedAppend ==
  ASSUME NEW q \in Seq(Nat \X Nat), NEW k \in Nat, NEW b \in Nat, NEW c \in Nat, Bounded(q, k, b), b <= c,
         NEW l \in Nat, NEW v \in Nat, l = k => v <= c
  PROVE  Bounded(Append(q, <<l, v>>), k, c)
  <1>. DEFINE r == Append(q, <<l, v>>)
  <1>1. /\ Len(r) = Len(q) + 1 /\ r[Len(q) + 1] = <<l, v>>
        /\ \A i \in 1..Len(q) : r[i] = q[i] /\ q[i] \in Nat \X Nat
    BY AppendKeeps
  <1>2. Bounded(q, k, c)
    BY BoundedMoves
  <1>3. ASSUME NEW i \in 1..Len(r), r[i][1] = k PROVE r[i][2] <= c
    <2>1. CASE i \in 1..Len(q)
      BY <1>1, <1>2, <1>3, <2>1 DEF Bounded
    <2>2. CASE i = Len(q) + 1
      BY <1>1, <1>3, <2>2
    <2>. QED
      BY <1>1, <2>1, <2>2
  <1>. QED
    BY <1>3 DEF Bounded

\* An entry past the bound of its key comes after all of that key.
LEMMA OrderedAppend ==
  ASSUME NEW q \in Seq(Nat \X Nat), NEW k \in Nat, NEW b \in Nat, NEW v \in Nat,
         Ordered(q), Bounded(q, k, b), b < v
  PROVE  Ordered(Append(q, <<k, v>>))
  <1>. DEFINE r == Append(q, <<k, v>>)
  <1>1. /\ Len(r) = Len(q) + 1 /\ r[Len(q) + 1] = <<k, v>>
        /\ \A i \in 1..Len(q) : r[i] = q[i] /\ q[i] \in Nat \X Nat
    BY AppendKeeps
  <1>. HIDE DEF r
  <1>2. ASSUME NEW i \in 1..Len(r), NEW j \in 1..Len(r), i < j, r[i][1] = r[j][1] PROVE r[i][2] < r[j][2]
    <2>1. CASE j \in 1..Len(q)
      <3>1. i \in 1..Len(q)
        BY <1>1, <1>2, <2>1
      <3>2. r[i] = q[i] /\ r[j] = q[j]
        BY <1>1, <2>1, <3>1
      <3>. QED
        BY <1>2, <2>1, <3>1, <3>2 DEF Ordered
    <2>2. CASE j = Len(q) + 1
      <3>1. i \in 1..Len(q) /\ Len(q) \in Nat
        BY <1>1, <1>2, <2>2
      <3>2. r[i] = q[i] /\ r[j] = <<k, v>>
        BY <1>1, <2>2, <3>1
      <3>3. q[i][1] = k
        BY <1>2, <3>2
      <3>4. q[i][2] <= b /\ q[i][2] \in Nat
        BY <1>1, <3>1, <3>3 DEF Bounded
      <3>. QED
        BY SMTT(30), <3>2, <3>4
    <2>. QED
      BY <1>1, <2>1, <2>2
  <1>. QED
    BY <1>2 DEF Ordered, r

\* The counters of a session keep bounding what was done under its key.
LEMMA CountStep == ASSUME Types, Counted, OnceEach, [SecureNext]_secureVars PROVE Counted'
  <1>. USE DEF Node, Peer, sessionVars, gateVars
  <1>1. ASSUME NEW n \in Node, RequestSession(n) PROVE Counted'
    BY <1>1 DEF RequestSession, reserve_pending, Types, Counted
  <1>2. ASSUME NEW n \in Node, Renegotiate(n) PROVE Counted'
    BY <1>2 DEF Renegotiate, reserve_pending, Types, Counted
  <1>3. ASSUME NEW n \in Node, Burst(n) PROVE Counted'
    BY <1>3 DEF Burst, reserve_pending, Types, Counted
  <1>4. ASSUME NEW n \in Node, Drive(n) PROVE Counted'
    BY <1>4 DEF Drive, Send2, Auth, Types, Counted
  <1>5. ASSUME NEW n \in Node, DriveFails(n) PROVE Counted'
    BY <1>5 DEF DriveFails, Sever, Types, Counted
  <1>6. ASSUME NEW n \in Node, Expire(n) PROVE Counted'
    BY <1>6 DEF Expire, Types, Counted
  <1>7. ASSUME NEW n \in Node, Settle(n) PROVE Counted'
    <2>0. /\ \A m \in Node : /\ sealed[m] \in Seq(Nat \X Nat) /\ opened[m] \in Seq(Nat \X Nat)
                         /\ \A x \in sess[m] : x \in Session /\ x.key \in Nat /\ x.tx \in Nat /\ x.rx \in Nat
          /\ sealed \in [Node -> Seq(Nat \X Nat)] /\ opened \in [Node -> Seq(Nat \X Nat)]
          /\ sess \in [Node -> SUBSET Session]
      <3>1. /\ sealed \in [Node -> Seq(Nat \X Nat)] /\ opened \in [Node -> Seq(Nat \X Nat)]
            /\ sess \in [Node -> SUBSET Session]
        BY DEF Types
      <3>. QED
        BY SMTT(30), <3>1 DEF Session
    <2>1. sealed' = sealed /\ opened' = opened
      BY <1>7 DEF Settle
    <2>2. ASSUME NEW m \in Node, NEW y \in sess'[m]
          PROVE Bounded(sealed[m], y.key, y.tx) /\ Bounded(opened[m], y.key, y.rx)
      <3>1. PICK x \in sess[m] : Continues(y, x)
        BY <1>7, SettleContinues
      <3>2. y \in Session /\ y.tx \in Nat /\ y.rx \in Nat
        BY <1>7, SettleContinues DEF Session
      <3>. QED
        BY <2>0, <3>1, <3>2, BoundedMoves DEF Continues, Counted
    <2>. QED
      BY <2>1, <2>2 DEF Counted
  <1>8. ASSUME NEW n \in Node, OnAuthPending(n) PROVE Counted'
    BY <1>8 DEF OnAuthPending, taken, Reading, Consume, Types, Counted
  <1>9. ASSUME NEW n \in Node, OnAuthOpener(n) PROVE Counted'
    BY <1>9 DEF OnAuthOpener, Reading, taken, opener_refused, Consume, Auth, Types, Counted
  <1>10. ASSUME NEW n \in Node, InstallAsk(n) PROVE Counted'
    BY <1>10 DEF InstallAsk, Sever, Types, Counted
  <1>11. ASSUME NEW n \in Node, InstallInsert(n) PROVE Counted'
    <2>0. /\ \A m \in Node : /\ sealed[m] \in Seq(Nat \X Nat) /\ opened[m] \in Seq(Nat \X Nat)
                         /\ \A x \in sess[m] : x \in Session /\ x.key \in Nat /\ x.tx \in Nat /\ x.rx \in Nat
          /\ sealed \in [Node -> Seq(Nat \X Nat)] /\ opened \in [Node -> Seq(Nat \X Nat)]
          /\ sess \in [Node -> SUBSET Session]
      <3>1. /\ sealed \in [Node -> Seq(Nat \X Nat)] /\ opened \in [Node -> Seq(Nat \X Nat)]
            /\ sess \in [Node -> SUBSET Session]
        BY DEF Types
      <3>. QED
        BY SMTT(30), <3>1 DEF Session
    <2>1. PICK i \in installing[n] : i.phase = "insert" /\ sess' = [sess EXCEPT ![n] = {NewSession(i.h, i.conn)}]
      BY <1>11, InsertReplaces
    <2>2. Unused(n, i.h)
      BY <2>1 DEF OnceEach
    <2>3. Bounded(sealed[n], i.h, 0) /\ Bounded(opened[n], i.h, 0)
      BY <2>2 DEF Unused, Bounded
    <2>4. sealed' = sealed /\ opened' = opened
      BY <1>11 DEF InstallInsert
    <2>5. \A m \in Node : m # n => sess'[m] = sess[m]
      BY <2>0, <2>1
    <2>6. sess'[n] = {NewSession(i.h, i.conn)}
      BY <2>0, <2>1
    <2>7. /\ NewSession(i.h, i.conn).key = i.h
          /\ NewSession(i.h, i.conn).tx = 0 /\ NewSession(i.h, i.conn).rx = 0
      BY DEF NewSession
    <2>. QED
      BY <2>3, <2>4, <2>5, <2>6, <2>7 DEF Counted
  <1>12. ASSUME NEW n \in Node, InstallOut(n) PROVE Counted'
    BY <1>12 DEF InstallOut, Send2, Auth, Types, Counted
  <1>13. ASSUME NEW n \in Node, Seal(n) PROVE Counted'
    <2>0. /\ \A m \in Node : /\ sealed[m] \in Seq(Nat \X Nat) /\ opened[m] \in Seq(Nat \X Nat)
                         /\ \A x \in sess[m] : x \in Session /\ x.key \in Nat /\ x.tx \in Nat /\ x.rx \in Nat
          /\ sealed \in [Node -> Seq(Nat \X Nat)] /\ opened \in [Node -> Seq(Nat \X Nat)]
          /\ sess \in [Node -> SUBSET Session]
      <3>1. /\ sealed \in [Node -> Seq(Nat \X Nat)] /\ opened \in [Node -> Seq(Nat \X Nat)]
            /\ sess \in [Node -> SUBSET Session]
        BY DEF Types
      <3>. QED
        BY SMTT(30), <3>1 DEF Session
    <2>1. PICK x \in sess[n] : /\ next_send_seq(x) \in Session /\ Continues(next_send_seq(x), x)
                               /\ next_send_seq(x).tx = x.tx + 1
                               /\ sess' = [sess EXCEPT ![n] = {next_send_seq(x)}]
                               /\ sealed' = [sealed EXCEPT ![n] = Append(@, <<x.key, x.tx + 1>>)]
      BY <1>13, SealContinues
    <2>2. opened' = opened
      BY <1>13 DEF Seal
    <2>3. next_send_seq(x).key = x.key /\ next_send_seq(x).rx >= x.rx /\ next_send_seq(x).rx \in Nat
      BY <2>1 DEF Continues, Session
    <2>4. Bounded(sealed[n], x.key, x.tx) /\ Bounded(opened[n], x.key, x.rx)
      BY DEF Counted
    <2>5. Bounded(Append(sealed[n], <<x.key, x.tx + 1>>), x.key, x.tx + 1)
      <3>1. x.key \in Nat /\ x.tx \in Nat /\ x.tx + 1 \in Nat /\ x.tx <= x.tx + 1
        BY <2>0
      <3>. QED
        BY <2>0, <2>4, <3>1, BoundedAppend
    <2>6. Bounded(opened[n], x.key, next_send_seq(x).rx)
      BY <2>0, <2>3, <2>4, BoundedMoves
    <2>7. \A m \in Node : m # n => sess'[m] = sess[m] /\ sealed'[m] = sealed[m]
      BY <2>0, <2>1
    <2>8. sess'[n] = {next_send_seq(x)} /\ sealed'[n] = Append(sealed[n], <<x.key, x.tx + 1>>)
      BY <2>0, <2>1
    <2>. QED
      BY <2>1, <2>2, <2>3, <2>5, <2>6, <2>7, <2>8 DEF Counted
  <1>14. ASSUME NEW n \in Node, Open(n) PROVE Counted'
    <2>0. /\ \A m \in Node : /\ sealed[m] \in Seq(Nat \X Nat) /\ opened[m] \in Seq(Nat \X Nat)
                         /\ \A x \in sess[m] : x \in Session /\ x.key \in Nat /\ x.tx \in Nat /\ x.rx \in Nat
          /\ sealed \in [Node -> Seq(Nat \X Nat)] /\ opened \in [Node -> Seq(Nat \X Nat)]
          /\ sess \in [Node -> SUBSET Session]
      <3>1. /\ sealed \in [Node -> Seq(Nat \X Nat)] /\ opened \in [Node -> Seq(Nat \X Nat)]
            /\ sess \in [Node -> SUBSET Session]
        BY DEF Types
      <3>. QED
        BY SMTT(30), <3>1 DEF Session
    <2>. DEFINE f == Head(wire[n])
    <2>1. f.h \in Nat /\ f.seq \in Nat
      <3>1. f \in Frame
        BY <1>14, TailKeeps DEF Open, Reading, Types
      <3>. QED
        BY <3>1 DEF Frame
    <2>2. sealed' = sealed
      BY <1>14 DEF Open
    <2>3. ASSUME NEW m \in Node, NEW y \in sess'[m]
          PROVE Bounded(sealed[m], y.key, y.tx) /\ Bounded(opened'[m], y.key, y.rx)
      <3>1. PICK x \in sess[m] : /\ Continues(y, x) /\ y.tx = x.tx
                                 /\ m = n /\ ~denied[n] /\ f.h = x.key => y.rx >= f.seq
        BY <1>14, OpenContinues
      <3>2. y.rx \in Nat
        BY <1>14, OpenContinues DEF Session
      <3>a. x.key \in Nat /\ x.rx \in Nat /\ sealed[m] \in Seq(Nat \X Nat) /\ opened[m] \in Seq(Nat \X Nat)
        BY <2>0
      <3>b. x.key = y.key /\ x.rx <= y.rx
        BY <3>1, <3>2, <3>a DEF Continues
      <3>c. Bounded(sealed[m], x.key, x.tx) /\ Bounded(opened[m], x.key, x.rx)
        BY DEF Counted
      <3>3. Bounded(sealed[m], y.key, y.tx) /\ Bounded(opened[m], y.key, x.rx)
        BY <3>1, <3>b, <3>c
      <3>4. CASE opened'[m] = opened[m]
        <4>1. Bounded(opened[m], y.key, y.rx)
          BY <3>2, <3>3, <3>a, <3>b, BoundedMoves
        <4>. QED
          BY <3>3, <3>4, <4>1
      <3>5. CASE m = n /\ ~denied[n] /\ opened'[n] = Append(opened[n], <<f.h, f.seq>>)
        <4>1. f.h = y.key => f.seq <= y.rx
          BY <2>1, <3>1, <3>2, <3>5, <3>b
        <4>2. Bounded(Append(opened[m], <<f.h, f.seq>>), y.key, y.rx)
          BY <2>1, <3>2, <3>3, <3>a, <3>b, <4>1, BoundedAppend
        <4>. QED
          BY <3>3, <3>5, <4>2
      <3>6. \/ opened' = opened
            \/ opened' = [opened EXCEPT ![n] = Append(@, <<f.h, f.seq>>)] /\ ~denied[n]
        BY <1>14, OpenContinues
      <3>. QED
        BY <2>0, <3>4, <3>5, <3>6
    <2>. QED
      BY <2>2, <2>3 DEF Counted
  <1>15. ASSUME NEW n \in Node, Duplicate(n) PROVE Counted'
    BY <1>15 DEF Duplicate, Types, Counted
  <1>16. ASSUME NEW n \in Node, on_peer_disconnected(n) PROVE Counted'
    BY <1>16 DEF on_peer_disconnected, forget_peer, Types, Counted
  <1>17. ASSUME NEW n \in Node, Publish(n) PROVE Counted'
    BY <1>17 DEF Publish, Types, Counted
  <1>18. ASSUME NEW n \in Node, on_admission_published(n) PROVE Counted'
    BY <1>18 DEF on_admission_published, forget_peer, Sever, barrier, Types, Counted
  <1>19. ASSUME Cut PROVE Counted'
    BY <1>19 DEF Cut, Sever, Types, Counted
  <1>20. CASE UNCHANGED secureVars
    BY <1>20 DEF secureVars, Types, Counted
  <1>. QED
    BY <1>1, <1>2, <1>3, <1>4, <1>5, <1>6, <1>7, <1>8, <1>9, <1>10, <1>11, <1>12, <1>13, <1>14,
       <1>15, <1>16, <1>17, <1>18, <1>19, <1>20 DEF SecureNext

\* What is sealed or opened is past the counter, so after all of its key.
LEMMA OrderStep == ASSUME Types, Counted, SealedInOrder, OpenedInOrder, [SecureNext]_secureVars PROVE SealedInOrder' /\ OpenedInOrder'
  <1>. USE DEF Node, Peer, sessionVars, gateVars
  <1>1. ASSUME NEW n \in Node, RequestSession(n) PROVE SealedInOrder' /\ OpenedInOrder'
    BY <1>1 DEF RequestSession, reserve_pending, SealedInOrder, OpenedInOrder
  <1>2. ASSUME NEW n \in Node, Renegotiate(n) PROVE SealedInOrder' /\ OpenedInOrder'
    BY <1>2 DEF Renegotiate, reserve_pending, SealedInOrder, OpenedInOrder
  <1>3. ASSUME NEW n \in Node, Burst(n) PROVE SealedInOrder' /\ OpenedInOrder'
    BY <1>3 DEF Burst, reserve_pending, SealedInOrder, OpenedInOrder
  <1>4. ASSUME NEW n \in Node, Drive(n) PROVE SealedInOrder' /\ OpenedInOrder'
    BY <1>4 DEF Drive, Send2, Auth, SealedInOrder, OpenedInOrder
  <1>5. ASSUME NEW n \in Node, DriveFails(n) PROVE SealedInOrder' /\ OpenedInOrder'
    BY <1>5 DEF DriveFails, Sever, SealedInOrder, OpenedInOrder
  <1>6. ASSUME NEW n \in Node, Expire(n) PROVE SealedInOrder' /\ OpenedInOrder'
    BY <1>6 DEF Expire, SealedInOrder, OpenedInOrder
  <1>7. ASSUME NEW n \in Node, Settle(n) PROVE SealedInOrder' /\ OpenedInOrder'
    BY <1>7 DEF Settle, SealedInOrder, OpenedInOrder
  <1>8. ASSUME NEW n \in Node, OnAuthPending(n) PROVE SealedInOrder' /\ OpenedInOrder'
    BY <1>8 DEF OnAuthPending, taken, Reading, Consume, SealedInOrder, OpenedInOrder
  <1>9. ASSUME NEW n \in Node, OnAuthOpener(n) PROVE SealedInOrder' /\ OpenedInOrder'
    BY <1>9 DEF OnAuthOpener, Reading, taken, opener_refused, Consume, Auth, SealedInOrder, OpenedInOrder
  <1>10. ASSUME NEW n \in Node, InstallAsk(n) PROVE SealedInOrder' /\ OpenedInOrder'
    BY <1>10 DEF InstallAsk, Sever, SealedInOrder, OpenedInOrder
  <1>11. ASSUME NEW n \in Node, InstallInsert(n) PROVE SealedInOrder' /\ OpenedInOrder'
    BY <1>11 DEF InstallInsert, install_renegotiated, NewSession, SealedInOrder, OpenedInOrder
  <1>12. ASSUME NEW n \in Node, InstallOut(n) PROVE SealedInOrder' /\ OpenedInOrder'
    BY <1>12 DEF InstallOut, Send2, Auth, SealedInOrder, OpenedInOrder
  <1>13. ASSUME NEW n \in Node, Seal(n) PROVE SealedInOrder' /\ OpenedInOrder'
    <2>1. opened' = opened
      BY <1>13 DEF Seal
    <2>2. OpenedInOrder'
      BY <2>1 DEF OpenedInOrder
    <2>3. PICK x \in sess[n] : sealed' = [sealed EXCEPT ![n] = Append(@, <<x.key, x.tx + 1>>)]
      BY <1>13, SealContinues
    <2>4. /\ x.key \in Nat /\ x.tx \in Nat /\ sealed \in [Node -> Seq(Nat \X Nat)]
          /\ Bounded(sealed[n], x.key, x.tx)
      BY DEF Types, Session, Counted
    <2>5. Ordered(Append(sealed[n], <<x.key, x.tx + 1>>))
      BY <2>4, OrderedAppend DEF SealedInOrder
    <2>. QED
      BY <2>2, <2>3, <2>4, <2>5 DEF SealedInOrder
  <1>14. ASSUME NEW n \in Node, Open(n) PROVE SealedInOrder' /\ OpenedInOrder'
    <2>. DEFINE f == Head(wire[n])
    <2>1. f.h \in Nat /\ f.seq \in Nat
      <3>1. f \in Frame
        BY <1>14, TailKeeps DEF Open, Reading, Types
      <3>. QED
        BY <3>1 DEF Frame
    <2>2. sealed' = sealed
      BY <1>14 DEF Open
    <2>3. SealedInOrder'
      BY <2>2 DEF SealedInOrder
    <2>4. CASE opened' = opened
      BY <2>3, <2>4 DEF OpenedInOrder
    <2>5. ASSUME NEW x \in sess[n], f.h = x.key, f.seq > x.rx,
                 opened' = [opened EXCEPT ![n] = Append(@, <<f.h, f.seq>>)]
          PROVE  OpenedInOrder'
      <3>1. /\ x.rx \in Nat /\ opened \in [Node -> Seq(Nat \X Nat)]
            /\ Bounded(opened[n], x.key, x.rx)
        BY DEF Types, Session, Counted
      <3>2. Ordered(Append(opened[n], <<f.h, f.seq>>))
        BY <2>1, <2>5, <3>1, OrderedAppend DEF OpenedInOrder, Ordered
      <3>3. /\ opened'[n] = Append(opened[n], <<f.h, f.seq>>)
            /\ \A m \in Node : m # n => opened'[m] = opened[m]
        BY <2>5, <3>1
      <3>4. \A m \in Node : Ordered(opened'[m])
        BY ZenonT(40), <3>2, <3>3 DEF OpenedInOrder, Ordered
      <3>. QED
        BY <3>4 DEF OpenedInOrder, Ordered
    <2>. QED
      BY <1>14, <2>3, <2>4, <2>5, OpenContinues
  <1>15. ASSUME NEW n \in Node, Duplicate(n) PROVE SealedInOrder' /\ OpenedInOrder'
    BY <1>15 DEF Duplicate, SealedInOrder, OpenedInOrder
  <1>16. ASSUME NEW n \in Node, on_peer_disconnected(n) PROVE SealedInOrder' /\ OpenedInOrder'
    BY <1>16 DEF on_peer_disconnected, forget_peer, SealedInOrder, OpenedInOrder
  <1>17. ASSUME NEW n \in Node, Publish(n) PROVE SealedInOrder' /\ OpenedInOrder'
    BY <1>17 DEF Publish, SealedInOrder, OpenedInOrder
  <1>18. ASSUME NEW n \in Node, on_admission_published(n) PROVE SealedInOrder' /\ OpenedInOrder'
    BY <1>18 DEF on_admission_published, forget_peer, Sever, barrier, SealedInOrder, OpenedInOrder
  <1>19. ASSUME Cut PROVE SealedInOrder' /\ OpenedInOrder'
    BY <1>19 DEF Cut, Sever, SealedInOrder, OpenedInOrder
  <1>20. CASE UNCHANGED secureVars
    BY <1>20 DEF secureVars, SealedInOrder, OpenedInOrder
  <1>. QED
    BY <1>1, <1>2, <1>3, <1>4, <1>5, <1>6, <1>7, <1>8, <1>9, <1>10, <1>11, <1>12, <1>13, <1>14,
       <1>15, <1>16, <1>17, <1>18, <1>19, <1>20 DEF SecureNext

\* Reading takes an opener away, if it takes one.
LEMMA TailOpens ==
  ASSUME NEW q \in Seq(Frame), q # <<>>, NEW b \in Nat
  PROVE  /\ OpensOnce(q) => OpensOnce(Tail(q))
         /\ KnownUpTo(q, b) => KnownUpTo(Tail(q), b)
         /\ \A h \in Nat : Opens(Tail(q), h) => Opens(q, h)
         /\ OpensOnce(q) /\ Opener(Head(q)) => ~Opens(Tail(q), Head(q).h)
  <1>1. /\ Len(Tail(q)) = Len(q) - 1 /\ Len(q) \in Nat /\ Len(q) >= 1
        /\ \A i \in 1..Len(Tail(q)) : Tail(q)[i] = q[i + 1] /\ i + 1 \in 1..Len(q) /\ i + 1 # 1
        /\ Head(q) = q[1]
    BY TailKeeps
  <1>2. OpensOnce(q) => OpensOnce(Tail(q))
    BY <1>1 DEF OpensOnce
  <1>3. KnownUpTo(q, b) => KnownUpTo(Tail(q), b)
    BY <1>1 DEF KnownUpTo
  <1>4. \A h \in Nat : Opens(Tail(q), h) => Opens(q, h)
    BY <1>1 DEF Opens
  <1>5. OpensOnce(q) /\ Opener(Head(q)) => ~Opens(Tail(q), Head(q).h)
    BY <1>1 DEF OpensOnce, Opens
  <1>. QED
    BY <1>2, <1>3, <1>4, <1>5

\* What is sent opens a handshake only if it is an opener.
LEMMA AppendOpens ==
  ASSUME NEW q \in Seq(Frame), NEW e \in Frame, NEW b \in Nat, e.h <= b, KnownUpTo(q, b), OpensOnce(q),
         Opener(e) => ~Opens(q, e.h)
  PROVE  /\ OpensOnce(Append(q, e))
         /\ KnownUpTo(Append(q, e), b)
         /\ \A h \in Nat : Opens(Append(q, e), h) => Opens(q, h) \/ (Opener(e) /\ h = e.h)
  <1>. DEFINE r == Append(q, e)
  <1>1. /\ Len(r) = Len(q) + 1 /\ r[Len(q) + 1] = e
        /\ \A i \in 1..Len(q) : r[i] = q[i]
    BY AppendKeeps
  <1>2. \A j \in 1..Len(r) : j \in 1..Len(q) \/ j = Len(q) + 1
    BY <1>1
  <1>. HIDE DEF r
  <1>3. ASSUME NEW j \in 1..Len(r), NEW k \in 1..Len(r), Opener(r[j]), Opener(r[k]), r[j].h = r[k].h
        PROVE  j = k
    BY <1>1, <1>2, <1>3 DEF OpensOnce, Opens
  <1>4. KnownUpTo(r, b)
    BY <1>1, <1>2 DEF KnownUpTo
  <1>5. \A h \in Nat : Opens(r, h) => Opens(q, h) \/ (Opener(e) /\ h = e.h)
    BY <1>1, <1>2 DEF Opens
  <1>. QED
    BY <1>3, <1>4, <1>5 DEF OpensOnce, r

\* Nothing in flight opens nothing.
LEMMA EmptyOpens == ASSUME NEW b \in Nat
                    PROVE OpensOnce(<<>>) /\ KnownUpTo(<<>>, b) /\ \A h \in Nat : ~Opens(<<>>, h)
  BY DEF OpensOnce, KnownUpTo, Opens

\* What a step leaves on the wires: openers that were there, or a new one.
WireKept == \A m \in Node : /\ OpensOnce(wire'[m]) /\ KnownUpTo(wire'[m], hs')
                            /\ \A h \in Nat : Opens(wire'[m], h) =>
                                  Opens(wire[m], h) \/ (h = hs + 1 /\ hs' = hs + 1)

\* Every step leaves the wires with openers of known handshakes, each once.
LEMMA WireStep == ASSUME Types, Numbered, OnceEach, [SecureNext]_secureVars PROVE WireKept
  <1>. USE DEF Node, Peer, sessionVars, gateVars
  <1>1. ASSUME NEW n \in Node, RequestSession(n) PROVE WireKept
    BY <1>1 DEF RequestSession, reserve_pending, Numbered, OnceEach, WireKept
  <1>2. ASSUME NEW n \in Node, Renegotiate(n) PROVE WireKept
    BY <1>2 DEF Renegotiate, reserve_pending, Numbered, OnceEach, WireKept
  <1>3. ASSUME NEW n \in Node, Burst(n) PROVE WireKept
    BY <1>3 DEF Burst, reserve_pending, Numbered, OnceEach, WireKept
  <1>4. ASSUME NEW n \in Node, Drive(n) PROVE WireKept
    <2>0. hs \in Nat /\ wire \in [Node -> Seq(Frame)] /\ \A m \in Node : KnownUpTo(wire[m], hs) /\ OpensOnce(wire[m])
      BY DEF Types, Numbered, OnceEach
    <2>1. Peer(n) \in Node /\ wire[Peer(n)] \in Seq(Frame) /\ hs' = hs + 1 /\ hs + 1 \in Nat
      BY <1>4, <2>0 DEF Drive
    <2>2. Auth(hs + 1, 1) \in Frame /\ Auth(hs + 1, 1).h = hs + 1
      BY <2>1 DEF Auth, Frame
    <2>3. wire' = [wire EXCEPT ![Peer(n)] = Append(@, Auth(hs + 1, 1))]
      <3>1. wire[Peer(n)] \o <<Auth(hs + 1, 1)>> = Append(wire[Peer(n)], Auth(hs + 1, 1))
        BY <2>1, <2>2, AppendKeeps
      <3>. QED
        BY <1>4, <2>0, <2>1, <3>1 DEF Drive, Send2
    <2>4. ASSUME NEW m \in Node PROVE KnownUpTo(wire[m], hs + 1)
      <3>1. \A j \in 1..Len(wire[m]) : wire[m][j] \in Frame /\ wire[m][j].h <= hs
        BY <2>0 DEF KnownUpTo
      <3>2. \A j \in 1..Len(wire[m]) : wire[m][j].h \in Nat
        BY <3>1 DEF Frame
      <3>. QED
        BY <2>0, <3>1, <3>2 DEF KnownUpTo
    <2>5. ~Opens(wire[Peer(n)], hs + 1)
      BY <2>0, <2>1 DEF KnownUpTo, Opens
    <2>6. /\ OpensOnce(Append(wire[Peer(n)], Auth(hs + 1, 1)))
          /\ KnownUpTo(Append(wire[Peer(n)], Auth(hs + 1, 1)), hs + 1)
          /\ \A h \in Nat : Opens(Append(wire[Peer(n)], Auth(hs + 1, 1)), h) => Opens(wire[Peer(n)], h) \/ h = hs + 1
      BY <2>0, <2>1, <2>2, <2>4, <2>5, AppendOpens
    <2>. QED
      BY <2>0, <2>1, <2>3, <2>4, <2>6 DEF WireKept
  <1>5. ASSUME NEW n \in Node, DriveFails(n) PROVE WireKept
    <2>0. hs \in Nat /\ wire \in [Node -> Seq(Frame)] /\ \A m \in Node : KnownUpTo(wire[m], hs) /\ OpensOnce(wire[m])
      BY DEF Types, Numbered, OnceEach
    <2>1. wire' = wire \/ \A m \in Node : wire'[m] = <<>>
      BY <1>5, SeverKeeps DEF DriveFails
    <2>2. hs' = hs
      BY <1>5 DEF DriveFails
    <2>. QED
      BY <2>0, <2>1, <2>2, EmptyOpens DEF WireKept
  <1>6. ASSUME NEW n \in Node, Expire(n) PROVE WireKept
    BY <1>6 DEF Expire, Numbered, OnceEach, WireKept
  <1>7. ASSUME NEW n \in Node, Settle(n) PROVE WireKept
    BY <1>7 DEF Settle, Numbered, OnceEach, WireKept
  <1>8. ASSUME NEW n \in Node, OnAuthPending(n) PROVE WireKept
    <2>0. hs \in Nat /\ wire \in [Node -> Seq(Frame)] /\ \A m \in Node : KnownUpTo(wire[m], hs) /\ OpensOnce(wire[m])
      BY DEF Types, Numbered, OnceEach
    <2>1. wire' = [wire EXCEPT ![n] = Tail(@)] /\ wire[n] # <<>> /\ hs' = hs
      BY <1>8 DEF OnAuthPending, Reading, Consume
    <2>2. wire[n] \in Seq(Frame)
      BY <2>0
    <2>3. /\ OpensOnce(Tail(wire[n])) /\ KnownUpTo(Tail(wire[n]), hs)
          /\ \A h \in Nat : Opens(Tail(wire[n]), h) => Opens(wire[n], h)
      BY <2>0, <2>1, <2>2, TailOpens
    <2>. QED
      BY <2>0, <2>1, <2>3 DEF WireKept
  <1>9. ASSUME NEW n \in Node, OnAuthOpener(n) PROVE WireKept
    <2>0. hs \in Nat /\ wire \in [Node -> Seq(Frame)] /\ \A m \in Node : KnownUpTo(wire[m], hs) /\ OpensOnce(wire[m])
      BY DEF Types, Numbered, OnceEach
    <2>. DEFINE f == Head(wire[n])
    <2>1. wire[n] # <<>> /\ hs' = hs /\ wire[n] \in Seq(Frame) /\ f \in Frame /\ Peer(n) # n /\ Peer(n) \in Node
      BY <1>9, <2>0, TailKeeps DEF OnAuthOpener, Reading
    <2>2. /\ OpensOnce(Tail(wire[n])) /\ KnownUpTo(Tail(wire[n]), hs)
          /\ \A h \in Nat : Opens(Tail(wire[n]), h) => Opens(wire[n], h)
      BY <2>0, <2>1, TailOpens
    <2>3. CASE opener_refused(n, f)
      <3>1. wire' = [wire EXCEPT ![n] = Tail(@)]
        BY <1>9, <2>3 DEF OnAuthOpener, Consume
      <3>. QED
        BY <2>0, <2>1, <2>2, <3>1 DEF WireKept
    <2>4. CASE ~opener_refused(n, f)
      <3>1. wire' = [wire EXCEPT ![n] = Tail(@), ![Peer(n)] = Append(@, Auth(f.h, 2))]
        BY <1>9, <2>4 DEF OnAuthOpener
      <3>2. Auth(f.h, 2) \in Frame /\ ~Opener(Auth(f.h, 2)) /\ Auth(f.h, 2).h = f.h
        BY <2>1 DEF Auth, Frame, Opener
      <3>3. f.h <= hs
        BY <2>0, <2>1, TailKeeps DEF KnownUpTo
      <3>4. /\ OpensOnce(Append(wire[Peer(n)], Auth(f.h, 2))) /\ KnownUpTo(Append(wire[Peer(n)], Auth(f.h, 2)), hs)
            /\ \A h \in Nat : Opens(Append(wire[Peer(n)], Auth(f.h, 2)), h) => Opens(wire[Peer(n)], h)
        BY <2>0, <2>1, <3>2, <3>3, AppendOpens
      <3>. QED
        BY <2>0, <2>1, <2>2, <3>1, <3>4 DEF WireKept
    <2>. QED
      BY <2>3, <2>4
  <1>10. ASSUME NEW n \in Node, InstallAsk(n) PROVE WireKept
    <2>0. hs \in Nat /\ wire \in [Node -> Seq(Frame)] /\ \A m \in Node : KnownUpTo(wire[m], hs) /\ OpensOnce(wire[m])
      BY DEF Types, Numbered, OnceEach
    <2>1. wire' = wire \/ \A m \in Node : wire'[m] = <<>>
      BY <1>10, SeverKeeps DEF InstallAsk
    <2>2. hs' = hs
      BY <1>10 DEF InstallAsk
    <2>. QED
      BY <2>0, <2>1, <2>2, EmptyOpens DEF WireKept
  <1>11. ASSUME NEW n \in Node, InstallInsert(n) PROVE WireKept
    BY <1>11 DEF InstallInsert, install_renegotiated, NewSession, Numbered, OnceEach, WireKept
  <1>12. ASSUME NEW n \in Node, InstallOut(n) PROVE WireKept
    <2>0. hs \in Nat /\ wire \in [Node -> Seq(Frame)] /\ \A m \in Node : KnownUpTo(wire[m], hs) /\ OpensOnce(wire[m])
      BY DEF Types, Numbered, OnceEach
    <2>1. PICK i \in installing[n] : Send2(n, IF local_is_client(n) THEN <<Auth(i.h, 3)>> ELSE <<>>)
      BY <1>12 DEF InstallOut
    <2>. DEFINE e == Auth(i.h, 3)
    <2>2. e \in Frame /\ ~Opener(e) /\ e.h <= hs
      <3>1. i \in Result /\ i.h <= hs
        BY DEF Types, Numbered
      <3>. QED
        BY <3>1 DEF Auth, Opener, Frame, Result
    <2>3. wire' = wire \/ wire' = [wire EXCEPT ![Peer(n)] = Append(@, e)]
      <3>1. /\ wire[Peer(n)] \in Seq(Frame)
            /\ wire[Peer(n)] \o <<e>> = Append(wire[Peer(n)], e) /\ wire[Peer(n)] \o <<>> = wire[Peer(n)]
        BY <2>0, <2>2, AppendKeeps
      <3>. QED
        BY <2>0, <2>1, <3>1 DEF Send2
    <2>. HIDE DEF e
    <2>4. hs' = hs /\ Peer(n) \in Node
      BY <1>12 DEF InstallOut
    <2>5. /\ OpensOnce(Append(wire[Peer(n)], e)) /\ KnownUpTo(Append(wire[Peer(n)], e), hs)
          /\ \A h \in Nat : Opens(Append(wire[Peer(n)], e), h) => Opens(wire[Peer(n)], h)
      BY <2>0, <2>2, <2>4, AppendOpens
    <2>. QED
      BY <2>0, <2>3, <2>4, <2>5 DEF WireKept
  <1>13. ASSUME NEW n \in Node, Seal(n) PROVE WireKept
    <2>0. hs \in Nat /\ wire \in [Node -> Seq(Frame)] /\ \A m \in Node : KnownUpTo(wire[m], hs) /\ OpensOnce(wire[m])
      BY DEF Types, Numbered, OnceEach
    <2>1. PICK x \in sess[n] : /\ Data(x.key, x.tx + 1) \in Frame
                               /\ wire' = [wire EXCEPT ![Peer(n)] = Append(@, Data(x.key, x.tx + 1))]
      BY <1>13, SealContinues
    <2>. DEFINE e == Data(x.key, x.tx + 1)
    <2>2. e \in Frame /\ ~Opener(e) /\ e.h <= hs
      <3>1. x.key \in Nat /\ (x.key > hs => Unused(n, x.key))
        BY DEF Types, Session, Numbered
      <3>2. x.key <= hs
        BY <2>0, <3>1 DEF Unused
      <3>. QED
        BY <2>1, <3>2 DEF Data, Opener
    <2>3. wire' = [wire EXCEPT ![Peer(n)] = Append(@, e)]
      BY <2>1
    <2>. HIDE DEF e
    <2>4. hs' = hs /\ Peer(n) \in Node
      BY <1>13 DEF Seal
    <2>5. /\ OpensOnce(Append(wire[Peer(n)], e)) /\ KnownUpTo(Append(wire[Peer(n)], e), hs)
          /\ \A h \in Nat : Opens(Append(wire[Peer(n)], e), h) => Opens(wire[Peer(n)], h)
      BY <2>0, <2>2, <2>4, AppendOpens
    <2>. QED
      BY <2>0, <2>3, <2>4, <2>5 DEF WireKept
  <1>14. ASSUME NEW n \in Node, Open(n) PROVE WireKept
    <2>0. hs \in Nat /\ wire \in [Node -> Seq(Frame)] /\ \A m \in Node : KnownUpTo(wire[m], hs) /\ OpensOnce(wire[m])
      BY DEF Types, Numbered, OnceEach
    <2>1. wire' = [wire EXCEPT ![n] = Tail(@)] /\ wire[n] # <<>> /\ hs' = hs
      BY <1>14 DEF Open, Reading, Consume
    <2>2. wire[n] \in Seq(Frame)
      BY <2>0
    <2>3. /\ OpensOnce(Tail(wire[n])) /\ KnownUpTo(Tail(wire[n]), hs)
          /\ \A h \in Nat : Opens(Tail(wire[n]), h) => Opens(wire[n], h)
      BY <2>0, <2>1, <2>2, TailOpens
    <2>. QED
      BY <2>0, <2>1, <2>3 DEF WireKept
  <1>15. ASSUME NEW n \in Node, Duplicate(n) PROVE WireKept
    <2>0. hs \in Nat /\ wire \in [Node -> Seq(Frame)] /\ \A m \in Node : KnownUpTo(wire[m], hs) /\ OpensOnce(wire[m])
      BY DEF Types, Numbered, OnceEach
    <2>. DEFINE e == Head(wire[n])
    <2>1. wire[n] # <<>> /\ e.t = "data" /\ wire' = [wire EXCEPT ![n] = Append(@, e)]
      BY <1>15 DEF Duplicate
    <2>2. e \in Frame /\ ~Opener(e) /\ e.h <= hs
      BY <2>0, <2>1, TailKeeps DEF Opener, KnownUpTo
    <2>. HIDE DEF e
    <2>4. hs' = hs
      BY <1>15 DEF Duplicate
    <2>5. /\ OpensOnce(Append(wire[n], e)) /\ KnownUpTo(Append(wire[n], e), hs)
          /\ \A h \in Nat : Opens(Append(wire[n], e), h) => Opens(wire[n], h)
      BY <2>0, <2>2, <2>4, AppendOpens
    <2>. QED
      BY <2>0, <2>1, <2>4, <2>5 DEF WireKept
  <1>16. ASSUME NEW n \in Node, on_peer_disconnected(n) PROVE WireKept
    BY <1>16 DEF on_peer_disconnected, forget_peer, Numbered, OnceEach, WireKept
  <1>17. ASSUME NEW n \in Node, Publish(n) PROVE WireKept
    BY <1>17 DEF Publish, Numbered, OnceEach, WireKept
  <1>18. ASSUME NEW n \in Node, on_admission_published(n) PROVE WireKept
    <2>0. hs \in Nat /\ wire \in [Node -> Seq(Frame)] /\ \A m \in Node : KnownUpTo(wire[m], hs) /\ OpensOnce(wire[m])
      BY DEF Types, Numbered, OnceEach
    <2>1. wire' = wire \/ \A m \in Node : wire'[m] = <<>>
      BY <1>18, SeverKeeps DEF on_admission_published
    <2>2. hs' = hs
      BY <1>18 DEF on_admission_published
    <2>. QED
      BY <2>0, <2>1, <2>2, EmptyOpens DEF WireKept
  <1>19. ASSUME Cut PROVE WireKept
    <2>0. hs \in Nat /\ wire \in [Node -> Seq(Frame)] /\ \A m \in Node : KnownUpTo(wire[m], hs) /\ OpensOnce(wire[m])
      BY DEF Types, Numbered, OnceEach
    <2>1. wire' = wire \/ \A m \in Node : wire'[m] = <<>>
      BY <1>19, SeverKeeps DEF Cut
    <2>2. hs' = hs
      BY <1>19 DEF Cut
    <2>. QED
      BY <2>0, <2>1, <2>2, EmptyOpens DEF WireKept
  <1>20. CASE UNCHANGED secureVars
    BY <1>20 DEF secureVars, Numbered, OnceEach, WireKept
  <1>. QED
    BY <1>1, <1>2, <1>3, <1>4, <1>5, <1>6, <1>7, <1>8, <1>9, <1>10, <1>11, <1>12, <1>13, <1>14,
       <1>15, <1>16, <1>17, <1>18, <1>19, <1>20 DEF SecureNext

\* A key comes into use by an insertion only: sealing and opening are under the
\* key of the session.
UnusedKept == \A m \in Node : \A h \in Nat :
    Unused(m, h) => \/ Unused(m, h)'
                    \/ /\ \E i \in installing[m] : i.phase = "insert" /\ i.h = h
                       /\ \A j \in installing'[m] : j.phase = "out"

\* Every step leaves the other keys unused.
LEMMA UnusedStep == ASSUME Types, [SecureNext]_secureVars PROVE UnusedKept
  <1>. USE DEF Node, Peer, sessionVars, gateVars
  <1>1. ASSUME NEW n \in Node, RequestSession(n) PROVE UnusedKept
    BY <1>1 DEF RequestSession, reserve_pending, Types, Unused, UnusedKept
  <1>2. ASSUME NEW n \in Node, Renegotiate(n) PROVE UnusedKept
    BY <1>2 DEF Renegotiate, reserve_pending, Types, Unused, UnusedKept
  <1>3. ASSUME NEW n \in Node, Burst(n) PROVE UnusedKept
    BY <1>3 DEF Burst, reserve_pending, Types, Unused, UnusedKept
  <1>4. ASSUME NEW n \in Node, Drive(n) PROVE UnusedKept
    BY <1>4 DEF Drive, Send2, Auth, Types, Unused, UnusedKept
  <1>5. ASSUME NEW n \in Node, DriveFails(n) PROVE UnusedKept
    BY <1>5 DEF DriveFails, Sever, Types, Unused, UnusedKept
  <1>6. ASSUME NEW n \in Node, Expire(n) PROVE UnusedKept
    BY <1>6 DEF Expire, Types, Unused, UnusedKept
  <1>7. ASSUME NEW n \in Node, Settle(n) PROVE UnusedKept
    <2>1. sealed' = sealed /\ opened' = opened
      BY <1>7 DEF Settle
    <2>2. \A m \in Node : \A y \in sess'[m] : \E x \in sess[m] : y.key = x.key
      BY <1>7, SettleContinues DEF Continues
    <2>. QED
      BY <2>1, <2>2 DEF Unused, UnusedKept
  <1>8. ASSUME NEW n \in Node, OnAuthPending(n) PROVE UnusedKept
    BY <1>8 DEF OnAuthPending, taken, Reading, Consume, Types, Unused, UnusedKept
  <1>9. ASSUME NEW n \in Node, OnAuthOpener(n) PROVE UnusedKept
    BY <1>9 DEF OnAuthOpener, Reading, taken, opener_refused, Consume, Auth, Types, Unused, UnusedKept
  <1>10. ASSUME NEW n \in Node, InstallAsk(n) PROVE UnusedKept
    BY <1>10 DEF InstallAsk, Sever, Types, Unused, UnusedKept
  <1>11. ASSUME NEW n \in Node, InstallInsert(n) PROVE UnusedKept
    <2>1. PICK i \in installing[n] : i.phase = "insert" /\ sess' = [sess EXCEPT ![n] = {NewSession(i.h, i.conn)}]
      BY <1>11, InsertReplaces
    <2>2. sealed' = sealed /\ opened' = opened
      BY <1>11 DEF InstallInsert
    <2>3. NewSession(i.h, i.conn).key = i.h
      BY DEF NewSession
    <2>4. sess \in [Node -> SUBSET Session]
      BY DEF Types
    <2>5. \A j \in installing'[n] : j.phase = "out"
      BY <1>11, InsertReplaces
    <2>. QED
      BY <2>1, <2>2, <2>3, <2>4, <2>5 DEF Unused, UnusedKept
  <1>12. ASSUME NEW n \in Node, InstallOut(n) PROVE UnusedKept
    BY <1>12 DEF InstallOut, Send2, Auth, Types, Unused, UnusedKept
  <1>13. ASSUME NEW n \in Node, Seal(n) PROVE UnusedKept
    <2>1. PICK x \in sess[n] : /\ next_send_seq(x) \in Session /\ Continues(next_send_seq(x), x)
                               /\ next_send_seq(x).tx = x.tx + 1
                               /\ sess' = [sess EXCEPT ![n] = {next_send_seq(x)}]
                               /\ sealed' = [sealed EXCEPT ![n] = Append(@, <<x.key, x.tx + 1>>)]
      BY <1>13, SealContinues
    <2>2. opened' = opened
      BY <1>13 DEF Seal
    <2>3. next_send_seq(x).key = x.key
      BY <2>1 DEF Continues
    <2>4. sess \in [Node -> SUBSET Session] /\ sealed \in [Node -> Seq(Nat \X Nat)] /\ <<x.key, x.tx + 1>> \in Nat \X Nat
      <3>1. x \in Session /\ sess \in [Node -> SUBSET Session] /\ sealed \in [Node -> Seq(Nat \X Nat)]
        BY DEF Types
      <3>2. x.key \in Nat /\ x.tx \in Nat
        BY SMTT(30), <3>1 DEF Session
      <3>. QED
        BY <3>1, <3>2
    <2>5. /\ Len(sealed'[n]) = Len(sealed[n]) + 1 /\ Len(sealed[n]) \in Nat
          /\ \A j \in 1..Len(sealed[n]) : sealed'[n][j] = sealed[n][j]
          /\ sealed'[n][Len(sealed[n]) + 1] = <<x.key, x.tx + 1>>
      BY <2>1, <2>4, AppendKeeps
    <2>6. \A m \in Node : m # n => sess'[m] = sess[m] /\ sealed'[m] = sealed[m]
      BY <2>1, <2>4
    <2>7. sess'[n] = {next_send_seq(x)}
      BY <2>1, <2>4
    <2>8. \A j \in 1..Len(sealed'[n]) : j \in 1..Len(sealed[n]) \/ j = Len(sealed[n]) + 1
      BY <2>5
    <2>9. \A h \in Nat : Unused(n, h) => Unused(n, h)'
      BY SMTT(30), <2>2, <2>3, <2>5, <2>7, <2>8 DEF Unused
    <2>. QED
      BY <2>2, <2>6, <2>9 DEF Unused, UnusedKept
  <1>14. ASSUME NEW n \in Node, Open(n) PROVE UnusedKept
    <2>. DEFINE f == Head(wire[n])
    <2>1. f.h \in Nat /\ f.seq \in Nat
      <3>1. f \in Frame
        BY <1>14, TailKeeps DEF Open, Reading, Types
      <3>. QED
        BY <3>1 DEF Frame
    <2>2. sealed' = sealed
      BY <1>14 DEF Open
    <2>3. \A m \in Node : \A y \in sess'[m] : \E x \in sess[m] : y.key = x.key
      BY <1>14, OpenContinues DEF Continues
    <2>4. CASE opened' = opened
      BY <2>2, <2>3, <2>4 DEF Unused, UnusedKept
    <2>5. ASSUME NEW x \in sess[n], f.h = x.key, opened' = [opened EXCEPT ![n] = Append(@, <<f.h, f.seq>>)]
          PROVE  UnusedKept
      <3>1. opened \in [Node -> Seq(Nat \X Nat)] /\ <<f.h, f.seq>> \in Nat \X Nat
        BY <2>1 DEF Types
      <3>2. /\ Len(opened'[n]) = Len(opened[n]) + 1 /\ Len(opened[n]) \in Nat
            /\ \A j \in 1..Len(opened[n]) : opened'[n][j] = opened[n][j]
            /\ opened'[n][Len(opened[n]) + 1] = <<f.h, f.seq>>
        BY <2>5, <3>1, AppendKeeps
      <3>3. \A m \in Node : m # n => opened'[m] = opened[m]
        BY <2>5, <3>1
      <3>4. \A j \in 1..Len(opened'[n]) : j \in 1..Len(opened[n]) \/ j = Len(opened[n]) + 1
        BY <3>2
      <3>. HIDE DEF f
      <3>5. ASSUME NEW h \in Nat, Unused(n, h) PROVE Unused(n, h)'
        <4>1. x.key # h /\ <<f.h, f.seq>>[1] # h
          BY <2>5, <3>5 DEF Unused
        <4>2. \A j \in 1..Len(opened'[n]) : opened'[n][j][1] # h
          BY <3>2, <3>4, <3>5, <4>1 DEF Unused
        <4>3. \A y \in sess'[n] : y.key # h
          BY <2>3, <3>5 DEF Unused
        <4>. QED
          BY <2>2, <3>5, <4>2, <4>3 DEF Unused
      <3>6. ASSUME NEW m \in Node, m # n, NEW h \in Nat, Unused(m, h) PROVE Unused(m, h)'
        <4>1. \A y \in sess'[m] : y.key # h
          BY <2>3, <3>6 DEF Unused
        <4>. QED
          BY <2>2, <3>3, <3>6, <4>1 DEF Unused
      <3>. QED
        BY <3>5, <3>6 DEF UnusedKept
    <2>. QED
      BY <1>14, <2>4, <2>5, OpenContinues
  <1>15. ASSUME NEW n \in Node, Duplicate(n) PROVE UnusedKept
    BY <1>15 DEF Duplicate, Types, Unused, UnusedKept
  <1>16. ASSUME NEW n \in Node, on_peer_disconnected(n) PROVE UnusedKept
    BY <1>16 DEF on_peer_disconnected, forget_peer, Types, Unused, UnusedKept
  <1>17. ASSUME NEW n \in Node, Publish(n) PROVE UnusedKept
    BY <1>17 DEF Publish, Types, Unused, UnusedKept
  <1>18. ASSUME NEW n \in Node, on_admission_published(n) PROVE UnusedKept
    BY <1>18 DEF on_admission_published, forget_peer, Sever, barrier, Types, Unused, UnusedKept
  <1>19. ASSUME Cut PROVE UnusedKept
    BY <1>19 DEF Cut, Sever, Types, Unused, UnusedKept
  <1>20. CASE UNCHANGED secureVars
    BY <1>20 DEF secureVars, Types, Unused, UnusedKept
  <1>. QED
    BY <1>1, <1>2, <1>3, <1>4, <1>5, <1>6, <1>7, <1>8, <1>9, <1>10, <1>11, <1>12, <1>13, <1>14,
       <1>15, <1>16, <1>17, <1>18, <1>19, <1>20 DEF SecureNext

\* There is one result to install at a time.
LEMMA OneResultStep == ASSUME Types, OneResult, [SecureNext]_secureVars PROVE OneResult'
  <1>. USE DEF Node, Peer, sessionVars, gateVars
  <1>1. ASSUME NEW n \in Node, RequestSession(n) PROVE OneResult'
    BY <1>1 DEF RequestSession, reserve_pending, Types, OneResult
  <1>2. ASSUME NEW n \in Node, Renegotiate(n) PROVE OneResult'
    BY <1>2 DEF Renegotiate, reserve_pending, Types, OneResult
  <1>3. ASSUME NEW n \in Node, Burst(n) PROVE OneResult'
    BY <1>3 DEF Burst, reserve_pending, Types, OneResult
  <1>4. ASSUME NEW n \in Node, Drive(n) PROVE OneResult'
    BY <1>4 DEF Drive, Send2, Auth, Types, OneResult
  <1>5. ASSUME NEW n \in Node, DriveFails(n) PROVE OneResult'
    BY <1>5 DEF DriveFails, Sever, Types, OneResult
  <1>6. ASSUME NEW n \in Node, Expire(n) PROVE OneResult'
    BY <1>6 DEF Expire, Types, OneResult
  <1>7. ASSUME NEW n \in Node, Settle(n) PROVE OneResult'
    BY <1>7 DEF Settle, Types, OneResult
  <1>8. ASSUME NEW n \in Node, OnAuthPending(n) PROVE OneResult'
    <2>1. PICK p \in taken(n) : installing' = [installing EXCEPT ![n] =
              IF Head(wire[n]).h = p.h /\ Head(wire[n]).step = p.step
              THEN {[h |-> p.h, phase |-> "ask", conn |-> epoch]} ELSE {}]
      BY <1>8 DEF OnAuthPending
    <2>. QED
      BY <2>1 DEF OneResult, Types
  <1>9. ASSUME NEW n \in Node, OnAuthOpener(n) PROVE OneResult'
    BY <1>9 DEF OnAuthOpener, Reading, taken, opener_refused, Consume, Auth, Types, OneResult
  <1>10. ASSUME NEW n \in Node, InstallAsk(n) PROVE OneResult'
    <2>1. CASE denied[n]
      BY <1>10, <2>1 DEF InstallAsk, OneResult, Types
    <2>2. CASE ~denied[n]
      <3>1. installing' = [installing EXCEPT ![n] = {[i EXCEPT !.phase = "insert"] : i \in @}]
        BY <1>10, <2>2 DEF InstallAsk
      <3>2. ASSUME NEW j \in installing'[n], NEW k \in installing'[n] PROVE j = k
        <4>1. PICK i \in installing[n] : j = [i EXCEPT !.phase = "insert"]
          BY <3>1 DEF Types
        <4>2. PICK l \in installing[n] : k = [l EXCEPT !.phase = "insert"]
          BY <3>1 DEF Types
        <4>. QED
          BY <4>1, <4>2 DEF OneResult
      <3>. QED
        BY <3>1, <3>2 DEF OneResult, Types
    <2>. QED
      BY <2>1, <2>2
  <1>11. ASSUME NEW n \in Node, InstallInsert(n) PROVE OneResult'
    <2>1. installing' = [installing EXCEPT ![n] = {[i EXCEPT !.phase = "out"] : i \in @}]
      BY <1>11 DEF InstallInsert
    <2>2. ASSUME NEW j \in installing'[n], NEW k \in installing'[n] PROVE j = k
      <3>1. PICK i \in installing[n] : j = [i EXCEPT !.phase = "out"]
        BY <2>1 DEF Types
      <3>2. PICK l \in installing[n] : k = [l EXCEPT !.phase = "out"]
        BY <2>1 DEF Types
      <3>. QED
        BY <3>1, <3>2 DEF OneResult
    <2>. QED
      BY <2>1, <2>2 DEF OneResult, Types
  <1>12. ASSUME NEW n \in Node, InstallOut(n) PROVE OneResult'
    BY <1>12 DEF InstallOut, Send2, Auth, Types, OneResult
  <1>13. ASSUME NEW n \in Node, Seal(n) PROVE OneResult'
    BY <1>13 DEF Seal, Send2, Data, next_send_seq, Types, OneResult
  <1>14. ASSUME NEW n \in Node, Open(n) PROVE OneResult'
    BY <1>14 DEF Open, Reading, Consume, after_open, accept_recv_seq, Types, OneResult
  <1>15. ASSUME NEW n \in Node, Duplicate(n) PROVE OneResult'
    BY <1>15 DEF Duplicate, Types, OneResult
  <1>16. ASSUME NEW n \in Node, on_peer_disconnected(n) PROVE OneResult'
    BY <1>16 DEF on_peer_disconnected, forget_peer, Types, OneResult
  <1>17. ASSUME NEW n \in Node, Publish(n) PROVE OneResult'
    BY <1>17 DEF Publish, Types, OneResult
  <1>18. ASSUME NEW n \in Node, on_admission_published(n) PROVE OneResult'
    BY <1>18 DEF on_admission_published, forget_peer, Sever, barrier, Types, OneResult
  <1>19. ASSUME Cut PROVE OneResult'
    BY <1>19 DEF Cut, Sever, Types, OneResult
  <1>20. CASE UNCHANGED secureVars
    BY <1>20 DEF secureVars, Types, OneResult
  <1>. QED
    BY <1>1, <1>2, <1>3, <1>4, <1>5, <1>6, <1>7, <1>8, <1>9, <1>10, <1>11, <1>12, <1>13, <1>14,
       <1>15, <1>16, <1>17, <1>18, <1>19, <1>20 DEF SecureNext

\* A step that makes no engine and starts no installation keeps both.
Narrows == /\ hs' = hs
           /\ \A m \in Node : \A q \in pend'[m] : q.h = 0 \/ \E p \in pend[m] : q.h = p.h
           /\ \A m \in Node : \A j \in installing'[m] : \E i \in installing[m] :
                 j.h = i.h /\ (j.phase # "out" => i.phase # "out")

\* Such a step keeps the numbers and the places.
LEMMA NarrowsKeeps ==
  ASSUME Types, Types', Numbered, OnceEach, UnusedKept, WireKept, Narrows PROVE Numbered' /\ OnceEach'
  <1>0. /\ hs \in Nat /\ hs' = hs
        /\ \A m \in Node : \A p \in pend[m] : p.h \in Nat
        /\ \A m \in Node : \A i \in installing[m] : i.h \in Nat
    BY DEF Types, Pending, Result, Narrows
  <1>1. ASSUME NEW m \in Node, NEW h \in Nat, h > hs PROVE Unused(m, h)'
    BY <1>0, <1>1 DEF Numbered, UnusedKept
  <1>2. ASSUME NEW m \in Node, NEW q \in pend'[m]
        PROVE q.h <= hs /\ (q.h # 0 => Unused(m, q.h)' /\ \A j \in installing'[m] : j.h # q.h)
    <2>1. CASE q.h = 0
      BY <1>0, <2>1
    <2>2. ASSUME NEW p \in pend[m], q.h = p.h, q.h # 0
          PROVE q.h <= hs /\ Unused(m, q.h)' /\ \A j \in installing'[m] : j.h # q.h
      <3>1. p.h \in Nat /\ p.h <= hs
        BY <1>0 DEF Numbered
      <3>2. Unused(m, p.h) /\ \A i \in installing[m] : i.h # p.h
        BY <2>2 DEF OnceEach
      <3>3. Unused(m, p.h)'
        BY <3>1, <3>2 DEF UnusedKept
      <3>4. \A j \in installing'[m] : j.h # p.h
        BY <3>2 DEF Narrows
      <3>. QED
        BY <2>2, <3>1, <3>3, <3>4
    <2>. QED
      BY <2>1, <2>2 DEF Narrows
  <1>3. ASSUME NEW m \in Node, NEW j \in installing'[m]
        PROVE j.h <= hs /\ (j.phase # "out" => Unused(m, j.h)')
    <2>1. PICK i \in installing[m] : j.h = i.h /\ (j.phase # "out" => i.phase # "out")
      BY DEF Narrows
    <2>2. i.h \in Nat /\ i.h <= hs
      BY <1>0 DEF Numbered
    <2>3. j.phase # "out" => Unused(m, i.h)
      BY <2>1 DEF OnceEach
    <2>. QED
      BY <2>1, <2>2, <2>3 DEF UnusedKept
  <1>4. ASSUME NEW m \in Node PROVE OpensOnce(wire'[m]) /\ KnownUpTo(wire'[m], hs')
    BY DEF WireKept
  <1>5. ASSUME NEW m \in Node, NEW h \in Nat, Opens(wire'[m], h)
        PROVE /\ h # 0 /\ Unused(m, h)'
              /\ \A q \in pend'[m] : q.h # h
              /\ \A j \in installing'[m] : j.h # h
    <2>1. Opens(wire[m], h)
      BY <1>0, <1>5 DEF WireKept
    <2>2. /\ h # 0 /\ Unused(m, h)
          /\ \A p \in pend[m] : p.h # h
          /\ \A i \in installing[m] : i.h # h
      BY <2>1 DEF OnceEach
    <2>. QED
      BY <2>2 DEF UnusedKept, Narrows
  <1>6. Numbered'
    BY <1>0, <1>1, <1>2, <1>3, <1>4 DEF Numbered
  <1>7. OnceEach'
    BY <1>2, <1>3, <1>4, <1>5 DEF OnceEach
  <1>. QED
    BY <1>6, <1>7

\* Every step keeps a handshake without a key in one place.
LEMMA FreshStep == ASSUME Types, Types', Numbered, OnceEach, OneResult, UnusedKept, WireKept, [SecureNext]_secureVars PROVE Numbered' /\ OnceEach'
  <1>. USE DEF Node, Peer, sessionVars, gateVars
  <1>1. ASSUME NEW n \in Node, RequestSession(n) PROVE Numbered' /\ OnceEach'
    <2>1. hs' = hs /\ installing' = installing /\ pend' = [pend EXCEPT ![n] = {[h |-> 0, step |-> 0, stale |-> FALSE]}]
      BY <1>1 DEF RequestSession, reserve_pending
    <2>2. \A q \in pend'[n] : q.h = 0
      BY <2>1 DEF Types
    <2>3. Narrows
      BY <2>1, <2>2 DEF Narrows, Types
    <2>. QED
      BY <2>3, NarrowsKeeps
  <1>2. ASSUME NEW n \in Node, Renegotiate(n) PROVE Numbered' /\ OnceEach'
    <2>1. hs' = hs /\ installing' = installing /\ pend' = [pend EXCEPT ![n] = {[h |-> 0, step |-> 0, stale |-> FALSE]}]
      BY <1>2 DEF Renegotiate, reserve_pending
    <2>2. \A q \in pend'[n] : q.h = 0
      BY <2>1 DEF Types
    <2>3. Narrows
      BY <2>1, <2>2 DEF Narrows, Types
    <2>. QED
      BY <2>3, NarrowsKeeps
  <1>3. ASSUME NEW n \in Node, Burst(n) PROVE Numbered' /\ OnceEach'
    <2>1. hs' = hs /\ installing' = installing /\ pend' = [pend EXCEPT ![n] = {[h |-> 0, step |-> 0, stale |-> FALSE]}]
      BY <1>3 DEF Burst, reserve_pending
    <2>2. \A q \in pend'[n] : q.h = 0
      BY <2>1 DEF Types
    <2>3. Narrows
      BY <2>1, <2>2 DEF Narrows, Types
    <2>. QED
      BY <2>3, NarrowsKeeps
  <1>4. ASSUME NEW n \in Node, Drive(n) PROVE Numbered' /\ OnceEach'
    <2>1. \A m \in Node : \A h \in Nat : Unused(m, h)' <=> Unused(m, h)
      BY <1>4 DEF Drive, Unused
    <2>2. /\ hs \in Nat /\ pend \in [Node -> SUBSET Pending] /\ installing \in [Node -> SUBSET Result]
          /\ wire \in [Node -> Seq(Frame)]
          /\ \A m \in Node : OpensOnce(wire'[m]) /\ KnownUpTo(wire'[m], hs')
      BY DEF Types, WireKept
    <2>3. /\ hs' = hs + 1 /\ installing' = installing
          /\ pend' = [pend EXCEPT ![n] = {[h |-> hs + 1, step |-> 2, stale |-> FALSE]}]
      BY <1>4 DEF Drive
    <2>4. wire'[n] = wire[n]
      BY <1>4, <2>2 DEF Drive, Send2
    <2>5. ASSUME NEW m \in Node
          PROVE /\ \A q \in pend'[m] : q.h = hs + 1 \/ q \in pend[m]
                /\ \A p \in pend[m] : p.h \in Nat /\ p.h <= hs
                /\ \A i \in installing[m] : i.h \in Nat /\ i.h <= hs
                /\ Unused(m, hs + 1)
                /\ ~Opens(wire[m], hs + 1)
      <3>1. \A q \in pend'[m] : q.h = hs + 1 \/ q \in pend[m]
        BY <2>2, <2>3
      <3>2. /\ \A p \in pend[m] : p.h \in Nat /\ p.h <= hs
            /\ \A i \in installing[m] : i.h \in Nat /\ i.h <= hs
        BY <2>2 DEF Numbered, Pending, Result
      <3>3. Unused(m, hs + 1)
        BY <2>2 DEF Numbered
      <3>4. ~Opens(wire[m], hs + 1)
        BY <2>2 DEF Numbered, KnownUpTo, Opens
      <3>. QED
        BY <3>1, <3>2, <3>3, <3>4
    <2>6. Numbered'
      BY <2>1, <2>2, <2>3, <2>5 DEF Numbered
    <2>7. ASSUME NEW m \in Node, NEW h \in Nat, Opens(wire'[m], h)
          PROVE /\ h # 0 /\ Unused(m, h)'
                /\ \A q \in pend'[m] : q.h # h
                /\ \A i \in installing'[m] : i.h # h
      <3>1. CASE h = hs + 1
        <4>1. m # n
          BY <2>4, <2>5, <2>7, <3>1
        <4>2. pend'[m] = pend[m]
          BY <2>2, <2>3, <4>1
        <4>. QED
          BY <2>1, <2>2, <2>3, <2>5, <3>1, <4>2
      <3>2. CASE h # hs + 1
        <4>1. Opens(wire[m], h)
          BY <2>7, <3>2 DEF WireKept
        <4>2. /\ h # 0 /\ Unused(m, h)
              /\ \A p \in pend[m] : p.h # h
              /\ \A i \in installing[m] : i.h # h
          BY <4>1 DEF OnceEach
        <4>. QED
          BY <2>1, <2>3, <2>5, <3>2, <4>2
      <3>. QED
        BY <3>1, <3>2
    <2>8. ASSUME NEW m \in Node, NEW q \in pend'[m], q.h # 0
          PROVE Unused(m, q.h)' /\ \A i \in installing'[m] : i.h # q.h
      <3>1. CASE q.h = hs + 1
        BY <2>1, <2>2, <2>3, <2>5, <3>1
      <3>2. CASE q \in pend[m]
        BY <2>1, <2>3, <2>5, <2>8, <3>2 DEF OnceEach
      <3>. QED
        BY <2>5, <3>1, <3>2
    <2>9. \A m \in Node : \A i \in installing'[m] : i.phase # "out" => Unused(m, i.h)'
      BY <2>1, <2>3, <2>5 DEF OnceEach
    <2>10. OnceEach'
      BY <2>2, <2>7, <2>8, <2>9 DEF OnceEach
    <2>. QED
      BY <2>6, <2>10
  <1>5. ASSUME NEW n \in Node, DriveFails(n) PROVE Numbered' /\ OnceEach'
    <2>1. Narrows
      BY <1>5 DEF Narrows, Types, DriveFails
    <2>. QED
      BY <2>1, NarrowsKeeps
  <1>6. ASSUME NEW n \in Node, Expire(n) PROVE Numbered' /\ OnceEach'
    <2>1. hs' = hs /\ installing' = installing /\ pend' = [pend EXCEPT ![n] = {[p EXCEPT !.stale = TRUE] : p \in @}]
      BY <1>6 DEF Expire
    <2>2. \A p \in pend[n] : [p EXCEPT !.stale = TRUE].h = p.h
      BY DEF Types, Pending
    <2>3. ASSUME NEW q \in pend'[n] PROVE \E p \in pend[n] : q.h = p.h
      <3>1. PICK p \in pend[n] : q = [p EXCEPT !.stale = TRUE]
        BY <2>1 DEF Types
      <3>. QED
        BY <2>2, <3>1
    <2>4. Narrows
      BY <2>1, <2>3 DEF Narrows, Types
    <2>. QED
      BY <2>4, NarrowsKeeps
  <1>7. ASSUME NEW n \in Node, Settle(n) PROVE Numbered' /\ OnceEach'
    <2>1. Narrows
      BY <1>7 DEF Narrows, Types, Settle
    <2>. QED
      BY <2>1, NarrowsKeeps
  <1>8. ASSUME NEW n \in Node, OnAuthPending(n) PROVE Numbered' /\ OnceEach'
    <2>1. \A m \in Node : \A h \in Nat : Unused(m, h)' <=> Unused(m, h)
      BY <1>8 DEF OnAuthPending, Unused
    <2>2. /\ hs \in Nat /\ pend \in [Node -> SUBSET Pending] /\ installing \in [Node -> SUBSET Result]
          /\ wire \in [Node -> Seq(Frame)]
          /\ \A m \in Node : OpensOnce(wire'[m]) /\ KnownUpTo(wire'[m], hs')
      BY DEF Types, WireKept
    <2>3. PICK p \in taken(n) : installing' = [installing EXCEPT ![n] =
              IF Head(wire[n]).h = p.h /\ Head(wire[n]).step = p.step
              THEN {[h |-> p.h, phase |-> "ask", conn |-> epoch]} ELSE {}]
      BY <1>8 DEF OnAuthPending
    <2>4. /\ p \in pend[n] /\ p.h # 0 /\ p.h \in Nat /\ hs' = hs
          /\ pend' = [pend EXCEPT ![n] = {}]
      BY <1>8, <2>2 DEF OnAuthPending, taken, Pending
    <2>5. \A j \in installing'[n] : j.h = p.h
      BY <2>2, <2>3
    <2>6. /\ pend'[n] = {}
          /\ \A m \in Node : m # n => pend'[m] = pend[m] /\ installing'[m] = installing[m]
      BY <2>2, <2>3, <2>4
    <2>7. Unused(n, p.h) /\ p.h <= hs
      BY <2>4 DEF OnceEach, Numbered
    <2>8. Numbered'
      BY <2>1, <2>2, <2>4, <2>5, <2>6, <2>7 DEF Numbered
    <2>9. ASSUME NEW m \in Node, NEW h \in Nat, Opens(wire'[m], h)
          PROVE /\ h # 0 /\ Unused(m, h)'
                /\ \A q \in pend'[m] : q.h # h
                /\ \A i \in installing'[m] : i.h # h
      <3>1. Opens(wire[m], h)
        BY <2>2, <2>4, <2>9 DEF WireKept
      <3>2. /\ h # 0 /\ Unused(m, h)
            /\ \A q \in pend[m] : q.h # h
            /\ \A i \in installing[m] : i.h # h
        BY <3>1 DEF OnceEach
      <3>. QED
        BY <2>1, <2>4, <2>5, <2>6, <3>2
    <2>10. \A m \in Node : \A i \in installing'[m] : i.phase # "out" => Unused(m, i.h)'
      BY <2>1, <2>2, <2>4, <2>5, <2>6, <2>7 DEF OnceEach, Result
    <2>11. \A m \in Node : \A q \in pend'[m] : q.h # 0 => Unused(m, q.h)' /\ \A i \in installing'[m] : i.h # q.h
      BY <2>1, <2>2, <2>6 DEF OnceEach, Pending
    <2>12. OnceEach'
      BY <2>2, <2>9, <2>10, <2>11 DEF OnceEach
    <2>. QED
      BY <2>8, <2>12
  <1>9. ASSUME NEW n \in Node, OnAuthOpener(n) PROVE Numbered' /\ OnceEach'
    <2>. DEFINE f == Head(wire[n])
    <2>a. hs' = hs /\ installing' = installing /\ installing[n] = {}
      BY <1>9 DEF OnAuthOpener, Reading
    <2>b. CASE opener_refused(n, f)
      <3>1. pend' = [pend EXCEPT ![n] = {}]
        BY <1>9, <2>b DEF OnAuthOpener
      <3>2. Narrows
        BY <2>a, <3>1 DEF Narrows, Types
      <3>. QED
        BY <3>2, NarrowsKeeps
    <2>c. CASE ~opener_refused(n, f)
      <3>1. \A m \in Node : \A h \in Nat : Unused(m, h)' <=> Unused(m, h)
        BY <1>9 DEF OnAuthOpener, Unused
      <3>2. /\ hs \in Nat /\ pend \in [Node -> SUBSET Pending] /\ installing \in [Node -> SUBSET Result]
            /\ wire \in [Node -> Seq(Frame)]
            /\ \A m \in Node : OpensOnce(wire'[m]) /\ KnownUpTo(wire'[m], hs')
        BY DEF Types, WireKept
      <3>3. /\ pend' = [pend EXCEPT ![n] = {[h |-> f.h, step |-> 3, stale |-> FALSE]}]
            /\ wire' = [wire EXCEPT ![n] = Tail(@), ![Peer(n)] = Append(@, Auth(f.h, 2))]
            /\ wire[n] # <<>> /\ f.t = "auth" /\ f.step = 1
        BY <1>9, <2>c DEF OnAuthOpener, opener_refused, Reading
      <3>4. /\ wire[n] \in Seq(Frame) /\ f \in Frame /\ f = wire[n][1] /\ 1 \in 1..Len(wire[n])
            /\ wire'[n] = Tail(wire[n]) /\ Opener(f)
        <4>1. wire[n] \in Seq(Frame) /\ f \in Frame /\ f = wire[n][1] /\ 1 \in 1..Len(wire[n])
          BY <3>2, <3>3, TailKeeps
        <4>2. Peer(n) # n
          OBVIOUS
        <4>3. wire'[n] = Tail(wire[n])
          BY <3>2, <3>3, <4>2
        <4>. QED
          BY <3>3, <4>1, <4>3 DEF Opener
      <3>5. f.h \in Nat /\ Opens(wire[n], f.h) /\ f.h <= hs
        BY <3>4 DEF Frame, Opens, Numbered, KnownUpTo
      <3>6. ~Opens(wire'[n], f.h)
        BY <3>2, <3>3, <3>4, TailOpens DEF OnceEach
      <3>7. Unused(n, f.h)
        BY <3>5 DEF OnceEach
      <3>8. /\ \A q \in pend'[n] : q.h = f.h
            /\ \A m \in Node : m # n => pend'[m] = pend[m]
        BY <3>2, <3>3
      <3>. HIDE DEF f
      <3>9. Numbered'
        BY <2>a, <3>1, <3>2, <3>5, <3>8 DEF Numbered
      <3>10. ASSUME NEW m \in Node, NEW h \in Nat, Opens(wire'[m], h)
             PROVE /\ h # 0 /\ Unused(m, h)'
                   /\ \A q \in pend'[m] : q.h # h
                   /\ \A i \in installing'[m] : i.h # h
        <4>1. Opens(wire[m], h)
          BY <2>a, <3>2, <3>10 DEF WireKept
        <4>2. /\ h # 0 /\ Unused(m, h)
              /\ \A q \in pend[m] : q.h # h
              /\ \A i \in installing[m] : i.h # h
          BY <4>1 DEF OnceEach
        <4>3. m = n => h # f.h
          BY <3>6, <3>10
        <4>. QED
          BY <2>a, <3>1, <3>8, <4>2, <4>3
      <3>11. \A m \in Node : \A i \in installing'[m] : i.phase # "out" => Unused(m, i.h)'
        BY <2>a, <3>1, <3>2 DEF OnceEach, Result
      <3>12. \A m \in Node : \A q \in pend'[m] : q.h # 0 => Unused(m, q.h)' /\ \A i \in installing'[m] : i.h # q.h
        BY <2>a, <3>1, <3>2, <3>5, <3>7, <3>8 DEF OnceEach, Pending
      <3>13. OnceEach'
        BY <3>2, <3>10, <3>11, <3>12 DEF OnceEach
      <3>. QED
        BY <3>9, <3>13
    <2>. QED
      BY <2>b, <2>c
  <1>10. ASSUME NEW n \in Node, InstallAsk(n) PROVE Numbered' /\ OnceEach'
    <2>1. hs' = hs /\ pend' = pend
      BY <1>10 DEF InstallAsk
    <2>2. \A i \in installing[n] : i.phase = "ask"
      BY <1>10 DEF InstallAsk, OneResult
    <2>3. CASE denied[n]
      <3>1. Narrows
        BY <1>10, <2>1, <2>3 DEF InstallAsk, Narrows, Types
      <3>. QED
        BY <3>1, NarrowsKeeps
    <2>4. CASE ~denied[n]
      <3>2. \A m \in Node : \A j \in installing'[m] : \E i \in installing[m] :
                /\ j.h = i.h /\ j.conn = i.conn
                /\ j.phase = (IF m = n THEN "insert" ELSE i.phase)
        BY <1>10, <2>4, AskKeeps
      <3>3. Narrows
        BY <2>1, <2>2, <3>2 DEF Narrows
      <3>. QED
        BY <3>3, NarrowsKeeps
    <2>. QED
      BY <2>3, <2>4
  <1>11. ASSUME NEW n \in Node, InstallInsert(n) PROVE Numbered' /\ OnceEach'
    <2>1. hs' = hs /\ pend' = pend
      BY <1>11 DEF InstallInsert
    <2>2. \A m \in Node : \A j \in installing'[m] : \E i \in installing[m] :
              /\ j.h = i.h /\ j.conn = i.conn
              /\ j.phase = (IF m = n THEN "out" ELSE i.phase)
      BY <1>11, InsertReplaces
    <2>3. Narrows
      BY <2>1, <2>2 DEF Narrows
    <2>. QED
      BY <2>3, NarrowsKeeps
  <1>12. ASSUME NEW n \in Node, InstallOut(n) PROVE Numbered' /\ OnceEach'
    <2>1. Narrows
      BY <1>12 DEF Narrows, Types, InstallOut
    <2>. QED
      BY <2>1, NarrowsKeeps
  <1>13. ASSUME NEW n \in Node, Seal(n) PROVE Numbered' /\ OnceEach'
    <2>1. Narrows
      BY <1>13 DEF Narrows, Types, Seal
    <2>. QED
      BY <2>1, NarrowsKeeps
  <1>14. ASSUME NEW n \in Node, Open(n) PROVE Numbered' /\ OnceEach'
    <2>1. Narrows
      BY <1>14 DEF Narrows, Types, Open
    <2>. QED
      BY <2>1, NarrowsKeeps
  <1>15. ASSUME NEW n \in Node, Duplicate(n) PROVE Numbered' /\ OnceEach'
    <2>1. Narrows
      BY <1>15 DEF Narrows, Types, Duplicate
    <2>. QED
      BY <2>1, NarrowsKeeps
  <1>16. ASSUME NEW n \in Node, on_peer_disconnected(n) PROVE Numbered' /\ OnceEach'
    <2>1. Narrows
      BY <1>16 DEF Narrows, Types, on_peer_disconnected, forget_peer
    <2>. QED
      BY <2>1, NarrowsKeeps
  <1>17. ASSUME NEW n \in Node, Publish(n) PROVE Numbered' /\ OnceEach'
    <2>1. Narrows
      BY <1>17 DEF Narrows, Types, Publish
    <2>. QED
      BY <2>1, NarrowsKeeps
  <1>18. ASSUME NEW n \in Node, on_admission_published(n) PROVE Numbered' /\ OnceEach'
    <2>1. Narrows
      BY <1>18 DEF Narrows, Types, on_admission_published, forget_peer
    <2>. QED
      BY <2>1, NarrowsKeeps
  <1>19. ASSUME Cut PROVE Numbered' /\ OnceEach'
    <2>1. Narrows
      BY <1>19 DEF Narrows, Types, Cut
    <2>. QED
      BY <2>1, NarrowsKeeps
  <1>20. CASE UNCHANGED secureVars
    <2>1. Narrows
      BY <1>20 DEF secureVars, Narrows
    <2>. QED
      BY <2>1, NarrowsKeeps
  <1>. QED
    BY <1>1, <1>2, <1>3, <1>4, <1>5, <1>6, <1>7, <1>8, <1>9, <1>10, <1>11, <1>12, <1>13, <1>14,
       <1>15, <1>16, <1>17, <1>18, <1>19, <1>20 DEF SecureNext

\* The transport starts with empty tables.
LEMMA InitOK == SecureInit => IInv
  <1>. SUFFICES ASSUME SecureInit PROVE IInv
    OBVIOUS
  <1>1. Types
    BY DEF SecureInit, Types, Node
  <1>2. GateClosed /\ OfThisConnection /\ Counted /\ OneResult
    BY DEF SecureInit, GateClosed, OfThisConnection, Counted, OneResult, Node
  <1>3. Numbered /\ OnceEach
    <2>1. \A m \in Node : \A h \in Nat : Unused(m, h)
      BY DEF SecureInit, Unused
    <2>. QED
      BY <1>1, <2>1, EmptyOpens DEF SecureInit, Numbered, OnceEach
  <1>4. SealedInOrder /\ OpenedInOrder
    BY DEF SecureInit, SealedInOrder, OpenedInOrder, Ordered
  <1>. QED
    BY <1>1, <1>2, <1>3, <1>4 DEF IInv

\* Every step keeps the invariant.
LEMMA IInvStep == IInv /\ [SecureNext]_secureVars => IInv'
  <1>. SUFFICES ASSUME IInv, [SecureNext]_secureVars PROVE IInv'
    OBVIOUS
  <1>. USE DEF IInv
  <1>1. Types'
    BY TypesStep
  <1>2. GateClosed' /\ OfThisConnection' /\ Counted' /\ OneResult'
    BY GateStep, ConnectionStep, CountStep, OneResultStep
  <1>3. WireKept /\ UnusedKept
    BY WireStep, UnusedStep
  <1>4. Numbered' /\ OnceEach'
    BY <1>1, <1>3, FreshStep
  <1>5. SealedInOrder' /\ OpenedInOrder'
    BY OrderStep
  <1>. QED
    BY <1>1, <1>2, <1>4, <1>5

\* A sequence ordered under each key repeats no entry.
LEMMA OrderedIsDistinct ==
  ASSUME NEW q \in Seq(Nat \X Nat), Ordered(q) PROVE \A i, j \in 1..Len(q) : i # j => q[i] # q[j]
  <1>1. ASSUME NEW i \in 1..Len(q), NEW j \in 1..Len(q), i < j PROVE q[i] # q[j]
    <2>1. q[i][2] \in Nat /\ q[j][2] \in Nat
      OBVIOUS
    <2>2. q[i][1] = q[j][1] => q[i][2] < q[j][2]
      BY <1>1 DEF Ordered
    <2>. QED
      BY <2>1, <2>2
  <1>. QED
    BY <1>1

\* Secure sessions keep the verdicts, their order, their nonces and their
\* connection, through races of reader, installer, listener and application
\* threads and cuts of the link (install, AdmissionGate::barrier, next_send_seq,
\* accept_recv_seq, forget_peer in core/secure_transport.hpp).
THEOREM SessionsKeepVerdictsHolds == SecureSpec => []SessionsKeepVerdicts
  <1>1. IInv => SessionsKeepVerdicts
    <2>. SUFFICES ASSUME IInv PROVE SessionsKeepVerdicts
      OBVIOUS
    <2>1. DeniedHasNoSession
      BY DEF IInv, GateClosed, DeniedHasNoSession
    <2>2. SessionOfThisConnection
      BY DEF IInv, OfThisConnection, SessionOfThisConnection
    <2>3. NonceUsedOnce
      BY OrderedIsDistinct DEF IInv, Types, SealedInOrder, NonceUsedOnce
    <2>. QED
      BY <2>1, <2>2, <2>3 DEF IInv, SessionsKeepVerdicts
  <1>. QED
    BY <1>1, InitOK, IInvStep, PTL DEF SecureSpec

==============================================================================
