---------------------------- MODULE MailboxProofs ----------------------------
(* That the intrusive mailbox implements the FIFO queue with the Busy answer,  *)
(* for every set of producers and every finite set of descriptors.             *)
(*                                                                             *)
(* The links are read through a walk (Chain).  The proof carries a ghost       *)
(* sequence s instead of it: s starts at head_, ends at the tail, repeats      *)
(* nothing, and between two neighbours the link is written or in the hands of  *)
(* the one thread that is about to write it (Linked).  What the producers hold *)
(* is outside s before their exchange and right behind their predecessor after *)
(* it (InHand), and the consumer's locals say where on s its attempt stands    *)
(* (Dequeuing).  Each access turns s into s, into its tail, or into s with one *)
(* node more; that the walk finds this very sequence is proved once, by        *)
(* induction on its length (WalkIs, ChainIs).                                  *)
EXTENDS Mailbox, FiniteSetTheorems, SequenceTheorems, WellFoundedInduction, TLAPS

\* Induction over the naturals for a set, from the well-foundedness of < on Nat:
\* the form of the principle whose instances the provers can use.
LEMMA NatSetInduction ==
  ASSUME NEW S, 0 \in S, \A n \in Nat : n \in S => n + 1 \in S
  PROVE  Nat \subseteq S
<1> DEFINE R == OpToRel(<, Nat)
           T == Nat \ S
<1>1. IsWellFoundedOn(R, Nat)
  BY NatLessThanWellFounded
<1>2. SUFFICES ASSUME T # {} PROVE FALSE
  OBVIOUS
<1>3. PICK x \in T : \A y \in T : ~(<<y, x>> \in R)
  <2> HIDE DEF R, T
  <2>1. T \subseteq Nat  BY DEF T
  <2> QED BY <1>1, <1>2, <2>1, WFMin
<1>4. x \in Nat /\ x # 0 /\ x - 1 \in Nat
  OBVIOUS
<1>5. x - 1 \in T
  BY <1>4
<1>6. <<x - 1, x>> \in R
  BY <1>4 DEF OpToRel
<1> QED BY <1>3, <1>5, <1>6

\* No node occurs twice.
Injective(s) == \A i, j \in 1..Len(s) : s[i] = s[j] => i = j

\* A sequence without repetitions is no longer than its set of values.
LEMMA InjectiveIsShort ==
  ASSUME NEW S, IsFiniteSet(S), NEW s \in Seq(S), Injective(s)
  PROVE  Cardinality(S) \in Nat /\ Len(s) <= Cardinality(S)
<1>1. Len(s) \in Nat /\ s \in [1..Len(s) -> S]
  OBVIOUS
<1>2. s \in Injection(1..Len(s), S)
  BY <1>1 DEF Injection, Injective, IsInjective
<1>3. IsFiniteSet(1..Len(s)) /\ Cardinality(1..Len(s)) = Len(s)
  BY SMTT(30), <1>1, FS_Interval
<1>4. Cardinality(1..Len(s)) <= Cardinality(S)
  BY <1>2, FS_Injection
<1> QED BY <1>3, <1>4, FS_CardinalityType

\* The recursive walk over the links (Chain) meets exactly the nodes of a
\* repetition-free sequence that starts at head, ends at tail and follows Succ:
\* by induction on the number of steps, which suffices because no such sequence
\* is longer than the set of nodes.
LEMMA WalkIs ==
  ASSUME NEW s \in Seq(Nodes), s # <<>>, Injective(s), IsFiniteSet(Nodes), None \notin Nodes,
         head = s[1], tail = s[Len(s)], \A i \in 1..(Len(s) - 1) : Succ(s[i]) = s[i + 1]
  PROVE  Chain = s
<1> DEFINE N == Cardinality(Nodes)
           Body(f, k) == IF k = 0 THEN <<head>>
                         ELSE IF f[k - 1][Len(f[k - 1])] \in {tail, None} THEN f[k - 1]
                         ELSE Append(f[k - 1], Succ(f[k - 1][Len(f[k - 1])]))
           Up(k) == IF k + 1 <= Len(s) THEN k + 1 ELSE Len(s)
           W == [k \in 0..N |-> [i \in 1..Up(k) |-> s[i]]]
           walk == CHOOSE f : f = [k \in 0..N |-> Body(f, k)]
<1>1. N \in Nat /\ Len(s) <= N /\ Len(s) \in Nat /\ Len(s) >= 1
  BY InjectiveIsShort
<1>2. Chain = walk[N]
  BY DEF Chain
<1>3. \A k \in 0..N : /\ Up(k) \in 1..Len(s)
                      /\ W[k] = [i \in 1..Up(k) |-> s[i]]
                      /\ W[k] \in Seq(Nodes) /\ Len(W[k]) = Up(k) /\ W[k][Up(k)] = s[Up(k)]
  <2> TAKE k \in 0..N
  <2>1. Up(k) \in 1..Len(s)
    BY <1>1
  <2>2. W[k] = [i \in 1..Up(k) |-> s[i]]
    OBVIOUS
  <2> HIDE DEF Up, W
  <2>3. Up(k) \in Nat /\ \A i \in 1..Up(k) : s[i] \in Nodes
    BY <2>1, <1>1
  <2>4. W[k] \in [1..Up(k) -> Nodes]
    BY <2>2, <2>3
  <2>5. W[k] \in Seq(Nodes) /\ Len(W[k]) = Up(k)
    BY SMTT(30), <2>4, <2>3
  <2> QED BY <2>1, <2>2, <2>5
<1>4. ASSUME NEW k \in 0..N PROVE W[k] = Body(W, k)
  <2>1. CASE k = 0
    <3>1. Up(0) = 1
      BY <1>1
    <3>2. W[0] \in Seq(Nodes) /\ Len(W[0]) = 1 /\ W[0][1] = s[1]
      BY <1>3, <3>1, <1>1
    <3> HIDE DEF W
    <3>3. W[0] = <<s[1]>>
      BY <3>2
    <3> QED BY <2>1, <3>3
  <2>2. CASE k # 0
    <3>1. k - 1 \in 0..N /\ k \in Nat /\ k >= 1
      BY <2>2, <1>1
    <3>2. /\ W[k - 1] = [i \in 1..Up(k - 1) |-> s[i]] /\ Len(W[k - 1]) = Up(k - 1)
          /\ W[k - 1][Up(k - 1)] = s[Up(k - 1)] /\ Up(k - 1) \in 1..Len(s) /\ W[k - 1] \in Seq(Nodes)
      BY <1>3, <3>1
    <3>3. W[k] = [i \in 1..Up(k) |-> s[i]] /\ Len(W[k]) = Up(k) /\ W[k] \in Seq(Nodes)
      BY <1>3
    <3>4. s[Up(k - 1)] # None
      BY <3>2, <1>1
    <3>5. CASE k + 1 <= Len(s)
      <4>1. Up(k - 1) = k /\ Up(k) = k + 1 /\ k \in 1..(Len(s) - 1) /\ k # Len(s)
        BY <3>5, <3>1, <1>1
      <4>2. s[k] # s[Len(s)]
        BY <4>1, <1>1 DEF Injective
      <4>3. Succ(s[k]) = s[k + 1] /\ s[k + 1] \in Nodes
        BY <4>1, <1>1
      <4> HIDE DEF W, Up
      <4>4. W[k] = Append(W[k - 1], s[k + 1])
        <5>1. Append(W[k - 1], s[k + 1]) \in Seq(Nodes) /\ Len(Append(W[k - 1], s[k + 1])) = k + 1
          BY <3>2, <4>1, <4>3
        <5>2. \A i \in 1..(k + 1) : Append(W[k - 1], s[k + 1])[i] = s[i]
          BY <3>2, <4>1, <4>3
        <5>3. \A i \in 1..(k + 1) : W[k][i] = s[i]
          BY <3>3, <4>1
        <5> QED BY <5>1, <5>2, <5>3, <3>3, <4>1, SeqEqual
      <4> QED BY <2>2, <3>2, <3>4, <4>1, <4>2, <4>3, <4>4
    <3>6. CASE ~(k + 1 <= Len(s))
      <4>1. Up(k - 1) = Len(s) /\ Up(k) = Len(s)
        BY <3>6, <3>1, <1>1
      <4> HIDE DEF W, Up
      <4>2. W[k] = W[k - 1]
        BY <4>1, <3>2, <3>3
      <4> QED BY <2>2, <4>1, <4>2, <3>2
    <3> QED BY <3>5, <3>6
  <2> QED BY <2>1, <2>2
<1>5. W = [k \in 0..N |-> Body(W, k)]
  <2> HIDE DEF Body
  <2> QED BY <1>4
<1>6. walk = [k \in 0..N |-> Body(walk, k)]
  <2> HIDE DEF Body, W
  <2> QED BY <1>5
<1>7. \A k \in 0..N : walk[k] = W[k]
  <2> DEFINE T == {n \in Nat : n <= N => walk[n] = W[n]}
  <2> HIDE DEF walk, W
  <2>1. 0 \in T
    BY <1>6, <1>5, <1>1
  <2>2. ASSUME NEW n \in Nat, n \in T PROVE n + 1 \in T
    <3>1. SUFFICES ASSUME n + 1 <= N PROVE walk[n + 1] = W[n + 1]
      OBVIOUS
    <3>2. walk[n] = W[n] /\ n + 1 \in 0..N /\ n + 1 # 0 /\ (n + 1) - 1 = n
      BY <2>2, <3>1, <1>1
    <3>3. Body(walk, n + 1) = Body(W, n + 1)
      BY <3>2
    <3> HIDE DEF Body
    <3> QED BY <3>3, <3>2, <1>5, <1>6
  <2> HIDE DEF T
  <2>3. Nat \subseteq T
    BY <2>1, <2>2, NatSetInduction
  <2> QED BY <2>3, <1>1 DEF T
<1>8. W[N] = s
  <2>1. Up(N) = Len(s)
    BY <1>1
  <2>2. N \in 0..N
    BY <1>1
  <2>3. W[N] = [i \in 1..Up(N) |-> s[i]] /\ W[N] \in Seq(Nodes) /\ Len(W[N]) = Up(N)
    BY <1>3, <2>2
  <2> HIDE DEF W, Up
  <2>4. \A i \in 1..Len(s) : W[N][i] = s[i]
    BY <2>1, <2>3
  <2> QED BY <2>1, <2>3, <2>4, SeqEqual
<1>9. N \in 0..N
  BY <1>1
<1> HIDE DEF walk, W, N
<1> QED BY <1>2, <1>7, <1>8, <1>9

-----------------------------------------------------------------------------
\* The nodes of a sequence.
On(s) == {s[i] : i \in 1..Len(s)}

\* Some thread is about to store the link from a to b.
Pending(a, b) == \/ \E p \in Producers : ppc[p] = "link" /\ pprev[p] = a /\ pnode[p] = b
                 \/ cpc = "rearm_link" /\ cprev = a /\ b = Stub

\* s is the chain: neighbours are linked, or the link is pending.
Linked(s) ==
    /\ s \in Seq(Nodes) /\ s # <<>> /\ Injective(s)
    /\ head = s[1] /\ tail = s[Len(s)] /\ next[s[Len(s)]] = None
    /\ \A i \in 1..(Len(s) - 1) :
          next[s[i]] = s[i + 1] \/ (next[s[i]] = None /\ Pending(s[i], s[i + 1]))

\* n and m are neighbours on s, and in nx the link between them is missing; Behind is
\* this of the present links.
Gap(nx, n, m, s) == \E i \in 1..(Len(s) - 1) : n = s[i] /\ m = s[i + 1] /\ nx[s[i]] = None
Behind(n, m, s) == \E i \in 1..(Len(s) - 1) : n = s[i] /\ m = s[i + 1] /\ next[s[i]] = None

\* Where each producer stands, and what the owner holds is off the chain.
InHand(s) ==
    /\ \A p \in Producers : ppc[p] = "idle" => pnode[p] = None
    /\ \A p \in Producers : ppc[p] # "idle" => pnode[p] \in Descriptors
    /\ \A p \in Producers : ppc[p] = "exchange" =>
          pnode[p] \notin On(s) /\ next[pnode[p]] = None /\ pnode[p] # held
    /\ \A p \in Producers : ppc[p] = "link" => Behind(pprev[p], pnode[p], s)
    /\ \A p, q \in Producers : pnode[p] = pnode[q] /\ pnode[p] # None => p = q
    /\ held \notin On(s)

\* Where the attempt stands: each place of try_dequeue, and what is known there.
Dequeuing(s) ==
    /\ cpc = "idle" => (status = "Empty" => head = Stub)
    /\ cpc # "idle" => (held = None /\ (MidPublish # {} => overlap))
    /\ cpc \in {"stub_tail", "skip"} => head = Stub
    /\ cpc \in {"decide", "rearm", "rearm_exchange", "rearm_link", "reload"} =>
          front = head /\ head # Stub
    /\ cpc = "skip" => cnext # None /\ cnext = next[head]
    /\ cpc = "decide" => cnext \in {None, next[head]}
    /\ (cpc = "stub_tail" \/ (cpc = "decide" /\ cnext = None)) => (overlap \/ Len(s) = 1)
    /\ cpc \in {"rearm", "rearm_exchange"} => Stub \notin On(s)
    /\ cpc = "rearm_exchange" => next[Stub] = None
    /\ cpc = "rearm_link" => Behind(cprev, Stub, s)
    /\ cpc = "reload" => Len(s) >= 2

\* What holds of the chain.
ChainInv(s) == Linked(s) /\ InHand(s) /\ Dequeuing(s)

\* The inductive invariant.
IInv == TypeOK /\ ChainInv(Chain)

-----------------------------------------------------------------------------
\* The nodes are finitely many, and nullptr is none of them.
LEMMA NodesAreFinite == IsFiniteSet(Nodes) /\ None \notin Nodes /\ Stub \in Nodes
<1>1. IsFiniteSet(Descriptors) /\ None \notin Nodes /\ Stub \in Nodes
  BY NodesAssumption DEF Nodes
<1>2. IsFiniteSet(Descriptors \cup {Stub})
  BY <1>1, FS_AddElement
<1> QED BY <1>1, <1>2 DEF Nodes

\* The successor of a node on the chain, whether its link is written, in the
\* hands of a producer (enqueue) or of the re-arming consumer (link_push of the
\* stub).
LEMMA SuccIs ==
  ASSUME NEW s, TypeOK, ChainInv(s), NEW i \in 1..(Len(s) - 1)
  PROVE  Succ(s[i]) = s[i + 1]
<1>1. s \in Seq(Nodes) /\ Len(s) \in Nat /\ i \in 1..Len(s) /\ i + 1 \in 1..Len(s) /\ s[i + 1] \in Nodes
  BY DEF ChainInv, Linked
<1>2. CASE next[s[i]] # None
  BY <1>1, <1>2 DEF ChainInv, Linked, Succ
<1>3. CASE next[s[i]] = None /\ \E p \in MidPublish : pprev[p] = s[i]
  <2> DEFINE q == CHOOSE p \in MidPublish : pprev[p] = s[i]
  <2>1. q \in MidPublish /\ pprev[q] = s[i]
    BY <1>3
  <2> HIDE DEF q
  <2>2. q \in Producers /\ ppc[q] = "link"
    BY <2>1 DEF MidPublish
  <2>3. PICK j \in 1..(Len(s) - 1) : pprev[q] = s[j] /\ pnode[q] = s[j + 1]
    BY <2>2 DEF ChainInv, InHand, Behind
  <2>4. j = i
    <3>1. Injective(s) /\ j \in 1..Len(s) /\ s[j] = s[i]
      BY <1>1, <2>1, <2>3 DEF ChainInv, Linked
    <3> QED BY <1>1, <3>1 DEF Injective
  <2>5. Succ(s[i]) = pnode[q]
    BY <1>3 DEF Succ, q
  <2> QED BY <2>3, <2>4, <2>5
<1>4. CASE next[s[i]] = None /\ ~\E p \in MidPublish : pprev[p] = s[i]
  <2>1. Pending(s[i], s[i + 1])
    BY <1>1, <1>4, NodesAreFinite DEF ChainInv, Linked
  <2>2. cpc = "rearm_link" /\ cprev = s[i] /\ s[i + 1] = Stub
    BY <2>1, <1>4 DEF Pending, MidPublish
  <2> QED BY <1>4, <2>2 DEF Succ
<1> QED BY <1>2, <1>3, <1>4

\* The walk over the links meets exactly the nodes of the ghost sequence.
LEMMA ChainIs == \A s : TypeOK /\ ChainInv(s) => Chain = s
<1> SUFFICES ASSUME NEW s, TypeOK, ChainInv(s) PROVE Chain = s
  OBVIOUS
<1>1. s \in Seq(Nodes) /\ s # <<>> /\ Injective(s) /\ head = s[1] /\ tail = s[Len(s)]
  BY DEF ChainInv, Linked
<1>2. \A i \in 1..(Len(s) - 1) : Succ(s[i]) = s[i + 1]
  BY SuccIs
<1> QED BY <1>1, <1>2, WalkIs, NodesAreFinite

\* The same in the next state.
LEMMA ChainIsNext == (\A s : TypeOK /\ ChainInv(s) => Chain = s)'
  BY ChainIs, PTL

-----------------------------------------------------------------------------
\* Where the stub does not occur nothing is taken out.
LEMMA NoStub ==
  ASSUME NEW s \in Seq(Nodes), Stub \notin On(s)
  PROVE  Unstubbed[s] = s
<1>1. s \in Seq(Nodes \cup {None})
  OBVIOUS
<1> QED BY <1>1 DEF Unstubbed, On

\* What taking the stub out leaves, by position.
LEMMA StubAt ==
  ASSUME NEW s \in Seq(Nodes), Injective(s), NEW k \in 1..Len(s), s[k] = Stub
  PROVE  Unstubbed[s] = [i \in 1..(Len(s) - 1) |-> IF i < k THEN s[i] ELSE s[i + 1]]
<1> DEFINE at == {i \in 1..Len(s) : s[i] = Stub}
           l == SubSeq(s, 1, k - 1)
           r == SubSeq(s, k + 1, Len(s))
<1>1. at = {k}
  BY DEF Injective
<1>2. (CHOOSE i \in at : TRUE) = k
  BY <1>1
<1>3. s \in Seq(Nodes \cup {None}) /\ Len(s) \in Nat /\ k \in Nat /\ k >= 1 /\ k <= Len(s)
  OBVIOUS
<1>4. Unstubbed[s] = l \o r
  BY <1>1, <1>2, <1>3 DEF Unstubbed
<1>5. l \in Seq(Nodes) /\ Len(l) = k - 1 /\ \A i \in 1..(k - 1) : l[i] = s[i]
  BY <1>3
<1>6. r \in Seq(Nodes) /\ Len(r) = Len(s) - k /\ \A i \in 1..(Len(s) - k) : r[i] = s[k + i]
  BY <1>3
<1> HIDE DEF l, r
<1>7. /\ l \o r \in Seq(Nodes) /\ Len(l \o r) = Len(l) + Len(r) /\ Len(l) + Len(r) = Len(s) - 1
      /\ \A i \in 1..Len(l) + Len(r) : (l \o r)[i] = IF i <= Len(l) THEN l[i] ELSE r[i - Len(l)]
  <2>1. l \in Seq(Nodes) /\ r \in Seq(Nodes) /\ Len(l) + Len(r) = Len(s) - 1
    BY <1>3, <1>5, <1>6
  <2> QED BY <2>1, ConcatProperties
<1>8. \A i \in 1..(Len(s) - 1) : (l \o r)[i] = IF i < k THEN s[i] ELSE s[i + 1]
  <2> TAKE i \in 1..(Len(s) - 1)
  <2>1. (l \o r)[i] = IF i <= Len(l) THEN l[i] ELSE r[i - Len(l)]
    BY <1>7
  <2>2. CASE i < k
    BY <2>1, <2>2, <1>3, <1>5
  <2>3. CASE ~(i < k)
    <3>1. i - Len(l) \in 1..(Len(s) - k) /\ k + (i - Len(l)) = i + 1 /\ ~(i <= Len(l))
      BY <2>3, <1>3, <1>5
    <3> QED BY <2>1, <2>3, <3>1, <1>6
  <2> QED BY <2>2, <2>3
<1>9. l \o r = [i \in 1..(Len(s) - 1) |-> (l \o r)[i]]
  <2> DEFINE m == l \o r
  <2> HIDE DEF m
  <2>1. m \in Seq(Nodes) /\ Len(m) = Len(s) - 1
    BY <1>7 DEF m
  <2>2. m = [i \in 1..Len(m) |-> m[i]]
    BY <2>1
  <2> QED BY <2>1, <2>2 DEF m
<1> QED BY <1>4, <1>8, <1>9

\* Without the stub a chain of nodes is a sequence of descriptors.
LEMMA UnstubbedIs ==
  ASSUME NEW s \in Seq(Nodes), Injective(s)
  PROVE  /\ Unstubbed[s] \in Seq(Descriptors)
         /\ On(Unstubbed[s]) = On(s) \ {Stub}
         /\ Len(Unstubbed[s]) = IF Stub \in On(s) THEN Len(s) - 1 ELSE Len(s)
<1>1. CASE Stub \notin On(s)
  <2>1. Unstubbed[s] = s
    BY <1>1, NoStub
  <2>2. \A i \in 1..Len(s) : s[i] \in Descriptors
    BY <1>1 DEF On, Nodes
  <2>3. s \in Seq(Descriptors)
    BY <2>2
  <2> QED BY <1>1, <2>1, <2>3 DEF On
<1>2. CASE Stub \in On(s)
  <2>1. PICK k \in 1..Len(s) : s[k] = Stub
    BY <1>2 DEF On
  <2> DEFINE u == [i \in 1..(Len(s) - 1) |-> IF i < k THEN s[i] ELSE s[i + 1]]
  <2>2. Unstubbed[s] = u
    BY <2>1, StubAt
  <2>3. Len(s) \in Nat /\ Len(s) >= 1 /\ Len(s) - 1 \in Nat /\ k \in Nat
    OBVIOUS
  <2>4. \A i \in 1..(Len(s) - 1) : u[i] \in Descriptors
    BY <2>1, <2>3 DEF Nodes, Injective
  <2>5. u \in Seq(Descriptors) /\ Len(u) = Len(s) - 1
    BY <2>3, <2>4
  <2>6. \A x : x \in On(u) => x \in On(s) \ {Stub}
    <3> TAKE x
    <3> HAVE x \in On(u)
    <3>1. PICK i \in 1..(Len(s) - 1) : x = u[i]
      BY <2>5 DEF On
    <3>2. x # Stub
      BY <3>1, <2>4, NodesAssumption
    <3>3. x \in On(s)
      BY <3>1, <2>3 DEF On
    <3> QED BY <3>2, <3>3
  <2>7. \A x : x \in On(s) \ {Stub} => x \in On(u)
    <3> TAKE x
    <3> HAVE x \in On(s) \ {Stub}
    <3>1. PICK i \in 1..Len(s) : x = s[i] /\ i # k
      BY <2>1 DEF On
    <3>2. CASE i < k
      <4>1. i \in 1..(Len(s) - 1) /\ u[i] = x
        BY <3>1, <3>2, <2>3
      <4> QED BY <4>1, <2>5 DEF On
    <3>3. CASE ~(i < k)
      <4>1. i - 1 \in 1..(Len(s) - 1) /\ u[i - 1] = x
        BY <3>1, <3>3, <2>3
      <4> HIDE DEF u
      <4> QED BY <4>1, <2>5 DEF On
    <3> QED BY <3>2, <3>3
  <2> QED BY <1>2, <2>2, <2>5, <2>6, <2>7
<1> QED BY <1>1, <1>2

\* What a tail exchange does to the chain and to the queue it stands for: a
\* descriptor joins both, the stub only the chain.
LEMMA UnstubbedAppend ==
  ASSUME NEW s \in Seq(Nodes), Injective(s), NEW d \in Nodes, d \notin On(s)
  PROVE  /\ Append(s, d) \in Seq(Nodes) /\ Injective(Append(s, d)) /\ On(Append(s, d)) = On(s) \cup {d}
         /\ d # Stub => Unstubbed[Append(s, d)] = Append(Unstubbed[s], d)
         /\ d = Stub => Unstubbed[Append(s, d)] = Unstubbed[s]
<1> DEFINE a == Append(s, d)
<1>1. /\ a \in Seq(Nodes) /\ Len(a) = Len(s) + 1 /\ Len(s) \in Nat /\ a[Len(s) + 1] = d
      /\ \A i \in 1..Len(s) : a[i] = s[i]
  OBVIOUS
<1> HIDE DEF a
<1>2. Injective(a)
  <2> SUFFICES ASSUME NEW i \in 1..Len(a), NEW j \in 1..Len(a), a[i] = a[j] PROVE i = j
    BY DEF Injective
  <2>1. CASE i <= Len(s) /\ j <= Len(s)
    BY <2>1, <1>1 DEF Injective
  <2>2. CASE i = Len(s) + 1 /\ j <= Len(s)
    BY <2>2, <1>1 DEF On
  <2>3. CASE i <= Len(s) /\ j = Len(s) + 1
    BY <2>3, <1>1 DEF On
  <2> QED BY <2>1, <2>2, <2>3, <1>1
<1>3. On(a) = On(s) \cup {d}
  <2>1. \A x : x \in On(a) => x \in On(s) \cup {d}
    BY <1>1 DEF On
  <2>2. \A x : x \in On(s) \cup {d} => x \in On(a)
    BY <1>1 DEF On
  <2> QED BY <2>1, <2>2
<1>4. ASSUME d # Stub, Stub \in On(s) PROVE Unstubbed[a] = Append(Unstubbed[s], d)
  <2>1. PICK k \in 1..Len(s) : s[k] = Stub
    BY <1>4 DEF On
  <2>2. Unstubbed[s] = [i \in 1..(Len(s) - 1) |-> IF i < k THEN s[i] ELSE s[i + 1]]
    BY <2>1, StubAt
  <2>3. k \in 1..Len(a) /\ a[k] = Stub
    BY <2>1, <1>1
  <2>4. Unstubbed[a] = [i \in 1..(Len(a) - 1) |-> IF i < k THEN a[i] ELSE a[i + 1]]
    BY <2>3, <1>1, <1>2, StubAt
  <2>5. Unstubbed[s] \in Seq(Descriptors) /\ Len(Unstubbed[s]) = Len(s) - 1 /\ d \in Descriptors
    BY <1>4, UnstubbedIs DEF Nodes
  <2>6. Unstubbed[a] \in Seq(Descriptors) /\ Len(Unstubbed[a]) = Len(s)
    BY <1>1, <1>2, <1>3, <1>4, UnstubbedIs
  <2>7. Append(Unstubbed[s], d) \in Seq(Descriptors) /\ Len(Append(Unstubbed[s], d)) = Len(s)
    BY <2>5, <1>1
  <2>8. ASSUME NEW i \in 1..Len(s) PROVE Unstubbed[a][i] = Append(Unstubbed[s], d)[i]
    <3>1. CASE i = Len(s)
      <4>1. Unstubbed[a][i] = d
        BY <3>1, <2>4, <2>1, <1>1
      <4>2. Append(Unstubbed[s], d)[i] = d
        BY <3>1, <2>5, <1>1
      <4> QED BY <4>1, <4>2
    <3>2. CASE i < Len(s)
      <4>1. i \in 1..(Len(s) - 1) /\ i \in 1..(Len(a) - 1) /\ i \in 1..Len(s) /\ i + 1 \in 1..Len(s)
        BY <3>2, <1>1
      <4>2. Unstubbed[a][i] = IF i < k THEN a[i] ELSE a[i + 1]
        BY <4>1, <2>4
      <4>3. Unstubbed[s][i] = IF i < k THEN s[i] ELSE s[i + 1]
        BY <4>1, <2>2
      <4>4. Append(Unstubbed[s], d)[i] = Unstubbed[s][i]
        BY <4>1, <2>5, <1>1
      <4> QED BY <4>1, <4>2, <4>3, <4>4, <1>1
    <3>3. i = Len(s) \/ i < Len(s)
      BY <1>1
    <3> QED BY <3>1, <3>2, <3>3
  <2> QED BY <2>6, <2>7, <2>8, SeqEqual
<1>5. ASSUME d # Stub, Stub \notin On(s) PROVE Unstubbed[a] = Append(Unstubbed[s], d)
  <2>1. Unstubbed[s] = s /\ Unstubbed[a] = a
    BY <1>1, <1>3, <1>5, NoStub
  <2> QED BY <2>1 DEF a
<1>6. ASSUME d = Stub PROVE Unstubbed[a] = Unstubbed[s]
  <2>1. Unstubbed[s] = s
    BY <1>6, NoStub
  <2>2. Unstubbed[a] = [i \in 1..(Len(a) - 1) |-> IF i < Len(a) THEN a[i] ELSE a[i + 1]]
    <3>1. Len(a) \in 1..Len(a) /\ a[Len(a)] = Stub
      BY <1>1, <1>6
    <3> QED BY <1>1, <1>2, <3>1, StubAt
  <2>3. Unstubbed[a] \in Seq(Descriptors) /\ Len(Unstubbed[a]) = Len(s)
    BY <1>1, <1>2, <1>3, <1>6, UnstubbedIs
  <2>4. \A i \in 1..Len(s) : Unstubbed[a][i] = s[i]
    BY <2>2, <1>1
  <2>5. Unstubbed[a] = s
    BY <2>3, <2>4, SeqEqual
  <2> QED BY <2>1, <2>5
<1> QED BY <1>1, <1>2, <1>3, <1>4, <1>5, <1>6 DEF a

\* What a new head_ does to the chain and to the queue: the stub leaves only the
\* chain, a descriptor is the first of the queue and leaves both.
LEMMA UnstubbedTail ==
  ASSUME NEW s \in Seq(Nodes), s # <<>>, Injective(s)
  PROVE  /\ Tail(s) \in Seq(Nodes) /\ Injective(Tail(s)) /\ On(Tail(s)) = On(s) \ {s[1]}
         /\ Len(Tail(s)) = Len(s) - 1 /\ \A i \in 1..(Len(s) - 1) : Tail(s)[i] = s[i + 1]
         /\ s[1] = Stub => Unstubbed[Tail(s)] = Unstubbed[s]
         /\ s[1] # Stub => /\ Unstubbed[s] # <<>> /\ Head(Unstubbed[s]) = s[1]
                           /\ Unstubbed[Tail(s)] = Tail(Unstubbed[s])
<1> DEFINE t == Tail(s)
<1>1. /\ t \in Seq(Nodes) /\ Len(t) = Len(s) - 1 /\ Len(s) \in Nat /\ Len(s) >= 1
      /\ \A i \in 1..(Len(s) - 1) : t[i] = s[i + 1]
  BY HeadTailProperties
<1> HIDE DEF t
<1>2. Injective(t)
  <2> SUFFICES ASSUME NEW i \in 1..Len(t), NEW j \in 1..Len(t), t[i] = t[j] PROVE i = j
    BY DEF Injective
  <2>1. i + 1 \in 1..Len(s) /\ j + 1 \in 1..Len(s) /\ s[i + 1] = s[j + 1]
    BY <1>1
  <2>2. i + 1 = j + 1
    BY <2>1 DEF Injective
  <2> QED BY <2>2, <1>1
<1>3. On(t) = On(s) \ {s[1]}
  <2>1. ASSUME NEW x, x \in On(t) PROVE x \in On(s) \ {s[1]}
    <3>1. PICK i \in 1..Len(t) : x = t[i]
      BY <2>1 DEF On
    <3>2. i + 1 \in 1..Len(s) /\ x = s[i + 1] /\ i + 1 # 1 /\ 1 \in 1..Len(s)
      BY <3>1, <1>1
    <3>3. x # s[1]
      BY <3>2 DEF Injective
    <3> QED BY <3>2, <3>3 DEF On
  <2>2. ASSUME NEW x, x \in On(s) \ {s[1]} PROVE x \in On(t)
    <3>1. PICK i \in 1..Len(s) : x = s[i] /\ i # 1
      BY <2>2 DEF On
    <3>2. i - 1 \in 1..Len(t) /\ t[i - 1] = x
      BY <3>1, <1>1
    <3> QED BY <3>2 DEF On
  <2> QED BY <2>1, <2>2
<1>4. ASSUME s[1] = Stub PROVE Unstubbed[t] = Unstubbed[s]
  <2>1. Unstubbed[t] = t
    BY <1>1, <1>3, <1>4, NoStub
  <2>2. 1 \in 1..Len(s) /\ Stub \in On(s)
    BY <1>1, <1>4 DEF On
  <2>3. Unstubbed[s] = [i \in 1..(Len(s) - 1) |-> IF i < 1 THEN s[i] ELSE s[i + 1]]
    BY <2>2, <1>4, StubAt
  <2>4. Unstubbed[s] \in Seq(Descriptors) /\ Len(Unstubbed[s]) = Len(s) - 1
    BY <2>2, UnstubbedIs
  <2>5. \A i \in 1..(Len(s) - 1) : Unstubbed[s][i] = t[i]
    BY <2>3, <1>1
  <2>6. Unstubbed[s] = t
    BY SMTT(30), <2>4, <2>5, <1>1, SeqEqual
  <2> QED BY <2>1, <2>6
<1>5. ASSUME s[1] # Stub, Stub \notin On(s)
      PROVE  /\ Unstubbed[s] # <<>> /\ Head(Unstubbed[s]) = s[1]
             /\ Unstubbed[t] = Tail(Unstubbed[s])
  <2>1. Unstubbed[s] = s /\ Unstubbed[t] = t
    BY <1>1, <1>3, <1>5, NoStub
  <2> QED BY <2>1, HeadTailProperties DEF t
<1>6. ASSUME s[1] # Stub, Stub \in On(s)
      PROVE  /\ Unstubbed[s] # <<>> /\ Head(Unstubbed[s]) = s[1]
             /\ Unstubbed[t] = Tail(Unstubbed[s])
  <2>1. PICK k \in 1..Len(s) : s[k] = Stub
    BY <1>6 DEF On
  <2>2. k # 1 /\ k - 1 \in 1..Len(t) /\ t[k - 1] = Stub /\ Len(s) >= 2 /\ k \in Nat
    BY <2>1, <1>1, <1>6
  <2>3. Unstubbed[s] = [i \in 1..(Len(s) - 1) |-> IF i < k THEN s[i] ELSE s[i + 1]]
    BY <2>1, StubAt
  <2>4. Unstubbed[t] = [i \in 1..(Len(t) - 1) |-> IF i < k - 1 THEN t[i] ELSE t[i + 1]]
    BY <2>2, <1>1, <1>2, StubAt
  <2>5. Unstubbed[s] \in Seq(Descriptors) /\ Len(Unstubbed[s]) = Len(s) - 1
    BY <1>6, UnstubbedIs
  <2>6. Stub \in On(t)
    BY <1>3, <1>6
  <2>7. Unstubbed[t] \in Seq(Descriptors) /\ Len(Unstubbed[t]) = Len(s) - 2
    BY <1>1, <1>2, <2>6, UnstubbedIs
  <2> DEFINE u == Unstubbed[s]
  <2>8. u # <<>> /\ Head(u) = u[1] /\ Tail(u) \in Seq(Descriptors) /\ Len(Tail(u)) = Len(s) - 2
        /\ \A i \in 1..(Len(s) - 2) : Tail(u)[i] = u[i + 1]
    <3> HIDE DEF u
    <3>1. u \in Seq(Descriptors) /\ Len(u) = Len(s) - 1 /\ u # <<>>
      BY <2>2, <2>5, <1>1 DEF u
    <3> QED BY <3>1, <1>1, HeadTailProperties
  <2>9. u[1] = s[1]
    BY <2>2, <2>3, <1>1
  <2>10. ASSUME NEW i \in 1..(Len(s) - 2) PROVE Unstubbed[t][i] = Tail(u)[i]
    <3>1. /\ i \in 1..(Len(t) - 1) /\ i + 1 \in 1..(Len(s) - 1) /\ i \in 1..(Len(s) - 1) /\ i \in Nat
          /\ (i < k - 1 <=> i + 1 < k)
      BY <1>1, <2>2
    <3>2. Unstubbed[t][i] = IF i < k - 1 THEN t[i] ELSE t[i + 1]
      BY <2>4, <3>1
    <3>3. u[i + 1] = IF i + 1 < k THEN s[i + 1] ELSE s[i + 2]
      BY <2>3, <3>1
    <3>4. t[i] = s[i + 1] /\ t[i + 1] = s[i + 2]
      BY <1>1, <3>1
    <3> QED BY <2>8, <3>1, <3>2, <3>3, <3>4
  <2> HIDE DEF u
  <2>11. Unstubbed[t] = Tail(u)
    BY <2>7, <2>8, <2>10, SeqEqual
  <2> QED BY <2>8, <2>9, <2>11 DEF u
<1> QED BY <1>1, <1>2, <1>3, <1>4, <1>5, <1>6 DEF t

-----------------------------------------------------------------------------
\* What every proof below uses of the chain.
LEMMA GhostFacts ==
  ASSUME NEW s, ChainInv(s)
  PROVE  /\ s \in Seq(Nodes) /\ Len(s) \in Nat /\ Len(s) >= 1 /\ Injective(s) /\ On(s) \subseteq Nodes
         /\ \A i \in 1..Len(s) : s[i] \in Nodes /\ s[i] \in On(s)
         /\ head = s[1] /\ tail = s[Len(s)] /\ head \in On(s) /\ tail \in On(s)
<1>1. s \in Seq(Nodes) /\ s # <<>> /\ Injective(s) /\ head = s[1] /\ tail = s[Len(s)]
  BY DEF ChainInv, Linked
<1>2. Len(s) \in Nat /\ Len(s) >= 1
  BY <1>1
<1>3. \A i \in 1..Len(s) : s[i] \in Nodes /\ s[i] \in On(s)
  BY <1>1 DEF On
<1> QED BY <1>1, <1>2, <1>3 DEF On

\* A step that writes no link and no position keeps the chain.
LEMMA SameChain ==
  ASSUME NEW s, TypeOK, ChainInv(s), UNCHANGED <<head, tail, next, pvars>>,
         cpc # "rearm_link", held' \in {held, None}
  PROVE  Linked(s)' /\ InHand(s)'
<1>1. Linked(s)'
  <2>1. \A i \in 1..(Len(s) - 1) :
          next'[s[i]] = s[i + 1] \/ (next'[s[i]] = None /\ Pending(s[i], s[i + 1])')
    BY DEF ChainInv, Linked, Pending, pvars
  <2> QED BY <2>1 DEF ChainInv, Linked
<1>2. None \notin On(s)
  BY GhostFacts, NodesAreFinite
<1>3. InHand(s)'
  BY <1>2, NodesAssumption DEF ChainInv, InHand, Behind, On, pvars
<1> QED BY <1>1, <1>3

\* The first node leaves the chain when its link is written.
LEMMA FirstLeaves ==
  ASSUME NEW s, TypeOK, ChainInv(s), UNCHANGED <<tail, next, pvars>>,
         cpc # "rearm_link", next[head] # None, head' = next[head], held' \in {held, head}
  PROVE  /\ Len(s) >= 2 /\ next[head] = s[2]
         /\ Linked(Tail(s))' /\ InHand(Tail(s))'
<1>1. /\ s \in Seq(Nodes) /\ Len(s) \in Nat /\ Len(s) >= 1 /\ Injective(s)
      /\ \A i \in 1..Len(s) : s[i] \in Nodes /\ s[i] \in On(s)
      /\ head = s[1] /\ tail = s[Len(s)]
  BY GhostFacts
<1>2. Len(s) >= 2
  BY <1>1 DEF ChainInv, Linked
<1>3. next[head] = s[2]
  BY <1>1, <1>2 DEF ChainInv, Linked
<1> DEFINE t == Tail(s)
<1>4. /\ t \in Seq(Nodes) /\ Injective(t) /\ On(t) = On(s) \ {s[1]} /\ Len(t) = Len(s) - 1
      /\ \A i \in 1..(Len(s) - 1) : t[i] = s[i + 1]
  BY <1>1, <1>2, UnstubbedTail
<1> HIDE DEF t
<1>5. t # <<>> /\ t[1] = s[2] /\ t[Len(t)] = s[Len(s)]
  BY <1>1, <1>2, <1>4
<1>6. \A i \in 1..(Len(t) - 1) : t[i] = s[i + 1] /\ t[i + 1] = s[i + 2] /\ i + 1 \in 1..(Len(s) - 1)
  BY <1>1, <1>2, <1>4
<1>7. \A i \in 1..(Len(t) - 1) :
        next'[t[i]] = t[i + 1] \/ (next'[t[i]] = None /\ Pending(t[i], t[i + 1])')
  <2> TAKE i \in 1..(Len(t) - 1)
  <2>1. t[i] = s[i + 1] /\ t[i + 1] = s[(i + 1) + 1] /\ i + 1 \in 1..(Len(s) - 1)
    BY <1>6, <1>1, <1>4
  <2>2. \/ next[s[i + 1]] = s[(i + 1) + 1]
        \/ next[s[i + 1]] = None /\ Pending(s[i + 1], s[(i + 1) + 1])
    BY <2>1 DEF ChainInv, Linked
  <2> QED BY <2>1, <2>2 DEF Pending, pvars
<1>8. Linked(t)'
  <2>1. next[s[Len(s)]] = None
    BY DEF ChainInv, Linked
  <2> QED BY <1>1, <1>3, <1>4, <1>5, <1>7, <2>1 DEF Linked
<1>9. ASSUME NEW n, NEW m, Behind(n, m, s) PROVE Behind(n, m, t)
  <2>1. PICK i \in 1..(Len(s) - 1) : n = s[i] /\ m = s[i + 1] /\ next[s[i]] = None
    BY <1>9 DEF Behind
  <2>2. /\ i # 1 /\ i - 1 \in 1..(Len(t) - 1) /\ i - 1 \in 1..(Len(s) - 1)
        /\ (i - 1) + 1 = i /\ i \in 1..(Len(s) - 1)
    BY <2>1, <1>1, <1>4
  <2>3. t[i - 1] = s[i] /\ t[(i - 1) + 1] = s[i + 1]
    BY <2>2, <1>4
  <2> QED BY <2>1, <2>2, <2>3 DEF Behind
<1>10. held' \notin On(t)
  BY <1>1, <1>4 DEF ChainInv, InHand
<1>11. InHand(t)'
  <2>1. \A p \in Producers : ppc[p] = "exchange" => pnode[p] \notin On(t) /\ pnode[p] # held'
    BY <1>1, <1>4 DEF ChainInv, InHand
  <2>2. \A p \in Producers : ppc[p] = "link" => Behind(pprev[p], pnode[p], t)
    BY <1>9 DEF ChainInv, InHand
  <2>3. On(t)' = On(t)
    BY DEF On
  <2> QED BY <1>10, <2>1, <2>2, <2>3 DEF ChainInv, InHand, pvars, Behind
<1> QED BY <1>2, <1>3, <1>8, <1>11 DEF t

-----------------------------------------------------------------------------
\* enqueue, first access: the link that is cleared belongs to a node outside the
\* chain.
LEMMA ClearLinkKeeps ==
  ASSUME NEW s, TypeOK, ChainInv(s), Chain = s,
         NEW p \in Producers, NEW d \in Descriptors, ClearLink(p, d)
  PROVE  ChainInv(s)'
<1>1. /\ s \in Seq(Nodes) /\ Len(s) \in Nat /\ Len(s) >= 1 /\ Injective(s)
      /\ \A i \in 1..Len(s) : s[i] \in Nodes /\ s[i] \in On(s)
      /\ head = s[1] /\ tail = s[Len(s)] /\ head \in On(s) /\ tail \in On(s)
  BY GhostFacts
<1>2. /\ d \in Nodes /\ d # Stub /\ d # None /\ d \notin On(s) /\ d # held
      /\ \A q \in Producers : pnode[q] # d
  BY NodesAssumption DEF ClearLink, Free, On, Nodes
<1>3. /\ ppc[p] = "idle" /\ ppc' = [ppc EXCEPT ![p] = "exchange"] /\ pnode' = [pnode EXCEPT ![p] = d]
      /\ pprev' = pprev /\ head' = head /\ tail' = tail /\ UNCHANGED <<cvars, overlap>>
      /\ next'[d] = None /\ \A n \in Nodes : n # d => next'[n] = next[n]
  BY <1>2 DEF ClearLink, TypeOK
<1>4. \A q \in Producers : q # p => ppc'[q] = ppc[q] /\ pnode'[q] = pnode[q]
  BY <1>3 DEF TypeOK
<1>5. ppc'[p] = "exchange" /\ pnode'[p] = d
  BY <1>3 DEF TypeOK
<1>6. \A i \in 1..Len(s) : next'[s[i]] = next[s[i]]
  BY <1>1, <1>2, <1>3
<1>7. Linked(s)'
  <2>1. \A i \in 1..(Len(s) - 1) :
          next'[s[i]] = s[i + 1] \/ (next'[s[i]] = None /\ Pending(s[i], s[i + 1])')
    <3> TAKE i \in 1..(Len(s) - 1)
    <3>1. next'[s[i]] = next[s[i]]
      BY <1>1, <1>6
    <3>2. Pending(s[i], s[i + 1]) => Pending(s[i], s[i + 1])'
      BY <1>3, <1>4 DEF Pending, cvars
    <3> QED BY <3>1, <3>2 DEF ChainInv, Linked
  <2>2. next'[s[Len(s)]] = None
    BY <1>1, <1>6 DEF ChainInv, Linked
  <2> QED BY <1>3, <2>1, <2>2 DEF ChainInv, Linked
<1>8. \A n, m : Behind(n, m, s) => \E i \in 1..(Len(s) - 1) : n = s[i] /\ m = s[i + 1] /\ next'[s[i]] = None
  BY <1>1, <1>6 DEF Behind
<1>9. InHand(s)'
  <2>1. \A q \in Producers : ppc'[q] = "link" =>
           \E i \in 1..(Len(s) - 1) : pprev'[q] = s[i] /\ pnode'[q] = s[i + 1] /\ next'[s[i]] = None
    BY <1>3, <1>4, <1>5, <1>8 DEF ChainInv, InHand
  <2>2. \A q \in Producers : ppc'[q] = "exchange" =>
           pnode'[q] \notin On(s) /\ next'[pnode'[q]] = None /\ pnode'[q] # held'
    <3> TAKE q \in Producers
    <3>1. CASE q = p
      BY <3>1, <1>2, <1>3, <1>5 DEF cvars
    <3>2. CASE q # p
      BY <3>2, <1>2, <1>3, <1>4 DEF ChainInv, InHand, cvars, Nodes
    <3> QED BY <3>1, <3>2
  <2>3. \A q \in Producers : ppc'[q] = "idle" => pnode'[q] = None
    BY <1>4, <1>5 DEF ChainInv, InHand
  <2>4. \A q \in Producers : ppc'[q] # "idle" => pnode'[q] \in Descriptors
    BY <1>4, <1>5 DEF ChainInv, InHand
  <2>5. \A q, r \in Producers : pnode'[q] = pnode'[r] /\ pnode'[q] # None => q = r
    BY <1>2, <1>4, <1>5 DEF ChainInv, InHand
  <2>6. held' \notin On(s)
    BY <1>3 DEF ChainInv, InHand, cvars
  <2> QED BY <2>1, <2>2, <2>3, <2>4, <2>5, <2>6 DEF InHand, Behind, On
<1>10. Dequeuing(s)'
  <2>1. next'[head] = next[head] /\ next'[Stub] = next[Stub]
    BY <1>1, <1>2, <1>3, NodesAreFinite
  <2>2. MidPublish' = MidPublish
    BY <1>3, <1>4, <1>5 DEF MidPublish
  <2>3. cpc = "rearm_link" => \E i \in 1..(Len(s) - 1) : cprev = s[i] /\ Stub = s[i + 1] /\ next'[s[i]] = None
    BY <1>8 DEF ChainInv, Dequeuing
  <2> QED BY <1>3, <2>1, <2>2, <2>3 DEF ChainInv, Dequeuing, Behind, On, cvars
<1> QED BY <1>7, <1>9, <1>10 DEF ChainInv

\* A tail exchange puts a cleared node behind the last one; its link is pending.
LEMMA TailMoves ==
  ASSUME NEW s, TypeOK, ChainInv(s), NEW d \in Nodes, d \notin On(s), next[d] = None, tail' = d,
         UNCHANGED <<head, next>>,
         \A a, b : Pending(a, b) => Pending(a, b)',
         Pending(s[Len(s)], d)'
  PROVE  /\ Linked(Append(s, d))'
         /\ On(Append(s, d)) = On(s) \cup {d} /\ Len(Append(s, d)) = Len(s) + 1
         /\ \A n, m : Behind(n, m, s) => Behind(n, m, Append(s, d))
         /\ Behind(tail, d, Append(s, d))
<1>1. /\ s \in Seq(Nodes) /\ Len(s) \in Nat /\ Len(s) >= 1 /\ Injective(s)
      /\ \A i \in 1..Len(s) : s[i] \in Nodes /\ s[i] \in On(s)
      /\ head = s[1] /\ tail = s[Len(s)] /\ head \in On(s) /\ tail \in On(s)
  BY GhostFacts
<1> DEFINE t == Append(s, d)
<1>2. /\ t \in Seq(Nodes) /\ Injective(t) /\ On(t) = On(s) \cup {d}
  BY <1>1, UnstubbedAppend
<1>3. Len(t) = Len(s) + 1 /\ t[Len(s) + 1] = d /\ \A i \in 1..Len(s) : t[i] = s[i]
  BY <1>1
<1> HIDE DEF t
<1>4. next[s[Len(s)]] = None
  BY DEF ChainInv, Linked
<1>5. ASSUME NEW i \in 1..(Len(t) - 1)
      PROVE  next'[t[i]] = t[i + 1] \/ (next'[t[i]] = None /\ Pending(t[i], t[i + 1])')
  <2>1. CASE i = Len(s)
    <3>1. t[i] = s[Len(s)] /\ t[i + 1] = d
      BY <1>1, <1>3, <2>1
    <3> QED BY <3>1, <1>4
  <2>2. CASE i < Len(s)
    <3>1. i \in 1..(Len(s) - 1) /\ t[i] = s[i] /\ t[i + 1] = s[i + 1]
      BY <1>1, <1>3, <2>2
    <3>2. next[s[i]] = s[i + 1] \/ (next[s[i]] = None /\ Pending(s[i], s[i + 1]))
      BY <3>1 DEF ChainInv, Linked
    <3> QED BY <3>1, <3>2
  <2> QED BY <2>1, <2>2, <1>1, <1>3
<1>6. Linked(t)'
  BY <1>1, <1>2, <1>3, <1>5 DEF Linked
<1>7. ASSUME NEW n, NEW m, Behind(n, m, s) PROVE Behind(n, m, t)
  <2>1. PICK i \in 1..(Len(s) - 1) : n = s[i] /\ m = s[i + 1] /\ next[s[i]] = None
    BY <1>7 DEF Behind
  <2>2. i \in 1..(Len(t) - 1) /\ t[i] = s[i] /\ t[i + 1] = s[i + 1]
    BY <1>1, <1>3
  <2> QED BY <2>1, <2>2 DEF Behind
<1>8. Behind(tail, d, t)
  <2>1. Len(s) \in 1..(Len(t) - 1) /\ t[Len(s)] = s[Len(s)] /\ t[Len(s) + 1] = d
    BY <1>1, <1>3
  <2> QED BY <1>1, <1>4, <2>1 DEF Behind
<1> QED BY <1>2, <1>3, <1>6, <1>7, <1>8 DEF t

\* enqueue, second access: the descriptor joins the chain; its link is pending.
LEMMA ExchangeKeeps ==
  ASSUME NEW s, TypeOK, ChainInv(s), NEW p \in Producers, NEW d, d = pnode[p], Exchange(p)
  PROVE  /\ d \in Descriptors /\ d \notin On(s) /\ d # held
         /\ ChainInv(Append(s, d))'
<1>1. /\ s \in Seq(Nodes) /\ Len(s) \in Nat /\ Len(s) >= 1 /\ Injective(s)
      /\ \A i \in 1..Len(s) : s[i] \in Nodes /\ s[i] \in On(s)
      /\ head = s[1] /\ tail = s[Len(s)] /\ head \in On(s) /\ tail \in On(s)
  BY GhostFacts
<1> DEFINE t == Append(s, d)
<1>2. /\ d \in Descriptors /\ d \in Nodes /\ d # Stub /\ d # None
      /\ d \notin On(s) /\ d # held /\ next[d] = None
  BY NodesAssumption DEF ChainInv, InHand, Exchange, Nodes
<1>3. /\ ppc[p] = "exchange" /\ ppc' = [ppc EXCEPT ![p] = "link"] /\ pnode' = pnode
      /\ pprev' = [pprev EXCEPT ![p] = tail] /\ tail' = d /\ UNCHANGED <<head, next, cvars>>
      /\ overlap' = (cpc # "idle")
  BY DEF Exchange
<1>4. \A q \in Producers : q # p => ppc'[q] = ppc[q] /\ pprev'[q] = pprev[q]
  BY <1>3 DEF TypeOK
<1>5. ppc'[p] = "link" /\ pprev'[p] = tail
  BY <1>3 DEF TypeOK
<1>6. \A a, b : Pending(a, b) => Pending(a, b)'
  BY <1>3, <1>4 DEF Pending, cvars
<1>7. Pending(s[Len(s)], d)'
  BY <1>1, <1>3, <1>5 DEF Pending
<1>8. /\ Linked(t)' /\ On(t) = On(s) \cup {d} /\ Len(t) = Len(s) + 1
      /\ \A n, m : Behind(n, m, s) => Behind(n, m, t)
      /\ Behind(tail, d, t)
  BY <1>2, <1>3, <1>6, <1>7, TailMoves
<1> HIDE DEF t
<1>9. InHand(t)'
  <2>2. ASSUME NEW q \in Producers, ppc'[q] = "link"
        PROVE  \E i \in 1..(Len(t) - 1) : pprev'[q] = t[i] /\ pnode'[q] = t[i + 1] /\ next'[t[i]] = None
    <3>1. CASE q = p
      BY <3>1, <1>3, <1>5, <1>8 DEF Behind
    <3>2. CASE q # p
      <4>1. Behind(pprev[q], pnode[q], t)
        BY <3>2, <2>2, <1>4, <1>8 DEF ChainInv, InHand
      <4> QED BY <3>2, <4>1, <1>3, <1>4 DEF Behind
    <3> QED BY <3>1, <3>2
  <2>3. \A q \in Producers : ppc'[q] = "exchange" =>
           pnode'[q] \notin On(t) /\ next'[pnode'[q]] = None /\ pnode'[q] # held'
    <3> TAKE q \in Producers
    <3> HAVE ppc'[q] = "exchange"
    <3>1. q # p /\ ppc[q] = "exchange"
      BY <1>4, <1>5
    <3>2. pnode[q] # d
      BY <3>1, <1>2 DEF ChainInv, InHand
    <3> QED BY <3>1, <3>2, <1>3, <1>8 DEF ChainInv, InHand, cvars
  <2>4. \A q \in Producers : /\ ppc'[q] = "idle" => pnode'[q] = None
                             /\ ppc'[q] # "idle" => pnode'[q] \in Descriptors
    BY <1>2, <1>3, <1>4, <1>5 DEF ChainInv, InHand
  <2>5. held' \notin On(t)
    BY <1>2, <1>3, <1>8 DEF ChainInv, InHand, cvars
  <2>6. \A q, r \in Producers : pnode'[q] = pnode'[r] /\ pnode'[q] # None => q = r
    BY <1>3 DEF ChainInv, InHand
  <2> QED BY <2>2, <2>3, <2>4, <2>5, <2>6 DEF InHand, Behind, On
<1>10. Dequeuing(t)'
  <2>1. cpc = "rearm_link" => Behind(cprev, Stub, t)'
    <3>1. cpc = "rearm_link" => Behind(cprev, Stub, t)
      BY <1>8 DEF ChainInv, Dequeuing
    <3> QED BY <3>1, <1>3 DEF Behind, cvars
  <2>2. cpc \in {"rearm", "rearm_exchange"} => Stub \notin On(t)
    BY <1>2, <1>8 DEF ChainInv, Dequeuing
  <2>3. cpc # "idle" => overlap'
    BY <1>3
  <2> QED BY <1>1, <1>3, <1>8, <2>1, <2>2, <2>3 DEF ChainInv, Dequeuing, On, cvars
<1> QED BY <1>2, <1>8, <1>9, <1>10 DEF ChainInv, t

\* The link of n is written, and no other.
StoredAt(n, m) == next'[n] = m /\ \A x \in Nodes : x # n => next'[x] = next[x]

\* Only the pending store into n is over.
PendingBut(n) == \A a, b : Pending(a, b) /\ a # n => Pending(a, b)'

\* A pending link is stored: the chain stays, its link is written.
LEMMA LinkWritten ==
  ASSUME NEW s, TypeOK, ChainInv(s), NEW n, NEW m, Behind(n, m, s), UNCHANGED <<head, tail>>,
         StoredAt(n, m), PendingBut(n)
  PROVE  /\ Linked(s)' /\ n \in On(s) /\ next[n] = None
         /\ \A a, b : (Behind(a, b, s) /\ b # m) => Gap(next', a, b, s)
<1>1. /\ s \in Seq(Nodes) /\ Len(s) \in Nat /\ Len(s) >= 1 /\ Injective(s)
      /\ \A i \in 1..Len(s) : s[i] \in Nodes /\ s[i] \in On(s)
      /\ head = s[1] /\ tail = s[Len(s)] /\ head \in On(s) /\ tail \in On(s)
  BY GhostFacts
<1>2. PICK k \in 1..(Len(s) - 1) : n = s[k] /\ m = s[k + 1] /\ next[s[k]] = None
  BY DEF Behind
<1>3. k \in 1..Len(s) /\ k # Len(s) /\ n \in Nodes /\ n \in On(s)
  BY <1>1, <1>2
<1>4. next'[n] = m /\ \A x \in Nodes : x # n => next'[x] = next[x]
  BY DEF StoredAt
<1>5. \A i \in 1..Len(s) : i # k => next'[s[i]] = next[s[i]] /\ s[i] # n
  BY <1>1, <1>2, <1>3, <1>4 DEF Injective
<1>6. ASSUME NEW i \in 1..(Len(s) - 1)
      PROVE  next'[s[i]] = s[i + 1] \/ (next'[s[i]] = None /\ Pending(s[i], s[i + 1])')
  <2>1. CASE i = k
    BY <2>1, <1>2, <1>4
  <2>2. CASE i # k
    <3>1. next'[s[i]] = next[s[i]] /\ s[i] # n
      BY <2>2, <1>1, <1>5
    <3>2. next[s[i]] = s[i + 1] \/ (next[s[i]] = None /\ Pending(s[i], s[i + 1]))
      BY DEF ChainInv, Linked
    <3> QED BY <3>1, <3>2 DEF PendingBut
  <2> QED BY <2>1, <2>2
<1>7. next'[s[Len(s)]] = None
  BY <1>1, <1>3, <1>5 DEF ChainInv, Linked
<1>8. Linked(s)'
  BY <1>1, <1>6, <1>7 DEF Linked
<1>9. ASSUME NEW a, NEW b, Behind(a, b, s), b # m
      PROVE  Gap(next', a, b, s)
  <2>1. PICK i \in 1..(Len(s) - 1) : a = s[i] /\ b = s[i + 1] /\ next[s[i]] = None
    BY <1>9 DEF Behind
  <2>2. i # k /\ i \in 1..Len(s)
    BY <2>1, <1>2, <1>9, <1>1
  <2> QED BY <2>1, <2>2, <1>5 DEF Gap
<1> QED BY <1>2, <1>3, <1>4, <1>8, <1>9

\* enqueue, third access: the predecessor's link is written.
LEMMA LinkKeeps ==
  ASSUME NEW s, TypeOK, ChainInv(s), NEW p \in Producers, Link(p)
  PROVE  ChainInv(s)'
<1>1. /\ s \in Seq(Nodes) /\ Len(s) \in Nat /\ Len(s) >= 1 /\ Injective(s)
      /\ \A i \in 1..Len(s) : s[i] \in Nodes /\ s[i] \in On(s)
      /\ head = s[1] /\ tail = s[Len(s)] /\ head \in On(s) /\ tail \in On(s)
  BY GhostFacts
<1> PICK n, m : n = pprev[p] /\ m = pnode[p]
  OBVIOUS
<1>2. /\ ppc[p] = "link" /\ ppc' = [ppc EXCEPT ![p] = "idle"] /\ pnode' = [pnode EXCEPT ![p] = None]
      /\ pprev' = [pprev EXCEPT ![p] = None] /\ next' = [next EXCEPT ![n] = m]
      /\ UNCHANGED <<head, tail, cvars, overlap>>
  BY DEF Link
<1>3. Behind(n, m, s) /\ m \in Descriptors /\ m # Stub /\ m # None
  BY <1>2, NodesAssumption DEF ChainInv, InHand
<1>4. \A q \in Producers : q # p => /\ ppc'[q] = ppc[q] /\ pprev'[q] = pprev[q]
                                   /\ pnode'[q] = pnode[q] /\ pnode[q] # m
  BY <1>2, <1>3 DEF TypeOK, ChainInv, InHand
<1>5. ppc'[p] = "idle" /\ pnode'[p] = None
  BY <1>2 DEF TypeOK
<1>6. PendingBut(n)
  BY <1>2, <1>4 DEF Pending, PendingBut, cvars
<1>7. /\ Linked(s)' /\ n \in On(s) /\ next[n] = None
      /\ \A x \in Nodes : x # n => next'[x] = next[x]
      /\ \A a, b : (Behind(a, b, s) /\ b # m) => Gap(next', a, b, s)
  <2>1. UNCHANGED <<head, tail>>
    BY <1>2
  <2>2. n \in Nodes
    BY <1>1, <1>3 DEF Behind
  <2>3. StoredAt(n, m)
    BY <2>2, <1>2 DEF StoredAt, TypeOK
  <2>4. /\ Linked(s)' /\ n \in On(s) /\ next[n] = None
        /\ \A a, b : (Behind(a, b, s) /\ b # m) => Gap(next', a, b, s)
    BY <2>1, <2>3, <1>3, <1>6, LinkWritten
  <2> QED BY <2>3, <2>4 DEF StoredAt
<1>8. InHand(s)'
  <2>1. \A q \in Producers : ppc'[q] = "link" => Gap(next', pprev'[q], pnode'[q], s)
    <3> TAKE q \in Producers
    <3> HAVE ppc'[q] = "link"
    <3>1. q # p /\ ppc[q] = "link"
      BY <1>4, <1>5
    <3>2. Behind(pprev[q], pnode[q], s) /\ pnode[q] # m
      BY <3>1, <1>4 DEF ChainInv, InHand
    <3> QED BY <3>1, <3>2, <1>4, <1>7
  <2>2. \A q \in Producers : ppc'[q] = "exchange" =>
           pnode'[q] \notin On(s) /\ next'[pnode'[q]] = None /\ pnode'[q] # held'
    <3> TAKE q \in Producers
    <3> HAVE ppc'[q] = "exchange"
    <3>1. q # p /\ ppc[q] = "exchange"
      BY <1>4, <1>5
    <3>2. pnode[q] \in Nodes /\ pnode[q] \notin On(s) /\ next[pnode[q]] = None /\ pnode[q] # held
      BY <3>1 DEF ChainInv, InHand, Nodes
    <3> QED BY <3>1, <3>2, <1>2, <1>4, <1>7 DEF cvars
  <2>3. \A q \in Producers : /\ ppc'[q] = "idle" => pnode'[q] = None
                             /\ ppc'[q] # "idle" => pnode'[q] \in Descriptors
    BY <1>4, <1>5 DEF ChainInv, InHand
  <2>4. \A q, r \in Producers : pnode'[q] = pnode'[r] /\ pnode'[q] # None => q = r
    BY <1>4, <1>5 DEF ChainInv, InHand
  <2>5. held' \notin On(s)
    BY <1>2 DEF ChainInv, InHand, cvars
  <2> QED BY <2>1, <2>2, <2>3, <2>4, <2>5 DEF InHand, Behind, Gap, On
<1>9. Dequeuing(s)'
  <2>1. next[head] # None => next'[head] = next[head]
    BY <1>1, <1>7
  <2>2. Stub \notin On(s) => next'[Stub] = next[Stub]
    BY <1>7, NodesAreFinite
  <2>3. MidPublish' \subseteq MidPublish
    BY <1>4, <1>5 DEF MidPublish
  <2>4. cpc = "rearm_link" => Gap(next', cprev, Stub, s)
    BY <1>3, <1>7 DEF ChainInv, Dequeuing
  <2>5. cpc # "idle" => (held' = None /\ (MidPublish' # {} => overlap'))
    BY <2>3, <1>2 DEF ChainInv, Dequeuing, cvars
  <2>6. cpc = "skip" => cnext' # None /\ cnext' = next'[head']
    BY <2>1, <1>2 DEF ChainInv, Dequeuing, cvars
  <2>7. cpc = "decide" => cnext' \in {None, next'[head']}
    BY <2>1, <1>2 DEF ChainInv, Dequeuing, cvars
  <2>8. cpc = "rearm_exchange" => next'[Stub] = None
    BY <2>2 DEF ChainInv, Dequeuing
  <2> QED BY <1>2, <2>4, <2>5, <2>6, <2>7, <2>8 DEF ChainInv, Dequeuing, Behind, Gap, On, cvars
<1> QED BY <1>7, <1>8, <1>9 DEF ChainInv

-----------------------------------------------------------------------------
\* Where head_ is not last and its link is missing, a producer is mid-publish.
LEMMA FirstGap ==
  ASSUME NEW s, TypeOK, ChainInv(s), next[head] = None, cpc # "rearm_link", Len(s) # 1
  PROVE  MidPublish # {}
<1>1. head = s[1] /\ Len(s) \in Nat /\ Len(s) >= 1 /\ \A i \in 1..Len(s) : s[i] \in Nodes
  BY GhostFacts
<1> DEFINE n == Len(s)
<1>2. 1 \in 1..(n - 1) /\ 1 + 1 \in 1..n
  <2>1. n \in Nat /\ n >= 1 /\ n # 1
    BY <1>1
  <2> HIDE DEF n
  <2> QED BY <2>1
<1>3. Pending(s[1], s[1 + 1])
  BY <1>1, <1>2, NodesAreFinite DEF ChainInv, Linked
<1> QED BY <1>3 DEF Pending, MidPublish

\* try_dequeue, the first loads.
LEMMA LoadFrontKeeps ==
  ASSUME NEW s, TypeOK, ChainInv(s), LoadFront
  PROVE  ChainInv(s)'
<1>1. cpc = "idle" /\ held = None /\ UNCHANGED <<head, tail, next, pvars, cprev, status, held>>
      /\ front' = head /\ cnext' = next[head] /\ overlap' = (MidPublish # {})
      /\ cpc' = IF head # Stub THEN "decide" ELSE IF next[head] = None THEN "stub_tail" ELSE "skip"
  BY DEF LoadFront
<1>2. Linked(s)' /\ InHand(s)'
  BY <1>1, SameChain
<1>3. next[head] = None => (Len(s) = 1 \/ MidPublish # {})
  BY <1>1, FirstGap
<1>4. MidPublish' = MidPublish
  BY <1>1 DEF MidPublish, pvars
<1>5. Dequeuing(s)'
  BY <1>1, <1>3, <1>4 DEF Dequeuing
<1> QED BY <1>2, <1>5 DEF ChainInv

\* try_dequeue, Empty or Busy at the stub.
LEMMA StubTailKeeps ==
  ASSUME NEW s, TypeOK, ChainInv(s), StubTail
  PROVE  ChainInv(s)'
<1>1. /\ cpc = "stub_tail" /\ UNCHANGED <<head, tail, next, pvars>> /\ held' = None /\ cpc' = "idle"
  BY DEF StubTail, Return
<1>2. Linked(s)' /\ InHand(s)'
  BY <1>1, SameChain
<1>3. head = Stub
  BY <1>1 DEF ChainInv, Dequeuing
<1>4. Dequeuing(s)'
  BY <1>1, <1>3 DEF Dequeuing
<1> QED BY <1>2, <1>4 DEF ChainInv

\* try_dequeue steps over the stub, which leaves the chain.
LEMMA SkipStubKeeps ==
  ASSUME NEW s, TypeOK, ChainInv(s), SkipStub
  PROVE  ChainInv(Tail(s))' /\ s[1] = Stub
<1>1. /\ s \in Seq(Nodes) /\ Len(s) \in Nat /\ Len(s) >= 1 /\ Injective(s) /\ head = s[1]
  BY GhostFacts
<1>2. /\ cpc = "skip" /\ head' = cnext /\ front' = cnext /\ cnext' = next[cnext] /\ cpc' = "decide"
      /\ UNCHANGED <<tail, next, pvars, cprev, status, held, overlap>>
  BY DEF SkipStub
<1>3. head = Stub /\ cnext # None /\ cnext = next[head] /\ held = None /\ (MidPublish # {} => overlap)
  BY <1>2 DEF ChainInv, Dequeuing
<1>4. Len(s) >= 2 /\ next[head] = s[2] /\ Linked(Tail(s))' /\ InHand(Tail(s))'
  BY <1>2, <1>3, FirstLeaves
<1>5. s[2] # Stub
  <2>1. 1 \in 1..Len(s) /\ 2 \in 1..Len(s) /\ 1 # 2
    BY <1>1, <1>4
  <2>2. s[1] # s[2]
    BY <1>1, <2>1 DEF Injective
  <2> QED BY <2>2, <1>1, <1>3
<1>6. cnext' = None => overlap' \/ Len(Tail(s)) = 1
  <2> SUFFICES ASSUME next[s[2]] = None, Len(s) # 2 PROVE MidPublish # {}
    BY <1>1, <1>2, <1>3, <1>4
  <2>1. 2 \in 1..(Len(s) - 1) /\ 2 + 1 \in 1..Len(s)
    <3> DEFINE n == Len(s)
    <3>1. n \in Nat /\ n >= 2 /\ n # 2
      BY <1>1, <1>4
    <3> HIDE DEF n
    <3>2. 2 \in 1..(n - 1) /\ 2 + 1 \in 1..n
      BY <3>1
    <3> QED BY <3>2 DEF n
  <2>3. s[2 + 1] # None
    BY <2>1, GhostFacts, NodesAreFinite
  <2>2. Pending(s[2], s[2 + 1])
    BY <2>1, <2>3 DEF ChainInv, Linked
  <2> QED BY <2>2, <1>2 DEF Pending, MidPublish
<1>7. MidPublish' = MidPublish
  BY <1>2 DEF MidPublish, pvars
<1>8. Dequeuing(Tail(s))'
  BY <1>2, <1>3, <1>4, <1>5, <1>6, <1>7 DEF Dequeuing
<1> QED BY <1>1, <1>3, <1>4, <1>8 DEF ChainInv

\* The node a producer is still linking is never the first of the chain.
LEMMA NotBehindFirst ==
  ASSUME NEW s, TypeOK, ChainInv(s)
  PROVE  \A p \in MidPublish : pnode[p] # s[1]
<1> TAKE p \in MidPublish
<1>1. s \in Seq(Nodes) /\ Len(s) \in Nat /\ Injective(s)
  BY GhostFacts
<1>2. PICK i \in 1..(Len(s) - 1) : pnode[p] = s[i + 1]
  BY DEF ChainInv, InHand, Behind, MidPublish
<1>3. i + 1 \in 1..Len(s) /\ 1 \in 1..Len(s) /\ i + 1 # 1
  BY <1>1
<1> QED BY <1>1, <1>2, <1>3 DEF Injective

\* try_dequeue takes the front node, which leaves the chain and was linked.
LEMMA PopKeeps ==
  ASSUME NEW s, TypeOK, ChainInv(s), Pop
  PROVE  /\ ChainInv(Tail(s))' /\ s[1] # Stub /\ held' = s[1]
         /\ \A p \in MidPublish : pnode[p] # s[1]
<1>1. /\ s \in Seq(Nodes) /\ Len(s) \in Nat /\ Len(s) >= 1 /\ Injective(s) /\ head = s[1]
  BY GhostFacts
<1>2. /\ cpc = "decide" /\ cnext # None /\ head' = cnext
      /\ cpc' = "idle" /\ status' = "Message" /\ held' = front
      /\ UNCHANGED <<tail, next, pvars>>
  BY DEF Pop, Return
<1>3. front = head /\ head # Stub /\ cnext = next[head]
  BY <1>2 DEF ChainInv, Dequeuing
<1>4. Linked(Tail(s))' /\ InHand(Tail(s))'
  BY <1>2, <1>3, FirstLeaves
<1>5. Dequeuing(Tail(s))'
  BY <1>2 DEF Dequeuing
<1>6. \A p \in MidPublish : pnode[p] # s[1]
  BY NotBehindFirst
<1> QED BY <1>1, <1>2, <1>3, <1>4, <1>5, <1>6 DEF ChainInv

\* try_dequeue, front against the tail: with nothing behind it front is alone on
\* the chain, so the stub is not on it and may be put there.
LEMMA CheckLastKeeps ==
  ASSUME NEW s, TypeOK, ChainInv(s), CheckLast
  PROVE  ChainInv(s)'
<1>1. /\ s \in Seq(Nodes) /\ Len(s) \in Nat /\ Len(s) >= 1 /\ Injective(s)
      /\ head = s[1] /\ tail = s[Len(s)]
  BY GhostFacts
<1>2. /\ cpc = "decide" /\ cnext = None /\ UNCHANGED <<head, tail, next, pvars>> /\ held' \in {held, None}
      /\ \/ cpc' = "idle" /\ status' = "Busy"
         \/ /\ front = tail /\ cpc' = "rearm"
            /\ UNCHANGED <<front, cnext, cprev, status, held, overlap>>
  BY DEF CheckLast, Return
<1>3. front = head /\ head # Stub /\ held = None /\ (MidPublish # {} => overlap)
  BY <1>2 DEF ChainInv, Dequeuing
<1>4. Linked(s)' /\ InHand(s)'
  BY <1>2, SameChain
<1>5. MidPublish' = MidPublish
  BY <1>2 DEF MidPublish, pvars
<1>6. front = tail => Stub \notin On(s)
  <2> SUFFICES ASSUME front = tail PROVE Stub \notin On(s)
    OBVIOUS
  <2>0. 1 \in 1..Len(s) /\ Len(s) \in 1..Len(s) /\ s[1] = s[Len(s)]
    BY <1>1, <1>3
  <2>1. Len(s) = 1
    BY <1>1, <2>0 DEF Injective
  <2> QED BY <1>1, <1>3, <2>1 DEF On
<1>7. Dequeuing(s)'
  BY <1>2, <1>3, <1>5, <1>6 DEF Dequeuing, On
<1> QED BY <1>4, <1>7 DEF ChainInv

\* The owner gives the descriptor back (reclaim_).
LEMMA ReclaimKeeps ==
  ASSUME NEW s, TypeOK, ChainInv(s), Reclaim
  PROVE  ChainInv(s)'
<1>1. /\ held # None /\ held' = None
      /\ UNCHANGED <<head, tail, next, pvars, cpc, front, cnext, cprev, status, overlap>>
  BY DEF Reclaim
<1>2. cpc = "idle"
  BY <1>1 DEF ChainInv, Dequeuing, TypeOK
<1>3. Linked(s)' /\ InHand(s)'
  BY <1>1, <1>2, SameChain
<1>4. Dequeuing(s)'
  BY <1>1, <1>2 DEF ChainInv, Dequeuing
<1> QED BY <1>3, <1>4 DEF ChainInv

\* The re-arm clears the link of the stub, which is not on the chain.
LEMMA RearmClearKeeps ==
  ASSUME NEW s, TypeOK, ChainInv(s), RearmClear
  PROVE  ChainInv(s)'
<1>1. /\ s \in Seq(Nodes) /\ Len(s) \in Nat /\ Len(s) >= 1 /\ Injective(s)
      /\ \A i \in 1..Len(s) : s[i] \in Nodes /\ s[i] \in On(s)
      /\ head = s[1] /\ tail = s[Len(s)] /\ head \in On(s) /\ tail \in On(s)
  BY GhostFacts
<1>2. /\ cpc = "rearm" /\ cpc' = "rearm_exchange" /\ next'[Stub] = None
      /\ \A n \in Nodes : n # Stub => next'[n] = next[n]
      /\ UNCHANGED <<head, tail, pvars, front, cnext, cprev, status, held, overlap>>
  BY NodesAreFinite DEF RearmClear, TypeOK
<1>3. Stub \notin On(s) /\ front = head /\ head # Stub /\ held = None /\ (MidPublish # {} => overlap)
  BY <1>2 DEF ChainInv, Dequeuing
<1>4. \A i \in 1..Len(s) : next'[s[i]] = next[s[i]]
  BY <1>1, <1>2, <1>3
<1>5. Linked(s)'
  <2>1. \A i \in 1..(Len(s) - 1) :
          next'[s[i]] = s[i + 1] \/ (next'[s[i]] = None /\ Pending(s[i], s[i + 1])')
    <3> TAKE i \in 1..(Len(s) - 1)
    <3>1. next'[s[i]] = next[s[i]]
      BY <1>1, <1>4
    <3>2. Pending(s[i], s[i + 1]) => Pending(s[i], s[i + 1])'
      BY <1>2 DEF Pending, pvars
    <3> QED BY <3>1, <3>2 DEF ChainInv, Linked
  <2>2. next'[s[Len(s)]] = None
    BY <1>1, <1>4 DEF ChainInv, Linked
  <2> QED BY <1>2, <2>1, <2>2 DEF ChainInv, Linked
<1>6. \A n, m : Behind(n, m, s) => Gap(next', n, m, s)
  BY <1>1, <1>4 DEF Behind, Gap
<1>7. InHand(s)'
  <2>1. \A q \in Producers : ppc'[q] = "link" => Gap(next', pprev'[q], pnode'[q], s)
    BY <1>2, <1>6 DEF ChainInv, InHand, pvars
  <2>2. \A q \in Producers : ppc'[q] = "exchange" =>
           pnode'[q] \notin On(s) /\ next'[pnode'[q]] = None /\ pnode'[q] # held'
    BY <1>2, NodesAssumption DEF ChainInv, InHand, pvars, Nodes
  <2> QED BY <1>2, <2>1, <2>2 DEF ChainInv, InHand, Behind, Gap, On, pvars
<1>8. MidPublish' = MidPublish
  BY <1>2 DEF MidPublish, pvars
<1>9. Dequeuing(s)'
  BY <1>2, <1>3, <1>8 DEF Dequeuing, On
<1> QED BY <1>5, <1>7, <1>9 DEF ChainInv

\* The re-arm's exchange puts the stub behind whatever is last by then.
LEMMA RearmExchangeKeeps ==
  ASSUME NEW s, TypeOK, ChainInv(s), RearmExchange
  PROVE  ChainInv(Append(s, Stub))' /\ Stub \notin On(s)
<1>1. /\ s \in Seq(Nodes) /\ Len(s) \in Nat /\ Len(s) >= 1 /\ Injective(s)
      /\ \A i \in 1..Len(s) : s[i] \in Nodes /\ s[i] \in On(s)
      /\ head = s[1] /\ tail = s[Len(s)] /\ head \in On(s) /\ tail \in On(s)
  BY GhostFacts
<1> DEFINE t == Append(s, Stub)
<1>2. /\ cpc = "rearm_exchange" /\ cprev' = tail /\ tail' = Stub /\ cpc' = "rearm_link"
      /\ UNCHANGED <<head, next, pvars, front, cnext, status, held, overlap>>
  BY DEF RearmExchange
<1>3. /\ Stub \notin On(s) /\ next[Stub] = None /\ front = head /\ head # Stub /\ held = None
      /\ (MidPublish # {} => overlap)
  BY <1>2 DEF ChainInv, Dequeuing
<1>4. \A a, b : Pending(a, b) => Pending(a, b)'
  BY <1>2 DEF Pending, pvars
<1>5. Pending(s[Len(s)], Stub)'
  BY <1>1, <1>2 DEF Pending
<1>6. /\ Linked(t)' /\ On(t) = On(s) \cup {Stub} /\ Len(t) = Len(s) + 1
      /\ \A n, m : Behind(n, m, s) => Behind(n, m, t)
      /\ Behind(tail, Stub, t)
  BY <1>2, <1>3, <1>4, <1>5, NodesAreFinite, TailMoves
<1> HIDE DEF t
<1>7. InHand(t)'
  <2>1. \A q \in Producers : ppc[q] = "link" => Behind(pprev[q], pnode[q], t)
    BY <1>6 DEF ChainInv, InHand
  <2>2. \A q \in Producers : ppc[q] = "exchange" => pnode[q] \notin On(t)
    BY <1>6, NodesAssumption DEF ChainInv, InHand
  <2>3. held \notin On(t)
    BY <1>3, <1>6, NodesAssumption DEF ChainInv, InHand
  <2> QED BY <1>2, <2>1, <2>2, <2>3 DEF ChainInv, InHand, Behind, On, pvars
<1>8. MidPublish' = MidPublish
  BY <1>2 DEF MidPublish, pvars
<1>9. Behind(cprev, Stub, t)'
  BY <1>2, <1>6 DEF Behind
<1>10. Dequeuing(t)'
  BY <1>2, <1>3, <1>8, <1>9 DEF Dequeuing
<1> QED BY <1>3, <1>6, <1>7, <1>10 DEF ChainInv, t

\* The re-arm writes its link: front has a successor, or a producer is about to
\* link one.
LEMMA RearmLinkKeeps ==
  ASSUME NEW s, TypeOK, ChainInv(s), RearmLink
  PROVE  ChainInv(s)'
<1>1. /\ s \in Seq(Nodes) /\ Len(s) \in Nat /\ Len(s) >= 1 /\ Injective(s)
      /\ \A i \in 1..Len(s) : s[i] \in Nodes /\ s[i] \in On(s)
      /\ head = s[1] /\ tail = s[Len(s)] /\ head \in On(s) /\ tail \in On(s)
  BY GhostFacts
<1>2. /\ cpc = "rearm_link" /\ next' = [next EXCEPT ![cprev] = Stub] /\ cpc' = "reload"
      /\ UNCHANGED <<head, tail, pvars, front, cnext, cprev, status, held, overlap>>
  BY DEF RearmLink
<1>3. /\ Behind(cprev, Stub, s) /\ front = head /\ head # Stub /\ held = None
      /\ (MidPublish # {} => overlap)
  BY <1>2 DEF ChainInv, Dequeuing
<1>4. PendingBut(cprev)
  BY <1>2 DEF Pending, PendingBut, pvars
<1>5. /\ Linked(s)' /\ cprev \in On(s) /\ StoredAt(cprev, Stub)
      /\ \A a, b : (Behind(a, b, s) /\ b # Stub) => Gap(next', a, b, s)
  <2>1. cprev \in Nodes
    BY <1>1, <1>3 DEF Behind
  <2>2. StoredAt(cprev, Stub)
    BY <2>1, <1>2 DEF StoredAt, TypeOK
  <2>3. UNCHANGED <<head, tail>>
    BY <1>2
  <2> QED BY <2>2, <2>3, <1>3, <1>4, LinkWritten
<1>6. Len(s) >= 2
  BY <1>1, <1>3 DEF Behind
<1>7. InHand(s)'
  <2>1. \A q \in Producers : ppc'[q] = "link" => Gap(next', pprev'[q], pnode'[q], s)
    <3> TAKE q \in Producers
    <3> HAVE ppc'[q] = "link"
    <3>1. Behind(pprev[q], pnode[q], s) /\ pnode[q] # Stub
      BY <1>2, NodesAssumption DEF ChainInv, InHand, pvars
    <3> QED BY <3>1, <1>2, <1>5 DEF pvars
  <2>2. \A q \in Producers : ppc'[q] = "exchange" =>
           pnode'[q] \notin On(s) /\ next'[pnode'[q]] = None /\ pnode'[q] # held'
    BY <1>2, <1>5 DEF ChainInv, InHand, pvars, Nodes, StoredAt
  <2> QED BY <1>2, <2>1, <2>2 DEF ChainInv, InHand, Behind, Gap, On, pvars
<1>8. MidPublish' = MidPublish
  BY <1>2 DEF MidPublish, pvars
<1>9. Dequeuing(s)'
  BY <1>2, <1>3, <1>6, <1>8 DEF Dequeuing
<1> QED BY <1>5, <1>7, <1>9 DEF ChainInv

\* The reload after the re-arm: front is taken when its link is there, and else
\* a producer raced the re-arm and has not linked yet.
LEMMA ReloadKeeps ==
  ASSUME NEW s, TypeOK, ChainInv(s), Reload
  PROVE  /\ next[front] # None => /\ ChainInv(Tail(s))' /\ s[1] # Stub /\ held' = s[1]
                                  /\ \A p \in MidPublish : pnode[p] # s[1]
         /\ next[front] = None => ChainInv(s)' /\ held' = None /\ overlap /\ s[1] # Stub
<1>1. /\ s \in Seq(Nodes) /\ Len(s) \in Nat /\ Len(s) >= 1 /\ Injective(s) /\ head = s[1]
  BY GhostFacts
<1>2. /\ cpc = "reload" /\ cpc' = "idle" /\ status' \in {"Message", "Busy"}
      /\ UNCHANGED <<tail, next, pvars>>
  BY DEF Reload, Return
<1>3. front = head /\ head # Stub /\ held = None /\ (MidPublish # {} => overlap) /\ Len(s) >= 2
  BY <1>2 DEF ChainInv, Dequeuing
<1>4. ASSUME next[front] # None
      PROVE  /\ ChainInv(Tail(s))' /\ s[1] # Stub /\ held' = s[1]
             /\ \A p \in MidPublish : pnode[p] # s[1]
  <2>1. head' = next[head] /\ held' = head
    BY <1>3, <1>4 DEF Reload, Return
  <2>2. Linked(Tail(s))' /\ InHand(Tail(s))'
    BY <1>2, <1>3, <1>4, <2>1, FirstLeaves
  <2>3. Dequeuing(Tail(s))'
    BY <1>2 DEF Dequeuing
  <2>4. \A p \in MidPublish : pnode[p] # s[1]
    BY NotBehindFirst
  <2> QED BY <1>1, <1>3, <2>1, <2>2, <2>3, <2>4 DEF ChainInv
<1>5. ASSUME next[front] = None PROVE ChainInv(s)' /\ held' = None /\ overlap /\ s[1] # Stub
  <2>1. head' = head /\ held' = None
    BY <1>5 DEF Reload, Return
  <2>2. Linked(s)' /\ InHand(s)'
    BY <1>2, <2>1, SameChain
  <2>3. Dequeuing(s)'
    <3>1. status' = "Busy"
      BY <1>5 DEF Reload, Return
    <3> QED BY <1>2, <3>1 DEF Dequeuing
  <2>4. MidPublish # {}
    BY <1>2, <1>3, <1>5, FirstGap
  <2> QED BY <1>1, <1>3, <2>1, <2>2, <2>3, <2>4 DEF ChainInv
<1> QED BY <1>4, <1>5

-----------------------------------------------------------------------------
\* A new mailbox is the stub alone.
LEMMA InitHolds == Init => TypeOK /\ ChainInv(<<Stub>>)
<1> SUFFICES ASSUME Init PROVE TypeOK /\ ChainInv(<<Stub>>)
  OBVIOUS
<1>1. TypeOK
  BY NodesAreFinite DEF Init, TypeOK
<1>2. Linked(<<Stub>>)
  BY NodesAreFinite DEF Init, Linked, Injective
<1>3. InHand(<<Stub>>)
  BY NodesAreFinite DEF Init, InHand, On
<1>4. Dequeuing(<<Stub>>)
  BY DEF Init, Dequeuing
<1> QED BY <1>1, <1>2, <1>3, <1>4 DEF ChainInv

\* No access stores anything but a node or nullptr.
LEMMA TypeStep ==
  ASSUME NEW s, TypeOK, ChainInv(s), [Next]_vars
  PROVE  TypeOK'
<1> USE NodesAreFinite
<1>1. \A d \in Descriptors : d \in Nodes /\ d # None
  BY DEF Nodes
<1>2. ASSUME NEW p \in Producers, NEW d \in Descriptors, ClearLink(p, d) PROVE TypeOK'
  BY <1>1, <1>2 DEF ClearLink, TypeOK, cvars
<1>3. ASSUME NEW p \in Producers, Exchange(p) PROVE TypeOK'
  <2>1. pnode[p] \in Nodes
    BY <1>1, <1>3 DEF Exchange, ChainInv, InHand
  <2> QED BY <2>1, <1>3 DEF Exchange, TypeOK, cvars
<1>4. ASSUME NEW p \in Producers, Link(p) PROVE TypeOK'
  BY ZenonT(40), <1>1, <1>4 DEF Link, TypeOK, cvars
<1>5. ASSUME LoadFront PROVE TypeOK'
  BY <1>5 DEF LoadFront, TypeOK, pvars
<1>6. ASSUME StubTail PROVE TypeOK'
  BY <1>6 DEF StubTail, Return, TypeOK, pvars
<1>7. ASSUME SkipStub PROVE TypeOK'
  <2>1. cnext \in Nodes
    BY <1>7 DEF SkipStub, TypeOK, ChainInv, Dequeuing
  <2> QED BY <2>1, <1>7 DEF SkipStub, TypeOK, pvars
<1>8. ASSUME Pop PROVE TypeOK'
  <2>1. cnext \in Nodes /\ front \in Descriptors
    BY <1>8 DEF Pop, TypeOK, ChainInv, Dequeuing, Nodes
  <2> QED BY <2>1, <1>8 DEF Pop, Return, TypeOK, pvars
<1>9. ASSUME CheckLast PROVE TypeOK'
  BY <1>9 DEF CheckLast, Return, TypeOK, pvars
<1>10. ASSUME RearmClear PROVE TypeOK'
  BY <1>10 DEF RearmClear, TypeOK, pvars
<1>11. ASSUME RearmExchange PROVE TypeOK'
  BY <1>11 DEF RearmExchange, TypeOK, pvars
<1>12. ASSUME RearmLink PROVE TypeOK'
  BY <1>12 DEF RearmLink, TypeOK, pvars
<1>13. ASSUME Reload PROVE TypeOK'
  <2>1. front \in Descriptors
    BY <1>13 DEF Reload, TypeOK, ChainInv, Dequeuing, Nodes
  <2>2. next[front] \in Nodes \cup {None}
    BY <2>1 DEF TypeOK, Nodes
  <2>3. head' \in Nodes /\ held' \in Descriptors \cup {None} /\ status' \in {"Message", "Busy"}
    BY <1>13, <2>1, <2>2 DEF Reload, Return, TypeOK
  <2> QED BY <2>3, <1>13 DEF Reload, Return, TypeOK, pvars
<1>14. ASSUME Reclaim PROVE TypeOK'
  BY <1>14 DEF Reclaim, TypeOK, pvars
<1>15. ASSUME UNCHANGED vars PROVE TypeOK'
  BY <1>15 DEF vars, pvars, cvars, TypeOK
<1> QED BY <1>2, <1>3, <1>4, <1>5, <1>6, <1>7, <1>8, <1>9, <1>10, <1>11, <1>12, <1>13, <1>14, <1>15
        DEF Next, ProducerStep, ConsumerStep

\* A ghost sequence that satisfies the invariant in the next state is the chain
\* there.
LEMMA ChainBecomes ==
  ASSUME NEW t, TypeOK', ChainInv(t)'
  PROVE  Chain' = t /\ IInv'
<1>1. Chain' = t
  BY ChainIsNext
<1>2. ChainInv(Chain)'
  BY <1>1 DEF ChainInv, Linked, InHand, Dequeuing, On, Behind, Pending, Injective
<1> QED BY <1>1, <1>2 DEF IInv

\* Stuttering keeps the invariant.
LEMMA IdleKeeps ==
  ASSUME NEW s, ChainInv(s), UNCHANGED vars
  PROVE  ChainInv(s)'
BY DEF vars, pvars, cvars, ChainInv, Linked, InHand, Dequeuing, On, Behind, Pending, Injective, MidPublish

\* The invariant is inductive.
LEMMA IInvStep == IInv /\ [Next]_vars => IInv'
<1> SUFFICES ASSUME IInv, [Next]_vars PROVE IInv'
  OBVIOUS
<1> PICK s : s = Chain
  OBVIOUS
<1>1. TypeOK /\ Chain = s /\ ChainInv(s)
  <2>1. TypeOK /\ ChainInv(Chain)
    BY DEF IInv
  <2> QED BY <2>1 DEF ChainInv, Linked, InHand, Dequeuing, On, Behind, Pending, Injective
<1>2. TypeOK'
  BY <1>1, TypeStep
<1> USE <1>1, <1>2
<1>3. ASSUME NEW p \in Producers, ProducerStep(p) PROVE IInv'
  <2>1. ASSUME NEW d \in Descriptors, ClearLink(p, d) PROVE IInv'
    BY <2>1, ClearLinkKeeps, ChainBecomes
  <2>2. ASSUME Exchange(p) PROVE IInv'
    <3> PICK d : d = pnode[p]
      OBVIOUS
    <3>1. ChainInv(Append(s, d))'
      BY <2>2, ExchangeKeeps
    <3> QED BY <3>1, ChainBecomes
  <2>3. ASSUME Link(p) PROVE IInv'
    BY <2>3, LinkKeeps, ChainBecomes
  <2> QED BY <1>3, <2>1, <2>2, <2>3 DEF ProducerStep
<1>4. ASSUME LoadFront PROVE IInv'
  BY <1>4, LoadFrontKeeps, ChainBecomes
<1>5. ASSUME StubTail PROVE IInv'
  BY <1>5, StubTailKeeps, ChainBecomes
<1>6. ASSUME SkipStub PROVE IInv'
  <2>1. ChainInv(Tail(s))'
    BY <1>6, SkipStubKeeps
  <2> QED BY <2>1, ChainBecomes
<1>7. ASSUME Pop PROVE IInv'
  <2>1. ChainInv(Tail(s))'
    BY <1>7, PopKeeps
  <2> QED BY <2>1, ChainBecomes
<1>8. ASSUME CheckLast PROVE IInv'
  BY <1>8, CheckLastKeeps, ChainBecomes
<1>9. ASSUME RearmClear PROVE IInv'
  BY <1>9, RearmClearKeeps, ChainBecomes
<1>10. ASSUME RearmExchange PROVE IInv'
  <2>1. ChainInv(Append(s, Stub))'
    BY <1>10, RearmExchangeKeeps
  <2> QED BY <2>1, ChainBecomes
<1>11. ASSUME RearmLink PROVE IInv'
  BY <1>11, RearmLinkKeeps, ChainBecomes
<1>12. ASSUME Reload PROVE IInv'
  <2>1. CASE next[front] # None
    <3>1. ChainInv(Tail(s))'
      BY <1>12, <2>1, ReloadKeeps
    <3> QED BY <3>1, ChainBecomes
  <2>2. CASE next[front] = None
    <3>1. ChainInv(s)'
      BY <1>12, <2>2, ReloadKeeps
    <3> QED BY <3>1, ChainBecomes
  <2> QED BY <2>1, <2>2
<1>13. ASSUME Reclaim PROVE IInv'
  BY <1>13, ReclaimKeeps, ChainBecomes
<1>14. ASSUME UNCHANGED vars PROVE IInv'
  BY <1>14, IdleKeeps, ChainBecomes
<1> QED BY <1>3, <1>4, <1>5, <1>6, <1>7, <1>8, <1>9, <1>10, <1>11, <1>12, <1>13, <1>14
        DEF Next, ConsumerStep

\* It holds of a new mailbox.
LEMMA IInvInit == Init => IInv
<1> SUFFICES ASSUME Init PROVE IInv
  OBVIOUS
<1>1. TypeOK /\ ChainInv(<<Stub>>)
  BY InitHolds
<1>2. Chain = <<Stub>>
  BY <1>1, ChainIs
<1> QED BY <1>1, <1>2 DEF IInv, ChainInv, Linked, InHand, Dequeuing, On, Behind, Pending, Injective

\* The inductive invariant of every execution.
LEMMA Invariance == Spec => []IInv
BY IInvInit, IInvStep, PTL DEF Spec

\* head_, tail_, the links and the locals of both sides keep their types; head_
\* and tail_ are never null (TypeOK).
THEOREM TypesHold == Spec => []TypeOK
<1>1. IInv => TypeOK
  BY DEF IInv
<1> QED BY <1>1, Invariance, PTL

\* For any number of producers and descriptors: from head_ every node up to the
\* tail is reached over links that are written or in the hands of the thread
\* that is about to write them, each once, so a producer that stalls in mid-
\* publish hides what is behind it but loses nothing (ChainReachesTail;
\* link_push, try_dequeue).
THEOREM ChainIsWhole == Spec => []ChainReachesTail
<1>1. IInv => ChainReachesTail
  BY DEF IInv, ChainInv, Linked, Injective, ChainReachesTail
<1> QED BY <1>1, Invariance, PTL

\* The probe that reads only tail_ (probe_has_work) is complete where the close-
\* out uses it: after an attempt that said Empty the tail is off the stub
\* exactly when something has been exchanged in (ProbeCompleteAfterEmpty).
THEOREM ProbeIsComplete == Spec => []ProbeCompleteAfterEmpty
<1>1. IInv => ProbeCompleteAfterEmpty
  <2> SUFFICES ASSUME IInv, cpc = "idle", status = "Empty" PROVE probe_has_work <=> Contents # <<>>
    BY DEF ProbeCompleteAfterEmpty
  <2>1. /\ Chain \in Seq(Nodes) /\ Chain # <<>> /\ Injective(Chain) /\ head = Chain[1]
        /\ tail = Chain[Len(Chain)] /\ head = Stub
    BY DEF IInv, ChainInv, Linked, Dequeuing
  <2> DEFINE s == Chain
             u == Unstubbed[s]
  <2> HIDE DEF s, u
  <2>2. s \in Seq(Nodes) /\ s # <<>> /\ Injective(s) /\ s[1] = Stub /\ tail = s[Len(s)]
    BY <2>1 DEF s
  <2>3. Len(s) \in Nat /\ Len(s) >= 1 /\ 1 \in 1..Len(s) /\ Len(s) \in 1..Len(s) /\ Stub \in On(s)
    BY <2>2 DEF On
  <2>4. u \in Seq(Descriptors) /\ Len(u) = Len(s) - 1
    BY <2>2, <2>3, UnstubbedIs DEF u
  <2>5. tail = Stub <=> Len(s) = 1
    BY <2>2, <2>3 DEF Injective
  <2>6. u = <<>> <=> Len(s) = 1
    BY <2>3, <2>4
  <2> QED BY <2>5, <2>6 DEF Contents, probe_has_work, u, s
<1> QED BY <1>1, Invariance, PTL

-----------------------------------------------------------------------------
\* The abstract queue is the chain without the stub.
LEMMA ContentsAre ==
  ASSUME NEW s, ChainInv(s), Chain = s
  PROVE  /\ Contents = Unstubbed[s] /\ Contents \in Seq(Descriptors)
         /\ Abs!InQueue = On(s) \ {Stub}
         /\ head # Stub => Contents # <<>>
         /\ tail # Stub => Contents # <<>>
<1>1. /\ s \in Seq(Nodes) /\ Len(s) \in Nat /\ Len(s) >= 1 /\ Injective(s) /\ s # <<>>
      /\ head = s[1] /\ head \in On(s) /\ tail \in On(s)
  BY GhostFacts DEF ChainInv, Linked
<1>2. Contents = Unstubbed[s]
  BY DEF Contents
<1>3. Unstubbed[s] \in Seq(Descriptors) /\ On(Unstubbed[s]) = On(s) \ {Stub}
  BY <1>1, UnstubbedIs
<1>4. Abs!InQueue = On(Contents)
  BY DEF Abs!InQueue, On
<1>5. On(Contents) # {} => Contents # <<>>
  BY <1>2, <1>3 DEF On
<1> QED BY <1>1, <1>2, <1>3, <1>4, <1>5

\* The stub alone is the empty queue.
LEMMA StubOnly ==
  ASSUME NEW s, ChainInv(s), Chain = s, head = Stub, tail = Stub
  PROVE  Contents = <<>>
<1>1. /\ s \in Seq(Nodes) /\ Len(s) \in Nat /\ Len(s) >= 1 /\ Injective(s)
      /\ head = s[1] /\ tail = s[Len(s)] /\ head \in On(s)
  BY GhostFacts
<1>2. 1 \in 1..Len(s) /\ Len(s) \in 1..Len(s)
  BY <1>1
<1>3. Len(s) = 1
  BY <1>1, <1>2 DEF Injective
<1>4. Unstubbed[s] \in Seq(Descriptors) /\ Len(Unstubbed[s]) = 0
  BY <1>1, <1>3, UnstubbedIs
<1> QED BY <1>4 DEF Contents

\* Every access maps to a step of the abstract queue or to a stutter: the tail
\* exchange is Exchange, the link store Publish, the first load Begin, and the
\* access that ends the attempt is Take, SayEmpty or SayBusy; clearing a link,
\* skipping the stub and the three accesses of the re-arm are invisible.
LEMMA StepMaps == IInv /\ [Next]_vars => [Abs!Next]_(Abs!vars)
<1> SUFFICES ASSUME IInv, [Next]_vars PROVE [Abs!Next]_(Abs!vars)
  OBVIOUS
<1> PICK s : s = Chain
  OBVIOUS
<1>1. TypeOK /\ Chain = s /\ ChainInv(s)
  <2>1. TypeOK /\ ChainInv(Chain)
    BY DEF IInv
  <2> QED BY <2>1 DEF ChainInv, Linked, InHand, Dequeuing, On, Behind, Pending, Injective
<1>2. TypeOK'
  BY <1>1, TypeStep
<1> USE <1>1, <1>2
<1>3. /\ s \in Seq(Nodes) /\ Injective(s) /\ s # <<>> /\ head = s[1] /\ tail = s[Len(s)]
      /\ Contents = Unstubbed[s] /\ Abs!InQueue = On(s) \ {Stub}
      /\ head # Stub => Contents # <<>>
      /\ tail # Stub => Contents # <<>>
  BY ContentsAre, GhostFacts DEF ChainInv, Linked
<1>4. \A t : Chain' = t => Contents' = Unstubbed[t]
  BY DEF Contents
<1>5. ASSUME Chain' = s, Publishing' = Publishing, (cpc # "idle")' = (cpc # "idle"),
             UNCHANGED <<overlap, held>>
      PROVE  UNCHANGED Abs!vars
  <2>1. Contents' = Contents
    BY <1>3, <1>4, <1>5
  <2> QED BY <1>5, <2>1 DEF Abs!vars
<1>6. pvars' = pvars => Publishing' = Publishing /\ MidPublish' = MidPublish
  BY DEF pvars, Publishing, MidPublish
<1>7. ASSUME NEW p \in Producers, NEW d \in Descriptors, ClearLink(p, d) PROVE UNCHANGED Abs!vars
  <2>1. Chain' = s
    BY <1>7, ClearLinkKeeps, ChainBecomes
  <2>2. MidPublish' = MidPublish /\ \A q \in MidPublish : pnode'[q] = pnode[q]
    BY <1>7 DEF ClearLink, MidPublish, TypeOK
  <2>3. Publishing' = Publishing
    BY <2>2 DEF Publishing
  <2> QED BY <2>1, <2>3, <1>5, <1>7 DEF ClearLink, cvars
<1>8. ASSUME NEW p \in Producers, Exchange(p) PROVE Abs!Next
  <2> PICK d : d = pnode[p]
    OBVIOUS
  <2>1. d \in Descriptors /\ d \notin On(s) /\ d # held /\ ChainInv(Append(s, d))'
    BY <1>8, ExchangeKeeps
  <2>2. Chain' = Append(s, d)
    BY <2>1, ChainBecomes
  <2>3. d \in Nodes /\ d # Stub
    BY <2>1, NodesAssumption DEF Nodes
  <2>4. Contents' = Append(Contents, d)
    BY ZenonT(40), <2>1, <2>2, <2>3, <1>3, <1>4, UnstubbedAppend
  <2>5. MidPublish' = MidPublish \cup {p} /\ pnode' = pnode
    BY <1>8 DEF Exchange, MidPublish, TypeOK
  <2>6. Publishing' = Publishing \cup {d}
    BY <2>5 DEF Publishing
  <2>7. overlap' = (cpc # "idle") /\ cpc' = cpc /\ held' = held
    BY <1>8 DEF Exchange, cvars
  <2>8. Abs!Exchange(d)
    BY <2>1, <2>4, <2>6, <2>7, <1>3 DEF Abs!Exchange
  <2> QED BY <2>1, <2>8 DEF Abs!Next
<1>9. ASSUME NEW p \in Producers, Link(p) PROVE Abs!Next
  <2> PICK d : d = pnode[p]
    OBVIOUS
  <2>1. Chain' = s
    BY <1>9, LinkKeeps, ChainBecomes
  <2>2. p \in MidPublish /\ d \in Descriptors /\ d # None
    BY <1>9, NodesAssumption DEF Link, MidPublish, ChainInv, InHand
  <2>3. MidPublish' = MidPublish \ {p} /\ \A q \in MidPublish \ {p} : pnode'[q] = pnode[q] /\ pnode[q] # d
    BY <1>9, <2>2 DEF Link, MidPublish, TypeOK, ChainInv, InHand
  <2>4. Publishing' = Publishing \ {d} /\ d \in Publishing
    BY <2>2, <2>3 DEF Publishing
  <2>5. UNCHANGED <<cpc, overlap, held>>
    BY <1>9 DEF Link, cvars
  <2>6. Abs!Publish(d)
    BY <2>1, <2>4, <2>5, <1>3, <1>4 DEF Abs!Publish
  <2> QED BY <2>2, <2>6 DEF Abs!Next
<1>10. ASSUME LoadFront PROVE Abs!Next
  <2>1. Chain' = s
    BY <1>10, LoadFrontKeeps, ChainBecomes
  <2>2. /\ cpc = "idle" /\ held = None /\ pvars' = pvars /\ held' = held /\ cpc' # "idle"
        /\ overlap' = (MidPublish # {})
    BY <1>10 DEF LoadFront
  <2>3. MidPublish # {} <=> Publishing # {}
    BY DEF Publishing
  <2>4. Abs!Begin
    BY <2>1, <2>2, <2>3, <1>3, <1>4, <1>6 DEF Abs!Begin
  <2> QED BY <2>4 DEF Abs!Next
<1>11. ASSUME StubTail PROVE Abs!Next
  <2>1. Chain' = s
    BY <1>11, StubTailKeeps, ChainBecomes
  <2>2. /\ cpc # "idle" /\ cpc' = "idle" /\ pvars' = pvars /\ held' = None /\ held = None /\ overlap' = FALSE
        /\ head = Stub
    BY <1>11 DEF StubTail, Return, ChainInv, Dequeuing
  <2>3. CASE tail = Stub
    <3>1. Contents = <<>>
      BY <2>2, <2>3, StubOnly
    <3>2. Abs!SayEmpty
      BY <2>1, <2>2, <3>1, <1>3, <1>4, <1>6 DEF Abs!SayEmpty
    <3> QED BY <3>2 DEF Abs!Next
  <2>4. CASE tail # Stub
    <3>1. overlap
      BY <1>11, <1>3, <2>2, <2>4 DEF StubTail, ChainInv, Dequeuing
    <3>2. Abs!SayBusy
      BY <2>1, <2>2, <2>4, <3>1, <1>3, <1>4, <1>6 DEF Abs!SayBusy
    <3> QED BY <3>2 DEF Abs!Next
  <2> QED BY <2>3, <2>4
<1>12. ASSUME SkipStub PROVE UNCHANGED Abs!vars
  <2>1. ChainInv(Tail(s))' /\ s[1] = Stub
    BY <1>12, SkipStubKeeps
  <2>2. Chain' = Tail(s)
    BY <2>1, ChainBecomes
  <2>3. Contents' = Contents
    BY <2>1, <2>2, <1>3, <1>4, UnstubbedTail
  <2>4. UNCHANGED <<overlap, held>> /\ pvars' = pvars /\ (cpc # "idle")' = (cpc # "idle")
    BY <1>12 DEF SkipStub
  <2> QED BY <2>3, <2>4, <1>6 DEF Abs!vars
<1>13. ASSUME ChainInv(Tail(s))', s[1] # Stub, held' = s[1], \A p \in MidPublish : pnode[p] # s[1],
              cpc # "idle", cpc' = "idle", overlap' = FALSE, pvars' = pvars
       PROVE  Abs!Next
  <2>1. Chain' = Tail(s)
    BY <1>13, ChainBecomes
  <2>2. Contents # <<>> /\ Head(Contents) = s[1] /\ Contents' = Tail(Contents)
    BY <2>1, <1>13, <1>3, <1>4, UnstubbedTail
  <2>3. s[1] \notin Publishing
    BY <1>13 DEF Publishing
  <2>4. Abs!Take
    BY <2>2, <2>3, <1>13, <1>6 DEF Abs!Take
  <2> QED BY <2>4 DEF Abs!Next
<1>14. ASSUME Pop PROVE Abs!Next
  <2>1. cpc # "idle" /\ cpc' = "idle" /\ overlap' = FALSE /\ pvars' = pvars
    BY <1>14 DEF Pop, Return
  <2> QED BY <2>1, <1>13, <1>14, PopKeeps
<1>15. ASSUME Chain' = s, held' = None, overlap, s[1] # Stub, cpc # "idle", cpc' = "idle",
              overlap' = FALSE, pvars' = pvars
       PROVE  Abs!Next
  <2>1. held = None
    BY <1>15 DEF ChainInv, Dequeuing
  <2>2. Abs!SayBusy
    BY <2>1, <1>15, <1>3, <1>4, <1>6 DEF Abs!SayBusy
  <2> QED BY <2>2 DEF Abs!Next
<1>16. ASSUME CheckLast PROVE [Abs!Next]_(Abs!vars)
  <2>1. Chain' = s
    BY <1>16, CheckLastKeeps, ChainBecomes
  <2>2. cpc = "decide" /\ cnext = None /\ front = head /\ head # Stub /\ pvars' = pvars
        /\ (overlap \/ Len(s) = 1)
    BY <1>16 DEF CheckLast, ChainInv, Dequeuing
  <2>3. CASE front # tail /\ Return("Busy", None)
    <3>1. overlap
      BY <2>2, <2>3, <1>3
    <3> QED BY <2>1, <2>2, <2>3, <3>1, <1>3, <1>15 DEF Return
  <2>4. CASE cpc' = "rearm" /\ UNCHANGED <<front, cnext, cprev, status, held, overlap>>
    BY <2>1, <2>2, <2>4, <1>5, <1>6
  <2> QED BY <1>16, <2>3, <2>4 DEF CheckLast
<1>17. ASSUME RearmClear PROVE UNCHANGED Abs!vars
  <2>1. Chain' = s
    BY <1>17, RearmClearKeeps, ChainBecomes
  <2> QED BY <2>1, <1>5, <1>6, <1>17 DEF RearmClear
<1>18. ASSUME RearmExchange PROVE UNCHANGED Abs!vars
  <2>1. ChainInv(Append(s, Stub))' /\ Stub \notin On(s)
    BY <1>18, RearmExchangeKeeps
  <2>2. Chain' = Append(s, Stub)
    BY <2>1, ChainBecomes
  <2>3. Contents' = Contents
    BY <2>1, <2>2, <1>3, <1>4, UnstubbedAppend, NodesAreFinite
  <2>4. UNCHANGED <<overlap, held>> /\ pvars' = pvars /\ (cpc # "idle")' = (cpc # "idle")
    BY <1>18 DEF RearmExchange
  <2> QED BY <2>3, <2>4, <1>6 DEF Abs!vars
<1>19. ASSUME RearmLink PROVE UNCHANGED Abs!vars
  <2>1. Chain' = s
    BY <1>19, RearmLinkKeeps, ChainBecomes
  <2> QED BY <2>1, <1>5, <1>6, <1>19 DEF RearmLink
<1>20. ASSUME Reload PROVE Abs!Next
  <2>1. cpc # "idle" /\ cpc' = "idle" /\ overlap' = FALSE /\ pvars' = pvars
    BY <1>20 DEF Reload, Return
  <2>2. CASE next[front] # None
    BY <2>1, <2>2, <1>13, <1>20, ReloadKeeps
  <2>3. CASE next[front] = None
    <3>1. ChainInv(s)' /\ held' = None /\ overlap /\ s[1] # Stub
      BY <2>3, <1>20, ReloadKeeps
    <3>2. Chain' = s
      BY <3>1, ChainBecomes
    <3> QED BY <2>1, <3>1, <3>2, <1>15
  <2> QED BY <2>2, <2>3
<1>21. ASSUME Reclaim PROVE Abs!Next
  <2>1. Chain' = s
    BY <1>21, ReclaimKeeps, ChainBecomes
  <2>2. held # None /\ held' = None /\ pvars' = pvars /\ UNCHANGED <<cpc, overlap>>
    BY <1>21 DEF Reclaim
  <2>3. Abs!GiveBack
    BY <2>1, <2>2, <1>3, <1>4, <1>6 DEF Abs!GiveBack
  <2> QED BY <2>3 DEF Abs!Next
<1>22. ASSUME UNCHANGED vars PROVE UNCHANGED Abs!vars
  <2>1. Chain' = s
    BY <1>22, IdleKeeps, ChainBecomes
  <2> QED BY <2>1, <1>5, <1>6, <1>22 DEF vars, cvars
<1> QED BY <1>7, <1>8, <1>9, <1>10, <1>11, <1>12, <1>14, <1>16, <1>17, <1>18, <1>19, <1>20, <1>21, <1>22
        DEF Next, ProducerStep, ConsumerStep

\* A new mailbox is the empty queue.
LEMMA InitMaps == Init => Abs!Init
<1> SUFFICES ASSUME Init PROVE Abs!Init
  OBVIOUS
<1>1. TypeOK /\ ChainInv(<<Stub>>)
  BY InitHolds
<1>2. Chain = <<Stub>>
  BY <1>1, ChainIs
<1>3. Contents = <<>>
  <2> PICK s : s = <<Stub>>
    OBVIOUS
  <2>1. ChainInv(s) /\ Chain = s
    BY <1>1, <1>2
  <2>2. head = Stub /\ tail = Stub
    BY DEF Init
  <2> QED BY <2>1, <2>2, StubOnly
<1>4. Publishing = {}
  BY DEF Init, Publishing, MidPublish
<1> QED BY <1>3, <1>4 DEF Init, Abs!Init

\* For any number of producers and descriptors the intrusive mailbox implements
\* the FIFO queue with the Busy answer: enqueue order is tail-exchange order, a
\* descriptor is handed out once and only when it is linked, Empty is said only
\* of an empty queue, and Busy only if a producer was mid-publish during the
\* attempt (RefinesMpscQueue).
THEOREM ImplementsQueue == Spec => RefinesMpscQueue
BY Invariance, InitMaps, StepMaps, PTL DEF Spec, RefinesMpscQueue, Abs!Spec
=============================================================================
