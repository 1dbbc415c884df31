--------------------------- MODULE RunQueueProofs ----------------------------
(***************************************************************************)
(* Proofs about module RunQueue, for any number of bands, any reserve      *)
(* period, and any producers and activations.                              *)
(*                                                                         *)
(* Lanes.  Between two accesses of try_pop the lane may have grown at its  *)
(* tail only, so what the owner saw of its front still holds: the stub is  *)
(* re-armed only where it is not in the lane, and the front node stays     *)
(* (Rearming).  Starvation.  A reserved turn goes to the first band from   *)
(* the cursor, and the cursor moves past it: every other visible band is   *)
(* strictly nearer at the next reserved turn, M turns later.  Lim is the   *)
(* number of turns a band may have waited for at its distance.             *)
(***************************************************************************)
EXTENDS RunQueue, SequenceTheorems, NaturalsInduction, WellFoundedInduction, TLAPS

-----------------------------------------------------------------------------
(* Distances and turns.                                                      *)

\* How far the cursor is from a band, going up and around.
LEMMA Distance ==
  ASSUME K \in Nat \ {0}, NEW b \in Bands, NEW c \in Bands
  PROVE  /\ (b - c) % K = IF c <= b THEN b - c ELSE b - c + K
         /\ (b - c) % K \in 0..(K - 1)
  BY DEF Bands

\* The cursor behind a band.
LEMMA Wrap ==
  ASSUME K \in Nat \ {0}, NEW c \in Bands
  PROVE  (c + 1) % K = IF c = K - 1 THEN 0 ELSE c + 1
  BY DEF Bands

\* A set of naturals has a least element.
LEMMA Least ==
  ASSUME NEW S, S \subseteq Nat, S # {}
  PROVE  \E x \in S : \A y \in S : x <= y
<1> DEFINE R == OpToRel(<, Nat)
<1>1. IsWellFoundedOn(R, Nat)
  BY NatLessThanWellFounded
<1>2. PICK x \in S : \A y \in S : ~(<<y, x>> \in R)
  <2> HIDE DEF R
  <2> QED BY <1>1, WFMin
<1>3. ASSUME NEW y \in S PROVE x <= y
  <2>1. ~(y < x)
    BY <1>2 DEF OpToRel
  <2> QED BY <2>1
<1> QED BY <1>3

\* The turns left at distance d, and what one step nearer adds.
LEMMA Room ==
  ASSUME NEW k \in Nat \ {0}, NEW d \in 0..(k - 1), NEW m \in Nat \ {0}
  PROVE  (k - 1 - d) * m \in Nat /\ (k - 1 - d) * m + m <= k * m /\ k * m \in Nat
  OBVIOUS

LEMMA Steps ==
  ASSUME NEW k \in Nat, NEW d \in Nat, NEW e \in Nat, NEW m \in Nat \ {0}, d < e, e < k
  PROVE  /\ (k - 1 - d) * m >= (k - 1 - e) * m + m
         /\ (k - 1 - d) * m + m <= k * m
         /\ (k - 1 - d) * m \in Nat
  OBVIOUS

-----------------------------------------------------------------------------
(* Lanes.                                                                    *)

In(q) == {q[i] : i \in 1..Len(q)}
NoDup(q) == \A i, j \in 1..Len(q) : q[i] = q[j] => i = j
Nodes == Acts \cup {Stub}

\* A lane without its front node.
LEMMA TailFacts ==
  ASSUME NEW q \in Seq(Nodes), q # <<>>, NoDup(q)
  PROVE  /\ Tail(q) \in Seq(Nodes) /\ Len(Tail(q)) = Len(q) - 1 /\ Len(q) \in Nat \ {0}
         /\ NoDup(Tail(q)) /\ In(Tail(q)) = In(q) \ {Head(q)} /\ Head(q) = q[1] /\ Head(q) \in In(q)
<1>1. Len(q) \in Nat /\ Len(q) # 0
  BY EmptySeq, LenProperties
<1>2. /\ Head(q) = q[1] /\ Tail(q) \in Seq(Nodes) /\ Len(Tail(q)) = Len(q) - 1
      /\ \A i \in 1..Len(Tail(q)) : Tail(q)[i] = q[i + 1]
  BY HeadTailProperties
<1>3. NoDup(Tail(q))
  <2> SUFFICES ASSUME NEW i \in 1..Len(Tail(q)), NEW j \in 1..Len(Tail(q)), Tail(q)[i] = Tail(q)[j] PROVE i = j
    BY DEF NoDup
  <2>1. i + 1 \in 1..Len(q) /\ j + 1 \in 1..Len(q) /\ q[i + 1] = q[j + 1]
    BY <1>1, <1>2
  <2>2. i + 1 = j + 1
    BY <2>1 DEF NoDup
  <2> QED BY <2>2
<1>4. In(Tail(q)) \subseteq In(q) \ {Head(q)}
  <2> SUFFICES ASSUME NEW i \in 1..Len(Tail(q)) PROVE Tail(q)[i] \in In(q) /\ Tail(q)[i] # q[1]
    BY <1>2 DEF In
  <2>1. i + 1 \in 1..Len(q) /\ 1 \in 1..Len(q) /\ i + 1 # 1 /\ Tail(q)[i] = q[i + 1]
    BY <1>1, <1>2
  <2> QED BY <2>1 DEF In, NoDup
<1>5. In(q) \ {Head(q)} \subseteq In(Tail(q))
  <2> SUFFICES ASSUME NEW j \in 1..Len(q), q[j] # q[1] PROVE q[j] \in In(Tail(q))
    BY <1>2 DEF In
  <2>1. j # 1
    OBVIOUS
  <2>2. j - 1 \in 1..Len(Tail(q)) /\ (j - 1) + 1 = j
    BY <1>1, <1>2, <2>1
  <2>3. Tail(q)[j - 1] = q[(j - 1) + 1]
    BY <1>2, <2>2
  <2> QED BY <2>2, <2>3 DEF In
<1>6. Head(q) \in In(q)
  <2>1. 1 \in 1..Len(q)
    BY <1>1
  <2> QED BY <1>2, <2>1 DEF In
<1> QED BY <1>1, <1>2, <1>3, <1>4, <1>5, <1>6

\* A lane with a node behind its tail.
LEMMA AppendFacts ==
  ASSUME NEW q \in Seq(Nodes), NoDup(q), NEW x \in Nodes, x \notin In(q)
  PROVE  /\ Append(q, x) \in Seq(Nodes) /\ Append(q, x) # <<>> /\ Len(Append(q, x)) = Len(q) + 1
         /\ NoDup(Append(q, x)) /\ In(Append(q, x)) = In(q) \cup {x}
         /\ \A i \in 1..Len(q) : Append(q, x)[i] = q[i]
<1> DEFINE r == Append(q, x)
<1>1. /\ Len(q) \in Nat /\ r \in Seq(Nodes) /\ Len(r) = Len(q) + 1 /\ r # <<>>
      /\ (\A i \in 1..Len(q) : r[i] = q[i]) /\ r[Len(q) + 1] = x
  BY LenProperties, AppendProperties
<1> HIDE DEF r
<1>2. \A i \in 1..Len(r) : i \in 1..Len(q) \/ i = Len(q) + 1
  BY <1>1
<1>3. In(r) = In(q) \cup {x}
  <2>1. In(r) \subseteq In(q) \cup {x}
    BY <1>1, <1>2 DEF In
  <2>2. In(q) \subseteq In(r)
    <3> SUFFICES ASSUME NEW i \in 1..Len(q) PROVE q[i] \in In(r)
      BY DEF In
    <3>1. i \in 1..Len(r) /\ r[i] = q[i]
      BY <1>1
    <3> QED BY <3>1 DEF In
  <2>3. x \in In(r)
    <3>1. Len(q) + 1 \in 1..Len(r)
      BY <1>1
    <3> QED BY <1>1, <3>1 DEF In
  <2> QED BY <2>1, <2>2, <2>3
<1>4. NoDup(r)
  <2> SUFFICES ASSUME NEW i \in 1..Len(r), NEW j \in 1..Len(r), r[i] = r[j] PROVE i = j
    BY DEF NoDup
  <2>1. CASE i \in 1..Len(q) /\ j \in 1..Len(q)
    BY <1>1, <2>1 DEF NoDup
  <2>2. CASE i \in 1..Len(q) /\ j = Len(q) + 1
    <3>1. q[i] = x
      BY <1>1, <2>2
    <3> QED BY <2>2, <3>1 DEF In
  <2>3. CASE i = Len(q) + 1 /\ j \in 1..Len(q)
    <3>1. q[j] = x
      BY <1>1, <2>3
    <3> QED BY <2>3, <3>1 DEF In
  <2>4. CASE i = Len(q) + 1 /\ j = Len(q) + 1
    BY <2>4
  <2> QED BY <1>2, <2>1, <2>2, <2>3, <2>4
<1> QED BY <1>1, <1>3, <1>4 DEF r

\* What try_pop sees behind a leading stub.
LEMMA SkipFacts ==
  ASSUME NEW p \in Seq(Nodes), p # <<>>, NoDup(p), Stub \notin Acts, NEW q, q = SkipStub(p)
  PROVE  q \in Seq(Nodes) /\ q # <<>> /\ NoDup(q) /\ In(q) \cap Acts = In(p) \cap Acts
<1>1. CASE q = p
  BY <1>1
<1>2. CASE q # p
  <2>1. q = Tail(p) /\ Head(p) = Stub /\ Len(p) > 1
    BY <1>2 DEF SkipStub
  <2>2. /\ q \in Seq(Nodes) /\ Len(q) = Len(p) - 1 /\ Len(p) \in Nat /\ NoDup(q)
        /\ In(q) = In(p) \ {Stub}
    BY <2>1, TailFacts
  <2>3. q # <<>>
    <3>1. Len(q) # 0
      BY <2>1, <2>2
    <3> QED BY <2>2, <3>1, EmptySeq
  <2> QED BY <2>2, <2>3
<1> QED BY <1>1, <1>2

-----------------------------------------------------------------------------
(* The inductive invariant.                                                  *)

\* While select() runs nothing it returned is running, and it pops a band it
\* still considers.
Selecting == spc # "idle" => taken = None /\ band \in mask

\* The stub is re-armed when it is not in the lane, behind a real front node.
Rearming == /\ spc = "rearm" => Stub \notin In(lane[band])
            /\ spc = "reload" => Len(lane[band]) > 1 /\ Head(lane[band]) # Stub

\* A band at distance d of the cursor sees at most d more reserved turns that
\* are not its own, M turns apart: the turns it may have waited for already.
Lim(b) == (K - 1 - ((b - cursor) % K)) * M + turn

Passed == IF spc = "idle" THEN \A b \in Bands : waits[b] <= Lim(b)
          ELSE \A b \in Bands : /\ b \notin mask => waits[b] = 0
                                /\ b \in mask \ {band} => waits[b] + 1 <= Lim(b)
                                /\ waits[b] < K * M

Inv == TypeOK /\ LanesWellFormed /\ Selecting /\ Rearming /\ Passed

LEMMA LimBounds ==
  ASSUME BandsAssumption, TypeOK, NEW b \in Bands
  PROVE  Lim(b) \in Nat /\ Lim(b) < K * M /\ K * M \in Nat
<1> DEFINE d == (b - cursor) % K
<1>1. K \in Nat \ {0} /\ M \in Nat \ {0} /\ cursor \in Bands /\ turn \in 0..(M - 1)
  BY DEF BandsAssumption, TypeOK
<1>2. d \in 0..(K - 1)
  BY <1>1, Distance
<1> HIDE DEF d
<1>3. (K - 1 - d) * M \in Nat /\ (K - 1 - d) * M + M <= K * M /\ K * M \in Nat
  BY <1>1, <1>2, Room
<1>4. Lim(b) = (K - 1 - d) * M + turn
  BY DEF Lim, d
<1> QED BY <1>1, <1>3, <1>4

\* The policy's choices exist: the first band from the cursor, the lowest one.
LEMMA RoundRobinIs ==
  ASSUME BandsAssumption, TypeOK, NEW m, m \subseteq Bands, m # {}
  PROVE  RoundRobin(m) \in m /\ \A c \in m : (RoundRobin(m) - cursor) % K <= (c - cursor) % K
<1> DEFINE S == {(c - cursor) % K : c \in m}
<1>1. K \in Nat \ {0} /\ cursor \in Bands
  BY DEF BandsAssumption, TypeOK
<1>2. S \subseteq Nat /\ S # {}
  BY <1>1, Distance
<1>3. PICK x \in S : \A y \in S : x <= y
  <2> HIDE DEF S
  <2> QED BY <1>2, Least
<1>4. \E b \in m : \A c \in m : (b - cursor) % K <= (c - cursor) % K
  BY <1>3
<1> QED BY <1>4 DEF RoundRobin

LEMMA MinIs ==
  ASSUME BandsAssumption, NEW m, m \subseteq Bands, m # {}
  PROVE  Min(m) \in m
<1>1. m \subseteq Nat
  BY DEF Bands, BandsAssumption
<1>2. \E x \in m : \A y \in m : x <= y
  BY <1>1, Least
<1> QED BY <1>2 DEF Min

\* A reserved turn brings every band it passes over nearer.
LEMMA ReservedNears ==
  ASSUME BandsAssumption, TypeOK, NEW m, m \subseteq Bands, m # {}, NEW b \in m, NEW c, c = RoundRobin(m), b # c
  PROVE  (b - ((c + 1) % K)) % K < (b - cursor) % K
<1>1. K \in Nat \ {0} /\ cursor \in Bands /\ b \in Bands /\ c \in Bands
  BY RoundRobinIs DEF BandsAssumption, TypeOK
<1>2. (c - cursor) % K <= (b - cursor) % K
  BY RoundRobinIs
<1>3. /\ (c - cursor) % K = IF cursor <= c THEN c - cursor ELSE c - cursor + K
      /\ (b - cursor) % K = IF cursor <= b THEN b - cursor ELSE b - cursor + K
  BY <1>1, Distance
<1> DEFINE e == (c + 1) % K
<1>4. e = IF c = K - 1 THEN 0 ELSE c + 1
  BY <1>1, Wrap
<1>5. e \in Bands
  BY <1>1, <1>4 DEF Bands
<1> HIDE DEF e
<1>6. (b - e) % K = IF e <= b THEN b - e ELSE b - e + K
  BY <1>1, <1>5, Distance
<1>7. (b - e) % K < (b - cursor) % K
  BY <1>1, <1>2, <1>3, <1>4, <1>6 DEF Bands
<1> QED BY <1>7 DEF e

-----------------------------------------------------------------------------
(* The steps.                                                                *)

\* One lane changes.
LEMMA LaneStep ==
  ASSUME TypeOK, LanesWellFormed, NEW c \in Bands, NEW q \in Seq(Nodes), q # <<>>, NoDup(q),
         \A s \in In(q) \cap Acts : Band[s] = c, lane' = [lane EXCEPT ![c] = q],
         taken' \notin In(q) \cap Acts, \A b \in Bands \ {c} : taken' \notin In(lane[b]) \cap Acts
  PROVE  lane' \in [Bands -> Seq(Acts \cup {Stub})] /\ LanesWellFormed'
<1>1. lane \in [Bands -> Seq(Nodes)]
  BY DEF TypeOK, Nodes
<1>2. lane' \in [Bands -> Seq(Nodes)] /\ lane'[c] = q /\ \A b \in Bands \ {c} : lane'[b] = lane[b]
  BY <1>1
<1>3. \A b \in Bands : lane[b] # <<>> /\ NoDup(lane[b]) /\ \A s \in In(lane[b]) \cap Acts : Band[s] = b
  BY DEF LanesWellFormed, NoDup, On, In
<1>4. ASSUME NEW b \in Bands
      PROVE  /\ lane'[b] # <<>> /\ NoDup(lane'[b]) /\ (\A s \in In(lane'[b]) \cap Acts : Band[s] = b)
             /\ taken' \notin In(lane'[b]) \cap Acts
  <2>1. CASE b = c
    BY <1>2, <2>1
  <2>2. CASE b # c
    BY <1>2, <1>3, <2>2
  <2> QED BY <2>1, <2>2
<1>5. \A b \in Bands : On(b)' = In(lane'[b]) \cap Acts
  BY DEF On, In
<1>6. taken' \notin Scheduled'
  BY <1>4, <1>5 DEF Scheduled
<1>7. LanesWellFormed'
  BY <1>4, <1>5, <1>6 DEF LanesWellFormed, NoDup
<1> QED BY <1>2, <1>7 DEF Nodes

\* What the invariant says of the lane of a band.
LEMMA LaneFacts ==
  ASSUME TypeOK, LanesWellFormed, NEW c \in Bands
  PROVE  /\ lane[c] \in Seq(Nodes) /\ lane[c] # <<>> /\ NoDup(lane[c])
         /\ \A s \in In(lane[c]) \cap Acts : Band[s] = c
         /\ taken \notin In(lane[c]) \cap Acts
         /\ \A s \in Acts, b \in Bands : s \in In(lane[b]) <=> s \in On(b)
<1>1. \A b \in Bands : On(b) = In(lane[b]) \cap Acts
  BY DEF On, In
<1>2. taken \notin In(lane[c]) \cap Acts
  BY <1>1 DEF LanesWellFormed, Scheduled
<1> QED BY <1>1, <1>2 DEF TypeOK, Nodes, LanesWellFormed, NoDup

\* The types of what select() decides.
Chosen == /\ mask' \subseteq Bands /\ band' \in Bands /\ sawbusy' \in BOOLEAN
          /\ spc' \in {"idle", "pop", "rearm", "reload"}
          /\ status' \in {"none", "Item", "Empty", "Busy"} /\ waits' \in [Bands -> Nat]

\* A band that gave nothing is dropped and no longer waits.
LEMMA NextBandKeeps ==
  ASSUME BandsAssumption, Inv, spc # "idle", NEW busy \in BOOLEAN, NextBand(busy), UNCHANGED policy
  PROVE  Chosen /\ spc' \in {"idle", "pop"} /\ taken' = None /\ Selecting' /\ Passed'
<1>1. /\ mask \subseteq Bands /\ band \in mask /\ band \in Bands /\ sawbusy \in BOOLEAN /\ taken = None
      /\ status \in {"none", "Item", "Empty", "Busy"} /\ waits \in [Bands -> Nat]
  BY DEF Inv, TypeOK, Selecting
<1>2. /\ \A b \in Bands : /\ b \notin mask => waits[b] = 0
                          /\ b \in mask \ {band} => waits[b] + 1 <= Lim(b)
                          /\ waits[b] < K * M
  BY DEF Inv, Passed
<1>3. \A b \in Bands : Lim(b)' = Lim(b)
  BY DEF Lim, policy
<1>4. /\ sawbusy' = (sawbusy \/ busy) /\ mask' = mask \ {band} /\ waits' = [waits EXCEPT ![band] = 0]
      /\ taken' = taken
  BY DEF NextBand
<1>5. /\ waits' \in [Bands -> Nat] /\ waits'[band] = 0 /\ \A b \in Bands \ {band} : waits'[b] = waits[b]
  BY <1>1, <1>4
<1>6. \A b \in Bands : Lim(b) \in Nat /\ Lim(b) < K * M /\ K * M \in Nat
  BY LimBounds DEF Inv
<1>7. CASE mask \ {band} = {}
  <2>1. /\ spc' = "idle" /\ band' = band /\ status' = IF sawbusy \/ busy THEN "Busy" ELSE "Empty"
    BY <1>7 DEF NextBand
  <2>2. ASSUME NEW b \in Bands PROVE waits'[b] <= Lim(b)'
    <3>1. waits'[b] = 0
      BY <1>2, <1>5, <1>7
    <3> QED BY <1>3, <1>6, <3>1
  <2> QED BY <1>1, <1>4, <1>5, <2>1, <2>2 DEF Chosen, Selecting, Passed
<1>8. CASE mask \ {band} # {}
  <2>1. spc' = "pop" /\ band' = Min(mask \ {band}) /\ status' = status
    BY <1>8 DEF NextBand
  <2>2. band' \in mask \ {band}
    <3>1. mask \ {band} \subseteq Bands
      BY <1>1
    <3> QED BY <1>8, <2>1, <3>1, MinIs
  <2>3. ASSUME NEW b \in Bands
        PROVE  /\ b \notin mask' => waits'[b] = 0
               /\ b \in mask' \ {band'} => waits'[b] + 1 <= Lim(b)'
               /\ waits'[b] < K * M
    <3>1. CASE b = band
      <4>1. K * M > 0
        BY <1>1, <1>2, <1>5, <1>6, <3>1
      <4> QED BY <1>4, <1>5, <3>1, <4>1
    <3>2. CASE b # band
      BY <1>2, <1>3, <1>4, <1>5, <3>2
    <3> QED BY <3>1, <3>2
  <2>4. Passed'
    BY <2>1, <2>3 DEF Passed
  <2> QED BY <1>1, <1>4, <1>5, <2>1, <2>2, <2>4 DEF Chosen, Selecting
<1> QED BY <1>7, <1>8

\* An activation is returned, and the bands not tried yet wait one turn more.
LEMMA ReturnItemKeeps ==
  ASSUME BandsAssumption, Inv, spc # "idle", NEW s \in Acts, ReturnItem(s), UNCHANGED policy
  PROVE  Chosen /\ spc' = "idle" /\ taken' = s /\ Selecting' /\ Passed'
<1>1. /\ mask \subseteq Bands /\ band \in Bands /\ sawbusy \in BOOLEAN /\ waits \in [Bands -> Nat]
  BY DEF Inv, TypeOK
<1>2. /\ \A b \in Bands : /\ b \notin mask => waits[b] = 0
                          /\ b \in mask \ {band} => waits[b] + 1 <= Lim(b)
  BY DEF Inv, Passed
<1>3. \A b \in Bands : Lim(b)' = Lim(b) /\ Lim(b) \in Nat
  BY LimBounds DEF Lim, policy, Inv
<1>4. /\ status' = "Item" /\ taken' = s /\ spc' = "idle" /\ mask' = mask /\ band' = band /\ sawbusy' = sawbusy
      /\ waits' = [b \in Bands |-> IF b \in mask \ {band} THEN waits[b] + 1
                                   ELSE IF b = band THEN 0 ELSE waits[b]]
  BY DEF ReturnItem
<1>5. ASSUME NEW b \in Bands PROVE waits'[b] \in Nat /\ waits'[b] <= Lim(b)'
  BY <1>1, <1>2, <1>3, <1>4
<1>6. waits' \in [Bands -> Nat]
  BY <1>1, <1>4
<1> QED BY <1>1, <1>4, <1>5, <1>6 DEF Chosen, Selecting, Passed

\* Steps that leave the selection alone.
LEMMA SelectionKept ==
  ASSUME Inv, UNCHANGED <<spc, mask, band, turn, cursor, taken, waits>>
  PROVE  Selecting' /\ Passed'
<1>1. \A b \in Bands : Lim(b)' = Lim(b)
  BY DEF Lim
<1>2. Selecting'
  BY DEF Inv, Selecting
<1>3. Passed'
  BY <1>1 DEF Inv, Passed
<1> QED BY <1>2, <1>3

\* The types of what the drain owner holds.
Held == /\ unlinked \subseteq Acts /\ pitem \in [Producers -> Acts \cup {None}]
        /\ spc \in {"idle", "pop", "rearm", "reload"} /\ mask \subseteq Bands /\ band \in Bands
        /\ sawbusy \in BOOLEAN /\ turn \in 0..(M - 1) /\ cursor \in Bands
        /\ status \in {"none", "Item", "Empty", "Busy"} /\ taken \in Acts \cup {None}
        /\ waits \in [Bands -> Nat]

\* The invariant from its parts.
LEMMA Assemble ==
  ASSUME lane' \in [Bands -> Seq(Acts \cup {Stub})], Held', LanesWellFormed', Selecting', Rearming', Passed'
  PROVE  Inv'
  BY DEF Inv, TypeOK, Held

\* enqueue: the exchange puts an activation that is in no lane behind the tail.
LEMMA ExchangeStep ==
  ASSUME BandsAssumption, StubAssumption, Inv, NEW p \in Producers, NEW s \in Acts, EnqueueExchange(p, s)
  PROVE  Inv'
<1> DEFINE c == Band[s]
           q == Append(lane[c], s)
<1>1. TypeOK /\ LanesWellFormed /\ Rearming /\ c \in Bands /\ s # Stub /\ s \in Nodes
  BY DEF Inv, BandsAssumption, StubAssumption, Nodes
<1>2. /\ lane' = [lane EXCEPT ![c] = q] /\ s \notin Scheduled /\ s # taken
      /\ UNCHANGED <<spc, mask, band, sawbusy, turn, cursor, status, taken, waits>>
      /\ pitem' = [pitem EXCEPT ![p] = s] /\ unlinked' = unlinked \cup {s}
  BY DEF EnqueueExchange, policy
<1>3. /\ lane[c] \in Seq(Nodes) /\ lane[c] # <<>> /\ NoDup(lane[c])
      /\ \A x \in In(lane[c]) \cap Acts : Band[x] = c
      /\ \A b \in Bands : taken \notin In(lane[b]) \cap Acts
      /\ s \notin In(lane[c])
  BY <1>1, <1>2, LaneFacts DEF Scheduled
<1>4. /\ q \in Seq(Nodes) /\ q # <<>> /\ Len(q) = Len(lane[c]) + 1 /\ NoDup(q)
      /\ In(q) = In(lane[c]) \cup {s} /\ \A i \in 1..Len(lane[c]) : q[i] = lane[c][i]
  BY <1>1, <1>3, AppendFacts
<1>5. lane' \in [Bands -> Seq(Acts \cup {Stub})] /\ LanesWellFormed'
  <2> HIDE DEF q
  <2> QED BY <1>1, <1>2, <1>3, <1>4, LaneStep
<1>6. \A b \in Bands \ {c} : lane'[b] = lane[b]
  BY <1>1, <1>2 DEF TypeOK
<1>7. lane'[c] = q
  BY <1>1, <1>2 DEF TypeOK
<1>8. Rearming'
  <2>1. band \in Bands /\ band' = band /\ spc' = spc
    BY <1>1, <1>2 DEF TypeOK
  <2>2. CASE band # c
    BY <1>1, <1>6, <2>1, <2>2 DEF Rearming
  <2>3. CASE band = c
    <3>1. Len(lane[c]) \in Nat /\ Len(lane[c]) # 0
      BY <1>3, EmptySeq, LenProperties
    <3>2. Head(q) = Head(lane[c])
      <4> HIDE DEF q
      <4>1. Head(q) = q[1] /\ Head(lane[c]) = lane[c][1] /\ 1 \in 1..Len(lane[c])
        BY <1>3, <1>4, <3>1, HeadTailProperties
      <4> QED BY <1>4, <4>1
    <3> HIDE DEF q
    <3> QED BY <1>1, <1>4, <1>7, <2>1, <2>3, <3>1, <3>2 DEF Rearming
  <2> QED BY <2>2, <2>3
<1>9. Held'
  BY <1>1, <1>2 DEF Held, TypeOK
<1>10. Selecting' /\ Passed'
  BY <1>2, SelectionKept
<1> QED BY <1>5, <1>8, <1>9, <1>10, Assemble

\* enqueue: the link is stored.
LEMMA LinkStep ==
  ASSUME BandsAssumption, Inv, NEW p \in Producers, EnqueueLink(p)
  PROVE  Inv'
<1>1. TypeOK /\ LanesWellFormed /\ Rearming
  BY DEF Inv
<1>2. /\ UNCHANGED <<lane, spc, mask, band, sawbusy, turn, cursor, status, taken, waits>>
      /\ pitem' = [pitem EXCEPT ![p] = None] /\ unlinked' = unlinked \ {pitem[p]}
  BY DEF EnqueueLink, policy
<1>3. Held' /\ lane' \in [Bands -> Seq(Acts \cup {Stub})]
  BY <1>1, <1>2 DEF Held, TypeOK
<1>4. LanesWellFormed'
  BY <1>1, <1>2 DEF LanesWellFormed, Scheduled, On
<1>5. Rearming'
  BY <1>1, <1>2 DEF Rearming, In
<1> QED BY <1>2, <1>3, <1>4, <1>5, SelectionKept, Assemble

\* The activation that ran may be scheduled again.
LEMMA DoneStep ==
  ASSUME BandsAssumption, StubAssumption, Inv, RunDone
  PROVE  Inv'
<1>1. TypeOK /\ LanesWellFormed /\ Rearming /\ Selecting /\ Passed
  BY DEF Inv
<1>2. /\ UNCHANGED <<lane, unlinked, pitem, spc, mask, band, sawbusy, turn, cursor, status, waits>>
      /\ taken' = None /\ taken # None
  BY DEF RunDone, policy
<1>3. Held' /\ lane' \in [Bands -> Seq(Acts \cup {Stub})]
  BY <1>1, <1>2 DEF Held, TypeOK
<1>4. LanesWellFormed'
  <2>1. None \notin Scheduled
    BY DEF Scheduled, On, StubAssumption
  <2> QED BY <1>1, <1>2, <2>1 DEF LanesWellFormed, Scheduled, On
<1>5. Rearming'
  BY <1>1, <1>2 DEF Rearming, In
<1>6. Selecting'
  BY <1>1, <1>2 DEF Selecting
<1>7. Passed'
  BY <1>1, <1>2 DEF Passed, Lim
<1> QED BY <1>3, <1>4, <1>5, <1>6, <1>7, Assemble

\* try_pop leaves q, a lane with the same activations, and gives nothing.
LEMMA GiveUpKeeps ==
  ASSUME BandsAssumption, StubAssumption, Inv, spc # "idle", NEW busy \in BOOLEAN, NextBand(busy),
         UNCHANGED <<unlinked, pitem, policy>>, NEW q \in Seq(Nodes), q # <<>>, NoDup(q),
         In(q) \cap Acts = In(lane[band]) \cap Acts, lane' = [lane EXCEPT ![band] = q]
  PROVE  Inv'
<1>1. TypeOK /\ LanesWellFormed /\ band \in Bands /\ taken = None
  BY DEF Inv, TypeOK, Selecting
<1>2. Chosen /\ spc' \in {"idle", "pop"} /\ taken' = None /\ Selecting' /\ Passed'
  BY NextBandKeeps
<1>3. None \notin Acts
  BY DEF StubAssumption
<1>4. \A s \in In(q) \cap Acts : Band[s] = band
  BY <1>1, LaneFacts
<1>5. lane' \in [Bands -> Seq(Acts \cup {Stub})] /\ LanesWellFormed'
  BY <1>1, <1>2, <1>3, <1>4, LaneStep
<1>6. Rearming'
  BY <1>2 DEF Rearming
<1>7. Held'
  BY <1>1, <1>2 DEF Held, Chosen, TypeOK, policy
<1> QED BY <1>2, <1>5, <1>6, <1>7, Assemble

\* try_pop takes the front node of q, a lane with the same activations.
LEMMA TakeKeeps ==
  ASSUME BandsAssumption, StubAssumption, Inv, spc # "idle", NEW q \in Seq(Nodes), NoDup(q), Len(q) > 1,
         Head(q) # Stub, In(q) \cap Acts = In(lane[band]) \cap Acts, lane' = [lane EXCEPT ![band] = Tail(q)],
         ReturnItem(Head(q)), UNCHANGED <<unlinked, pitem, policy>>
  PROVE  Inv'
<1> DEFINE s == Head(q)
           r == Tail(q)
<1>1. TypeOK /\ LanesWellFormed /\ band \in Bands
  BY DEF Inv, TypeOK
<1>2. q # <<>>
  BY EmptySeq
<1>3. /\ r \in Seq(Nodes) /\ Len(r) = Len(q) - 1 /\ Len(q) \in Nat /\ NoDup(r)
      /\ In(r) = In(q) \ {s} /\ s \in In(q)
  BY <1>2, TailFacts
<1>4. s \in Acts
  <2>1. \A i \in 1..Len(q) : q[i] \in Nodes
    BY ElementOfSeq
  <2>2. s \in Nodes
    BY <1>3, <2>1 DEF In
  <2> QED BY <2>2 DEF Nodes
<1> HIDE DEF s, r
<1>5. r # <<>>
  <2>1. Len(r) # 0
    BY <1>3
  <2> QED BY <1>3, <2>1, EmptySeq
<1>6. lane' = [lane EXCEPT ![band] = r] /\ ReturnItem(s)
  BY DEF s, r
<1>7. Chosen /\ spc' = "idle" /\ taken' = s /\ Selecting' /\ Passed'
  BY <1>4, <1>6, ReturnItemKeeps
<1>8. \A x \in In(q) \cap Acts : Band[x] = band
  BY <1>1, LaneFacts
<1>9. \A b \in Bands \ {band} : s \notin In(lane[b]) \cap Acts
  <2>1. \A b \in Bands : \A x \in In(lane[b]) \cap Acts : Band[x] = b
    BY <1>1, LaneFacts
  <2>2. Band[s] = band
    BY <1>3, <1>4, <1>8
  <2> QED BY <2>1, <2>2
<1>10. lane' \in [Bands -> Seq(Acts \cup {Stub})] /\ LanesWellFormed'
  BY <1>1, <1>3, <1>5, <1>6, <1>7, <1>8, <1>9, LaneStep
<1>11. Rearming'
  BY <1>7 DEF Rearming
<1>12. Held'
  BY <1>1, <1>4, <1>7 DEF Held, Chosen, TypeOK, policy
<1> QED BY <1>7, <1>10, <1>11, <1>12, Assemble

\* The owner stays with the band it pops.
LEMMA StayKeeps ==
  ASSUME Inv, spc # "idle", spc' # "idle", UNCHANGED <<mask, band, sawbusy, policy, status, taken, waits>>
  PROVE  Selecting' /\ Passed'
<1>1. \A b \in Bands : Lim(b)' = Lim(b)
  BY DEF Lim, policy
<1>2. Selecting'
  BY DEF Inv, Selecting
<1>3. Passed'
  BY <1>1 DEF Inv, Passed
<1> QED BY <1>2, <1>3

\* try_pop, in its four outcomes.
LEMMA PopStep ==
  ASSUME BandsAssumption, StubAssumption, Inv, PopBand
  PROVE  Inv'
<1> DEFINE q == SkipStub(lane[band])
<1>1. TypeOK /\ LanesWellFormed /\ band \in Bands /\ spc = "pop" /\ Stub \notin Acts /\ taken = None /\ None \notin Acts
  BY DEF Inv, TypeOK, PopBand, StubAssumption, Selecting
<1>2. lane[band] \in Seq(Nodes) /\ lane[band] # <<>> /\ NoDup(lane[band])
  BY <1>1, LaneFacts
<1>3. q \in Seq(Nodes) /\ q # <<>> /\ NoDup(q) /\ In(q) \cap Acts = In(lane[band]) \cap Acts
  BY <1>1, <1>2, SkipFacts
<1>4. \/ Head(q) = Stub /\ NextBand(Len(q) > 1) /\ UNCHANGED lane
      \/ Head(q) # Stub /\ Len(q) > 1 /\ lane' = [lane EXCEPT ![band] = Tail(q)] /\ ReturnItem(Head(q))
      \/ lane' = [lane EXCEPT ![band] = q] /\ NextBand(TRUE)
      \/ /\ Head(q) # Stub /\ Len(q) = 1 /\ lane' = [lane EXCEPT ![band] = q] /\ spc' = "rearm"
         /\ UNCHANGED <<mask, band, sawbusy, status, taken, waits>>
  BY DEF PopBand
<1>5. UNCHANGED <<unlinked, pitem, policy>>
  BY DEF PopBand
<1> HIDE DEF q
<1>6. CASE Head(q) = Stub /\ NextBand(Len(q) > 1) /\ UNCHANGED lane
  <2> DEFINE busy == Len(q) > 1
  <2>1. NextBand(busy) /\ lane' = [lane EXCEPT ![band] = lane[band]]
    BY <1>1, <1>6 DEF TypeOK
  <2>2. busy \in BOOLEAN
    OBVIOUS
  <2> HIDE DEF busy
  <2> QED BY <1>1, <1>2, <1>5, <2>1, <2>2, GiveUpKeeps
<1>7. CASE Head(q) # Stub /\ Len(q) > 1 /\ lane' = [lane EXCEPT ![band] = Tail(q)] /\ ReturnItem(Head(q))
  BY <1>1, <1>3, <1>5, <1>7, TakeKeeps
<1>8. CASE lane' = [lane EXCEPT ![band] = q] /\ NextBand(TRUE)
  BY <1>1, <1>3, <1>5, <1>8, GiveUpKeeps
<1>9. CASE /\ Head(q) # Stub /\ Len(q) = 1 /\ lane' = [lane EXCEPT ![band] = q] /\ spc' = "rearm"
           /\ UNCHANGED <<mask, band, sawbusy, status, taken, waits>>
  <2>1. \A s \in In(q) \cap Acts : Band[s] = band
    BY <1>1, <1>3, LaneFacts
  <2>2. lane' \in [Bands -> Seq(Acts \cup {Stub})] /\ LanesWellFormed'
    BY <1>1, <1>3, <1>9, <2>1, LaneStep
  <2>3. Stub \notin In(q)
    <3>1. Head(q) = q[1]
      BY <1>3, HeadTailProperties
    <3> QED BY <1>9, <3>1 DEF In
  <2>4. Rearming'
    <3>1. lane'[band'] = q /\ spc' = "rearm"
      BY <1>1, <1>9 DEF TypeOK
    <3> QED BY <2>3, <3>1 DEF Rearming, In
  <2>5. Held'
    BY <1>1, <1>5, <1>9 DEF Held, TypeOK, policy
  <2> QED BY <1>1, <1>5, <1>9, <2>2, <2>4, <2>5, StayKeeps, Assemble
<1> QED BY <1>4, <1>6, <1>7, <1>8, <1>9

\* link_push(&stub_), where the stub is not in the lane.
LEMMA RearmStep ==
  ASSUME BandsAssumption, StubAssumption, Inv, RearmStub
  PROVE  Inv'
<1> DEFINE q == Append(lane[band], Stub)
<1>1. /\ TypeOK /\ LanesWellFormed /\ band \in Bands /\ spc = "rearm" /\ Stub \notin In(lane[band])
      /\ Stub \in Nodes /\ Stub \notin Acts /\ taken = None /\ None \notin Acts
  BY DEF Inv, TypeOK, RearmStub, Rearming, StubAssumption, Nodes, Selecting
<1>2. /\ lane' = [lane EXCEPT ![band] = q] /\ spc' = "reload"
      /\ UNCHANGED <<unlinked, pitem, mask, band, sawbusy, policy, status, taken, waits>>
  BY DEF RearmStub
<1>3. /\ lane[band] \in Seq(Nodes) /\ lane[band] # <<>> /\ NoDup(lane[band])
      /\ \A s \in In(lane[band]) \cap Acts : Band[s] = band
  BY <1>1, LaneFacts
<1>4. /\ q \in Seq(Nodes) /\ q # <<>> /\ Len(q) = Len(lane[band]) + 1 /\ NoDup(q)
      /\ In(q) = In(lane[band]) \cup {Stub} /\ \A i \in 1..Len(lane[band]) : q[i] = lane[band][i]
  BY <1>1, <1>3, AppendFacts
<1> HIDE DEF q
<1>5. lane' \in [Bands -> Seq(Acts \cup {Stub})] /\ LanesWellFormed'
  BY <1>1, <1>2, <1>3, <1>4, LaneStep
<1>6. Rearming'
  <2>1. Len(lane[band]) \in Nat /\ Len(lane[band]) # 0
    BY <1>3, EmptySeq, LenProperties
  <2>2. 1 \in 1..Len(lane[band]) /\ Head(q) = q[1]
    BY <1>4, <2>1, HeadTailProperties
  <2>3. Head(q) \in In(lane[band])
    BY <1>4, <2>2 DEF In
  <2>4. lane'[band'] = q
    BY <1>1, <1>2 DEF TypeOK
  <2> QED BY <1>1, <1>2, <1>4, <2>1, <2>3, <2>4 DEF Rearming
<1>7. Held'
  BY <1>1, <1>2 DEF Held, TypeOK, policy
<1> QED BY <1>1, <1>2, <1>5, <1>6, <1>7, StayKeeps, Assemble

\* The re-read of the front node's link.
LEMMA ReloadStep ==
  ASSUME BandsAssumption, StubAssumption, Inv, ReloadNext
  PROVE  Inv'
<1> DEFINE q == lane[band]
<1>1. TypeOK /\ LanesWellFormed /\ band \in Bands /\ spc = "reload" /\ Len(q) > 1 /\ Head(q) # Stub
  BY DEF Inv, TypeOK, ReloadNext, Rearming
<1>2. q \in Seq(Nodes) /\ q # <<>> /\ NoDup(q)
  BY <1>1, LaneFacts
<1>3. \/ lane' = [lane EXCEPT ![band] = Tail(q)] /\ ReturnItem(Head(q))
      \/ NextBand(TRUE) /\ lane' = [lane EXCEPT ![band] = q]
  BY <1>1 DEF ReloadNext, TypeOK
<1>4. UNCHANGED <<unlinked, pitem, policy>> /\ In(q) = In(lane[band])
  BY DEF ReloadNext
<1> HIDE DEF q
<1>5. CASE lane' = [lane EXCEPT ![band] = Tail(q)] /\ ReturnItem(Head(q))
  BY <1>1, <1>2, <1>4, <1>5, TakeKeeps
<1>6. CASE NextBand(TRUE) /\ lane' = [lane EXCEPT ![band] = q]
  BY <1>1, <1>2, <1>4, <1>6, GiveUpKeeps
<1> QED BY <1>3, <1>5, <1>6

\* RotatingReserve's counter of turns, modulo M.
LEMMA TurnOn ==
  ASSUME NEW m \in Nat \ {0}, NEW t \in 0..(m - 1)
  PROVE  (t + 1) % m = IF t = m - 1 THEN 0 ELSE t + 1
  OBVIOUS

\* The pick is a band of the mask, and every other one has its turn nearer.
LEMMA PickNears ==
  ASSUME BandsAssumption, TypeOK, NEW m, m \subseteq Bands, m # {},
         turn' = (turn + 1) % M, cursor' = IF Reserved THEN (Pick(m) + 1) % K ELSE cursor
  PROVE  /\ Pick(m) \in m /\ turn' \in 0..(M - 1) /\ cursor' \in Bands
         /\ \A b \in m \ {Pick(m)} : Lim(b)' \in Nat /\ Lim(b) + 1 <= Lim(b)'
<1>1. K \in Nat \ {0} /\ M \in Nat \ {0} /\ turn \in 0..(M - 1) /\ cursor \in Bands
  BY DEF BandsAssumption, TypeOK
<1>2. turn' = (IF turn = M - 1 THEN 0 ELSE turn + 1) /\ (Reserved <=> turn = M - 1)
  <2>1. (turn + 1) % M = IF turn = M - 1 THEN 0 ELSE turn + 1
    BY <1>1, TurnOn
  <2>2. Reserved <=> (turn + 1) % M = 0
    BY DEF Reserved
  <2> QED BY <1>1, <2>1, <2>2
<1>3. turn' \in 0..(M - 1)
  BY <1>1, <1>2
<1>4. CASE Reserved
  <2> DEFINE c == RoundRobin(m)
  <2>1. Pick(m) = c /\ c \in m /\ c \in Bands /\ cursor' = (c + 1) % K
    BY <1>4, RoundRobinIs DEF Pick
  <2>2. cursor' \in Bands
    <3> HIDE DEF c
    <3>1. cursor' = IF c = K - 1 THEN 0 ELSE c + 1
      BY <1>1, <2>1, Wrap
    <3> QED BY <1>1, <2>1, <3>1 DEF Bands
  <2>3. ASSUME NEW b \in m \ {c} PROVE Lim(b)' \in Nat /\ Lim(b) + 1 <= Lim(b)'
    <3> DEFINE d == (b - cursor) % K
               e == (b - cursor') % K
    <3>1. e < d
      BY <2>1, <2>3, ReservedNears
    <3>2. d \in 0..(K - 1) /\ e \in 0..(K - 1)
      <4>1. b \in Bands
        OBVIOUS
      <4> QED BY <1>1, <2>2, <4>1, Distance
    <3>3. Lim(b) = (K - 1 - d) * M + turn /\ Lim(b)' = (K - 1 - e) * M + turn'
      BY DEF Lim
    <3> HIDE DEF d, e
    <3>4. d \in Nat /\ e \in Nat /\ d < K
      BY <1>1, <3>2
    <3>5. (K - 1 - e) * M >= (K - 1 - d) * M + M /\ (K - 1 - e) * M \in Nat
      BY <1>1, <3>1, <3>4, Steps
    <3>6. (K - 1 - d) * M \in Nat
      BY <1>1, <3>2, Room
    <3> DEFINE u == (K - 1 - d) * M
               v == (K - 1 - e) * M
    <3>7. u \in Nat /\ v \in Nat /\ v >= u + M /\ Lim(b) = u + turn /\ Lim(b)' = v + turn'
      BY <3>3, <3>5, <3>6
    <3> HIDE DEF u, v
    <3>8. turn = M - 1 /\ turn' = 0
      BY <1>2, <1>4
    <3> QED BY <1>1, <3>7, <3>8
  <2> QED BY <1>3, <2>1, <2>2, <2>3
<1>5. CASE ~Reserved
  <2>1. Pick(m) \in m /\ cursor' = cursor /\ turn' = turn + 1
    BY <1>2, <1>5, MinIs DEF Pick
  <2>2. ASSUME NEW b \in m PROVE Lim(b)' \in Nat /\ Lim(b) + 1 <= Lim(b)'
    <3>1. Lim(b) \in Nat
      BY LimBounds
    <3> DEFINE u == (K - 1 - ((b - cursor) % K)) * M
    <3>2. Lim(b) = u + turn /\ Lim(b)' = u + turn'
      BY <2>1 DEF Lim
    <3>3. u \in Nat
      <4>1. b \in Bands
        OBVIOUS
      <4>2. (b - cursor) % K \in 0..(K - 1)
        BY <1>1, <4>1, Distance
      <4> QED BY <1>1, <4>2, Room
    <3> HIDE DEF u
    <3> QED BY <1>1, <2>1, <3>2, <3>3
  <2> QED BY <1>1, <1>3, <2>1, <2>2
<1> QED BY <1>4, <1>5

\* select() builds its mask and picks.
LEMMA SelectStep ==
  ASSUME BandsAssumption, StubAssumption, Inv, SelectBegin
  PROVE  Inv'
<1> DEFINE m == {b \in Bands : nonempty_hint(b)}
<1>1. TypeOK /\ LanesWellFormed /\ spc = "idle" /\ taken = None
  BY DEF Inv, SelectBegin
<1>2. \A b \in Bands : /\ waits[b] \in Nat /\ waits[b] <= Lim(b)
                       /\ Lim(b) \in Nat /\ Lim(b) < K * M /\ K * M \in Nat
  BY <1>1, LimBounds DEF Inv, Passed, TypeOK
<1>3. UNCHANGED <<lane, unlinked, pitem, taken>>
  BY DEF SelectBegin
<1>4. \/ /\ m = {} /\ status' = "Empty" /\ waits' = [b \in Bands |-> 0]
         /\ UNCHANGED <<spc, mask, band, sawbusy, policy>>
      \/ /\ m # {} /\ mask' = m /\ band' = Pick(m) /\ turn' = (turn + 1) % M
         /\ cursor' = (IF Reserved THEN (Pick(m) + 1) % K ELSE cursor)
         /\ sawbusy' = FALSE /\ spc' = "pop" /\ UNCHANGED status
         /\ waits' = [b \in Bands |-> IF b \in m THEN waits[b] ELSE 0]
  BY DEF SelectBegin
<1>5. m \subseteq Bands
  OBVIOUS
<1> HIDE DEF m
<1>6. LanesWellFormed' /\ lane' \in [Bands -> Seq(Acts \cup {Stub})]
  BY <1>1, <1>3 DEF LanesWellFormed, Scheduled, On, TypeOK
<1>7. CASE /\ m = {} /\ status' = "Empty" /\ waits' = [b \in Bands |-> 0]
           /\ UNCHANGED <<spc, mask, band, sawbusy, policy>>
  <2>1. Held'
    BY <1>1, <1>3, <1>7 DEF Held, TypeOK, policy
  <2>2. Rearming' /\ Selecting'
    BY <1>1, <1>7 DEF Rearming, Selecting
  <2>3. \A b \in Bands : Lim(b)' = Lim(b)
    BY <1>7 DEF Lim, policy
  <2>4. Passed'
    BY <1>1, <1>2, <1>7, <2>3 DEF Passed
  <2> QED BY <1>6, <2>1, <2>2, <2>4, Assemble
<1>8. CASE /\ m # {} /\ mask' = m /\ band' = Pick(m) /\ turn' = (turn + 1) % M
           /\ cursor' = (IF Reserved THEN (Pick(m) + 1) % K ELSE cursor)
           /\ sawbusy' = FALSE /\ spc' = "pop" /\ UNCHANGED status
           /\ waits' = [b \in Bands |-> IF b \in m THEN waits[b] ELSE 0]
  <2>1. /\ Pick(m) \in m /\ turn' \in 0..(M - 1) /\ cursor' \in Bands
        /\ \A b \in m \ {Pick(m)} : Lim(b)' \in Nat /\ Lim(b) + 1 <= Lim(b)'
    BY <1>1, <1>5, <1>8, PickNears
  <2>2. Held'
    BY <1>1, <1>2, <1>3, <1>5, <1>8, <2>1 DEF Held, TypeOK
  <2>3. Rearming' /\ Selecting'
    BY <1>1, <1>3, <1>8, <2>1 DEF Rearming, Selecting
  <2>5. ASSUME NEW b \in Bands
        PROVE  /\ b \notin mask' => waits'[b] = 0
               /\ b \in mask' \ {band'} => waits'[b] + 1 <= Lim(b)'
               /\ waits'[b] < K * M
    <3>1. waits'[b] = IF b \in m THEN waits[b] ELSE 0
      BY <1>8
    <3>2. waits'[b] < K * M
      BY <1>2, <3>1
    <3>3. b \in mask' \ {band'} => waits'[b] + 1 <= Lim(b)'
      <4> SUFFICES ASSUME b \in mask' \ {band'} PROVE waits'[b] + 1 <= Lim(b)'
        OBVIOUS
      <4>1. b \in m \ {Pick(m)} /\ waits'[b] = waits[b]
        BY <1>8, <3>1
      <4>2. Lim(b)' \in Nat /\ Lim(b) + 1 <= Lim(b)'
        BY <2>1, <4>1
      <4> QED BY <1>2, <4>1, <4>2
    <3> QED BY <1>8, <3>1, <3>2, <3>3
  <2>6. Passed'
    BY <1>8, <2>5 DEF Passed
  <2> QED BY <1>6, <2>2, <2>3, <2>6, Assemble
<1> QED BY <1>4, <1>7, <1>8

\* The empty run-queue.
LEMMA InvInit ==
  ASSUME BandsAssumption, StubAssumption, Init
  PROVE  Inv
<1>1. Stub \notin Acts /\ None \notin Acts /\ K \in Nat \ {0} /\ M \in Nat \ {0} /\ 0 \in Bands
  BY DEF BandsAssumption, StubAssumption, Bands
<1>2. lane = [b \in Bands |-> <<Stub>>] /\ taken = None /\ spc = "idle" /\ waits = [b \in Bands |-> 0]
  BY DEF Init
<1>3. <<Stub>> \in Seq(Acts \cup {Stub})
  OBVIOUS
<1>4. TypeOK
  <2>1. lane \in [Bands -> Seq(Acts \cup {Stub})]
    BY <1>2, <1>3
  <2>2. 0 \in 0..(M - 1)
    BY <1>1
  <2> QED BY <1>1, <2>1, <2>2 DEF Init, TypeOK
<1>5. \A b \in Bands : lane[b] = <<Stub>> /\ On(b) = {}
  BY <1>1, <1>2 DEF On
<1>6. LanesWellFormed
  BY <1>1, <1>2, <1>5 DEF LanesWellFormed, Scheduled
<1>7. Selecting /\ Rearming
  BY <1>2 DEF Selecting, Rearming
<1>8. Passed
  BY <1>2, <1>4, LimBounds DEF Passed
<1> QED BY <1>4, <1>6, <1>7, <1>8 DEF Inv

\* Every step keeps the invariant.
LEMMA InvNext ==
  ASSUME BandsAssumption, StubAssumption, Inv, [Next]_vars
  PROVE  Inv'
<1>1. CASE UNCHANGED vars
  BY <1>1 DEF vars, Inv, TypeOK, LanesWellFormed, Scheduled, On, Selecting, Rearming, Passed, Lim, In
<1>2. CASE \E p \in Producers, s \in Acts : EnqueueExchange(p, s)
  BY <1>2, ExchangeStep
<1>3. CASE \E p \in Producers : EnqueueLink(p)
  BY <1>3, LinkStep
<1>4. CASE SelectBegin
  BY <1>4, SelectStep
<1>5. CASE PopBand
  BY <1>5, PopStep
<1>6. CASE RearmStub
  BY <1>6, RearmStep
<1>7. CASE ReloadNext
  BY <1>7, ReloadStep
<1>8. CASE RunDone
  BY <1>8, DoneStep
<1> QED BY <1>1, <1>2, <1>3, <1>4, <1>5, <1>6, <1>7, <1>8 DEF Next, OwnerStep

-----------------------------------------------------------------------------
(* The theorems.                                                             *)

\* The inductive invariant of lanes and policy holds (RunQueue::select, try_pop).
THEOREM InvHolds == ASSUME BandsAssumption, StubAssumption PROVE Spec => []Inv
<1>1. Init => Inv
  BY InvInit
<1>2. Inv /\ [Next]_vars => Inv'
  BY InvNext
<1> QED BY <1>1, <1>2, PTL DEF Spec

\* In every behaviour each lane holds its stub at most once, no activation
\* twice and none of another band, and what runs is in no lane, for any number
\* of bands, producers and activations (try_pop, link_push, enqueue).
THEOREM LanesStayWellFormed == ASSUME BandsAssumption, StubAssumption PROVE Spec => []LanesWellFormed
<1>1. Spec => []Inv
  BY InvHolds
<1>2. Inv => LanesWellFormed
  BY DEF Inv
<1> QED BY <1>1, <1>2, PTL

\* A band whose hint is set is passed over fewer than K * M times in a row,
\* for every K and M (RotatingReserve::pick, select).
THEOREM NoBandStarves == ASSUME BandsAssumption, StubAssumption PROVE Spec => []StarvationBound
<1>1. Spec => []Inv
  BY InvHolds
<1>2. Inv => StarvationBound
  <2> SUFFICES ASSUME Inv, NEW b \in Bands PROVE waits[b] < K * M
    BY DEF StarvationBound
  <2>1. CASE spc = "idle"
    <3>1. waits[b] <= Lim(b) /\ Lim(b) < K * M /\ Lim(b) \in Nat /\ K * M \in Nat /\ waits[b] \in Nat
      BY <2>1, LimBounds DEF Inv, Passed, TypeOK
    <3> QED BY <3>1
  <2>2. CASE spc # "idle"
    BY <2>2 DEF Inv, Passed
  <2> QED BY <2>1, <2>2
<1> QED BY <1>1, <1>2, PTL
==============================================================================
