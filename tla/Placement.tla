------------------------------ MODULE Placement ------------------------------
(* Where an actor lives (core/placement.hpp, core/placement_policies.hpp    *)
(* and the bin cache of core/cluster_topology.hpp) over the roster of       *)
(* core/membership.hpp. The hashed weights, or the scores of                *)
(* place_weighted, are one arbitrary table, ties included; a capability is  *)
(* one that a node has or has not.                                          *)
EXTENDS Naturals, FiniteSets, SequencesExt, Sequences, Bitwise

CONSTANTS Nodes, Keys,      \* node ids; hashes of actors and of bins
          Bins,             \* bin representatives, a subset of Keys
          Able, Liked,      \* nodes with the required and with the preferred capability
          MaxWeight, MaxEpoch

VARIABLES weight,   \* rendezvous_weight(node, key)
          roster, epoch,
          building, \* the view the membership thread rebuilds the bins for, or {}
          bins      \* the published table: [nodes, table]

placeVars == <<weight, roster, epoch, building, bins>>

(* place_hash, the loop: the heaviest node so far, the larger id on a tie.     *)
Wins(n, b, key) == weight[n, key] > weight[b, key] \/ (weight[n, key] = weight[b, key] /\ n > b)
Best(key, best, n) == IF best = 0 \/ Wins(n, best, key) THEN n ELSE best
PlaceSeq(key, nodes) == FoldLeft(LAMBDA b, n : Best(key, b, n), 0, nodes)
\* A roster is published sorted.
Sorted(S) == SetToSortSeq(S, <)
place_hash(key, S) == PlaceSeq(key, Sorted(S))

Table(S) == [b \in Bins |-> place_hash(b, S)]

PlaceInit ==
    /\ weight \in [Nodes \X Keys -> 0..MaxWeight]
    /\ roster = Nodes /\ epoch = 0 /\ building = {}
    /\ bins = [nodes |-> Nodes, table |-> Table(Nodes)]
-----------------------------------------------------------------------------
(* InProcessMembership.                                                        *)

publish(S) == epoch < MaxEpoch /\ roster' = S /\ epoch' = epoch + 1
join(n) == n \notin roster /\ publish(roster \cup {n}) /\ UNCHANGED <<weight, building, bins>>
leave(n) == n \in roster /\ roster # {n} /\ publish(roster \ {n}) /\ UNCHANGED <<weight, building, bins>>

(* VirtualBinsCache::rebuild_for, on the membership thread: build off the lock, *)
(* then swap the snapshot in.                                                  *)
rebuild_for ==
    /\ building = {} /\ bins.nodes # roster
    /\ building' = roster
    /\ UNCHANGED <<weight, roster, epoch, bins>>

swap ==
    /\ building # {}
    /\ bins' = [nodes |-> building, table |-> Table(building)] /\ building' = {}
    /\ UNCHANGED <<weight, roster, epoch>>

PlaceNext == \E n \in Nodes : join(n) \/ leave(n) \/ rebuild_for \/ swap
-----------------------------------------------------------------------------
(* resolve_placement_impl: HashById with a set of modifiers. The affinity      *)
(* target is another key, placed by its own hash over the whole roster.        *)

Narrowed(mods, target) ==
    LET req == IF "Require" \in mods THEN roster \cap Able ELSE roster
        at  == place_hash(target, roster)
        aff == IF "Affinity" \in mods /\ at \in req THEN {at} ELSE req
    IN IF "AntiAffinity" \in mods THEN aff \ {at} ELSE aff

Preferred(mods, elig) == IF "Prefer" \in mods /\ elig \cap Liked # {} THEN elig \cap Liked ELSE elig

\* The node, or 0 for an error.
resolve(mods, key, target, caller) ==
    LET elig == Narrowed(mods, target) IN
    IF elig = {} THEN 0
    ELSE IF "LocalFirst" \in mods /\ caller \in elig THEN caller
    ELSE place_hash(key, Preferred(mods, elig))

Modifiers == {"Require", "Affinity", "AntiAffinity", "LocalFirst", "Prefer"}
-----------------------------------------------------------------------------
MovesOnlyNeeded ==
    /\ roster' # roster
       => \A k \in Keys : LET a == place_hash(k, roster) b == place_hash(k, roster')
                          IN a # b => a \notin roster' \/ b \notin roster
    /\ bins' # bins
       => \A k \in Bins : bins.table[k] # bins'.table[k]
                          => bins.table[k] \notin bins'.nodes \/ bins'.table[k] \notin bins.nodes

\* A roster change moves no actor it need not move, in exact placement and in the
\* bin table alike: an owner changes only when the old one left or the new one
\* just came (place_hash, placement.hpp:49-64).
OnlyNeededMoves == [][MovesOnlyNeeded]_placeVars

\* Two nodes that agree on the members agree on every owner, though they learned
\* of the members in different orders and weights may tie (:56).
OwnerIsOrderFree == \A k \in Keys : \A s \in SetToSeqs(roster) : PlaceSeq(k, s) = place_hash(k, roster)

\* Whatever the modifiers are combined with, the node chosen has the required
\* capability and is not the one the actor must avoid, the caller's own node
\* included (placement_policies.hpp:237-250).
ResolvedIsEligible == \A mods \in SUBSET Modifiers, k, t \in Keys, caller \in Nodes :
    LET n == resolve(mods, k, t, caller) IN n # 0 =>
        /\ n \in roster
        /\ "Require" \in mods => n \in Able
        /\ "AntiAffinity" \in mods => n # place_hash(t, roster)

\* A preference never costs an actor its placement (:253-258).
PreferNeverStrands == \A mods \in SUBSET Modifiers, k, t \in Keys :
    resolve(mods, k, t, 0) = 0 <=> resolve(mods \ {"Prefer"}, k, t, 0) = 0

-----------------------------------------------------------------------------
(* Relay routing in a large cluster (core/cluster_topology.hpp): XOR-       *)
(* distance tables, the greedy route they give, and the pin that keeps one  *)
(* stream on one route until it has drained while the path_roster moves.    *)

CONSTANTS Ids, IdBits, K,     \* node ids below 2^IdBits, bucket size
          Src, Dst, MaxMsgs, MaxChanges

VARIABLES path_roster, changes,
          pin,      \* PathPin of the stream: [path, digest], digest {} before the first message
          link,     \* messages on each hop, in order: <<a, b>> -> Seq([seq, rest])
          sent, got

relayVars == <<path_roster, changes, pin, link, sent, got>>

xor_distance(a, b) == a ^^ b
Dist == [p \in Ids \X Ids |-> xor_distance(p[1], p[2])]

\* build: bucket i holds the peers whose distance has its top bit at i, the K closest.
Bucket(self, S, i) == {n \in S \ {self} : 2^i <= Dist[self, n] /\ Dist[self, n] < 2^(i + 1)}
Closest(self, B) == {n \in B : Cardinality({m \in B : Dist[self, m] < Dist[self, n]}) < K}
build(self, S) == UNION {Closest(self, Bucket(self, S, i)) : i \in 0..(IdBits - 1)}

\* next_hop: the known peer closest to the target, if it is closer than this node.
next_hop(self, target, S) ==
    LET T == build(self, S)
        best == CHOOSE n \in T : \A m \in T : Dist[n, target] <= Dist[m, target]
    IN IF target = self THEN self
       ELSE IF T # {} /\ Dist[best, target] < Dist[self, target] THEN best ELSE 0

\* route, with max_hops = IdBits: <<>> when it ends anywhere else.
route(src, dst, S) ==
    LET at[h \in 0..IdBits] == IF h = 0 THEN <<src>>
                               ELSE LET p == at[h - 1] n == next_hop(p[Len(p)], dst, S)
                                    IN IF p[Len(p)] = dst \/ n = 0 THEN p ELSE Append(p, n)
        path == at[IdBits]
    IN IF path[Len(path)] = dst THEN Tail(path) ELSE <<>>

RelayInit ==
    /\ path_roster = Ids /\ changes = 0 /\ pin = [path |-> <<>>, digest |-> {}]
    /\ link = [p \in Ids \X Ids |-> <<>>] /\ sent = 0 /\ got = <<>>

\* SWIM moves the path_roster; the ends of the stream stay.
change(n) ==
    /\ changes < MaxChanges /\ n \notin {Src, Dst}
    /\ path_roster' = IF n \in path_roster THEN path_roster \ {n} ELSE path_roster \cup {n}
    /\ changes' = changes + 1
    /\ UNCHANGED <<pin, link, sent, got>>

\* The stream has drained: nothing of it is on any hop.
Drained == \A p \in DOMAIN link : link[p] = <<>>

\* PathPin::resolve_path.
resolve_path ==
    IF pin.digest = {} \/ (pin.digest # path_roster /\ Drained)
    THEN [path |-> route(Src, Dst, path_roster), digest |-> path_roster] ELSE pin

Put(l, a, path, seq) ==
    [l EXCEPT ![<<a, Head(path)>>] = Append(@, [seq |-> seq, rest |-> Tail(path)])]

send ==
    /\ sent < MaxMsgs
    /\ pin' = resolve_path
    /\ pin'.path # <<>>
    /\ sent' = sent + 1
    /\ link' = Put(link, Src, pin'.path, sent + 1)
    /\ UNCHANGED <<path_roster, changes, got>>

\* A relay passes a message on along its path.
forward(p) ==
    /\ link[p] # <<>>
    /\ LET m == Head(link[p])
           l == [link EXCEPT ![p] = Tail(@)]
       IN IF m.rest = <<>> THEN got' = Append(got, m.seq) /\ link' = l
          ELSE link' = Put(l, p[2], m.rest, m.seq) /\ UNCHANGED got
    /\ UNCHANGED <<path_roster, changes, pin, sent>>

RelayNext ==
    \/ \E n \in Ids : change(n)
    \/ send
    \/ \E p \in Ids \X Ids : forward(p)

\* One sender's messages arrive in the order they were sent, though the path_roster
\* changes while they are under way and routes differ in length (resolve_path,
\* cluster_topology.hpp:422-434).
StreamInOrder == \A i \in DOMAIN got : got[i] = i

\* Greedy routing delivers in every path_roster: between any two members the tables,
\* each kept from the same path_roster, give a route of at most one hop per bit of the
\* ids, and it passes no node twice (build and next_hop, :238-275).
RoutesArrive == \A a, b \in path_roster : a # b =>
    LET p == route(a, b, path_roster) IN p # <<>> /\ Cardinality({p[i] : i \in DOMAIN p} \cup {a}) = Len(p) + 1
=============================================================================
