--------------------------- MODULE LinkHandshakes ---------------------------
(* The two handshake engines a link of the cluster can be secured with.     *)
(*                                                                          *)
(* The pinned-key handshake (adapters/sodium/pinned_handshake.hpp and       *)
(* pinned_identity.hpp) between the nodes of one cluster: two fixed         *)
(* messages over links that may lose, repeat and misdeliver them, key books *)
(* that the operator edits meanwhile, and the responder's replay record.    *)
(*                                                                          *)
(* The certificate handshake (adapters/mbedtls/mbedtls_handshake.hpp, with  *)
(* core/overlapped_material.hpp and core/tls_identity.hpp) while an         *)
(* operator rolls a new root out: the outgoing material stays valid for a   *)
(* grace window, and an engine works on what it copied when it was made.    *)
(*                                                                          *)
(* A cluster runs one of the two: they share the clock, the registry of     *)
(* revocations and the place where an engine keeps its state.               *)
EXTENDS FiniteSets, Naturals, Sequences

(* Noise_IK as adapters/sodium/noise.hpp runs it, with symbolic             *)
(* cryptography: a Diffie-Hellman result is the unordered pair of its keys, *)
(* a hash or a chaining key is the sequence of what was mixed into it, and  *)
(* a ciphertext opens under exactly the key, nonce and associated data that *)
(* sealed it.                                                               *)

dh(a, b) == {a, b}

(* SymmetricState: h_, ck_, and the nonce of the cipher keyed by ck_.          *)
initialize(prologue) == [h |-> <<prologue>>, ck |-> <<>>, n |-> 0]
mix_hash(ss, data) == [ss EXCEPT !.h = Append(@, data)]
mix_key(ss, ikm) == [ss EXCEPT !.ck = Append(@, ikm), !.n = 0]
Sealed(ss, pt) == [key |-> ss.ck, n |-> ss.n, ad |-> ss.h, pt |-> pt]
\* encrypt_and_hash and decrypt_and_hash advance both sides by the ciphertext.
Hashed(ss, ct) == [mix_hash(ss, ct) EXCEPT !.n = @ + 1]
Opens(ss, ct) == ct.key = ss.ck /\ ct.n = ss.n /\ ct.ad = ss.h

Hkdf(ck, i) == Append(ck, i)
\* split: the two transport keys, by role.
Split_SameOrder(ss, role) == [send |-> Hkdf(ss.ck, 1), recv |-> Hkdf(ss.ck, 2)]
Split(ss, role) ==
    IF role = "Initiator" THEN [send |-> Hkdf(ss.ck, 1), recv |-> Hkdf(ss.ck, 2)]
                          ELSE [send |-> Hkdf(ss.ck, 2), recv |-> Hkdf(ss.ck, 1)]

\* The constructor: a responder's static key is in the prologue hash of both.
NewHandshake(prologue, responderStatic) == mix_hash(initialize(prologue), responderStatic)

(* -> e, es, s, ss: the message, and the state after it. A static key is named *)
(* by its public half, so s stands for both.                                   *)
Msg1(ss0, e, s, rs, payload) ==
    LET a == mix_key(mix_hash(ss0, e), dh(e, rs))
        cs == Sealed(a, s)
        b == mix_key(Hashed(a, cs), dh(s, rs))
        cp == Sealed(b, payload)
    IN [msg |-> [e |-> e, s |-> cs, p |-> cp], ss |-> Hashed(b, cp)]

ReadMsg1(ss0, s, m) ==
    LET a == mix_key(mix_hash(ss0, m.e), dh(s, m.e))
        b == mix_key(Hashed(a, m.s), dh(s, m.s.pt))
    IN [ok |-> Opens(a, m.s) /\ Opens(b, m.p), rs |-> m.s.pt, payload |-> m.p.pt, ss |-> Hashed(b, m.p)]

(* <- e, ee, se.                                                               *)
Msg2(ss0, e, re, rs, payload) ==
    LET a == mix_key(mix_key(mix_hash(ss0, e), dh(e, re)), dh(e, rs))
        cp == Sealed(a, payload)
    IN [msg |-> [e |-> e, p |-> cp], ss |-> Hashed(a, cp)]

ReadMsg2(ss0, e, s, m) ==
    LET a == mix_key(mix_key(mix_hash(ss0, m.e), dh(e, m.e)), dh(s, m.e))
    IN [ok |-> Opens(a, m.p), payload |-> m.p.pt, ss |-> Hashed(a, m.p)]

-----------------------------------------------------------------------------
CONSTANTS Nodes, RoleOf,        \* each node's key is its own name; RoleOf: node -> "Member" | "Client"
          Dials,                \* initiator engines: id -> [from, to]
          Accepts,              \* responder engines: id -> node
          Capacity, MaxSkew, MaxTime, MaxEdits,
          Handshakes,           \* certificate handshakes: id -> [client, server]
          Grace, MaxRoot, MaxCertTime

VARIABLES now,
          book,        \* each node's PinnedKeyBook: key -> role, "none" when absent
          revoked,     \* the registry's revoked keys; an engine takes them when it is made
          eng,         \* pinned engines: [state, peer, role, ss, revoked, keys]; certificate
                       \* engines: <<handshake, side>> -> [state, own, roots, revoked, at]
          wire,        \* messages ever sent
          lastTs,      \* last_timestamp of each node
          latest, order, \* each responder's replay record
          edits,
          trust,       \* TrustStore of each node: [current, previous, deadline], 0 is no root
          ident        \* IdentityMaterial: the root that issued each node's current certificate

pinVars == <<now, book, revoked, eng, wire, lastTs, latest, order, edits>>

Engines == DOMAIN Dials \cup DOMAIN Accepts
Self(x) == IF x \in DOMAIN Dials THEN Dials[x].from ELSE Accepts[x]
\* NodeId: the key's bits and the role bit.
derive_pinned_node_id(key, role) == <<key, role>>
node_id(n) == derive_pinned_node_id(n, RoleOf[n])
ed25519_to_x25519(k) == <<"s", k>>
NoKeys == [send |-> <<>>, recv |-> <<>>]
Fresh == [state |-> "None", peer |-> 0, role |-> "none", ss |-> initialize(""), revoked |-> {}, keys |-> NoKeys]
Empty == [x \in {} |-> 0]

PinInit ==
    /\ now = 0 /\ book = [n \in Nodes |-> RoleOf] /\ revoked = {}
    /\ eng = [x \in Engines |-> Fresh] /\ wire = {}
    /\ lastTs = [n \in Nodes |-> 0]
    /\ latest = [n \in Nodes |-> Empty] /\ order = [n \in Nodes |-> <<>>] /\ edits = 0

Tick == now < MaxTime /\ now' = now + 1
        /\ UNCHANGED <<book, revoked, eng, wire, lastTs, latest, order, edits>>

\* PinnedKeyBook::admit, which never changes the role of a key, and revoke.
Edit == edits < MaxEdits /\ edits' = edits + 1
        /\ UNCHANGED <<now, eng, wire, lastTs, latest, order>>
admit(n, k, role) == Edit /\ book[n][k] = "none" /\ book' = [book EXCEPT ![n][k] = role] /\ UNCHANGED revoked
book_revoke(n, k) == Edit /\ book[n][k] # "none" /\ book' = [book EXCEPT ![n][k] = "none"] /\ UNCHANGED revoked
registry_revoke(k) == Edit /\ k \notin revoked /\ revoked' = revoked \cup {k} /\ UNCHANGED book
role_of(n, k) == book[n][k]
\* create: the factory's engine, with the revocations of that moment.
create(x) ==
    /\ eng[x].state = "None"
    /\ eng' = [eng EXCEPT ![x].state = "Start", ![x].revoked = revoked]
    /\ UNCHANGED <<now, book, revoked, wire, lastTs, latest, order, edits>>

Die(x) == eng' = [eng EXCEPT ![x].state = "Dead"]
finish(x, peer, ss, role) ==
    eng' = [eng EXCEPT ![x].state = "Done", ![x].peer = peer, ![x].keys = Split(ss, role), ![x].ss = initialize("")]
-----------------------------------------------------------------------------
(* The initiator.                                                              *)

\* key_of and the checks of the dialled key.
DialRefused(x) ==
    LET k == Dials[x].to IN
    \/ role_of(Self(x), k) = "none" \/ derive_pinned_node_id(k, role_of(Self(x), k)) # node_id(k)
    \/ k \in eng[x].revoked

next_timestamp(n) == IF now > lastTs[n] THEN now ELSE lastTs[n] + 1

initiator_start(x) ==
    /\ x \in DOMAIN Dials /\ eng[x].state = "Start"
    /\ IF DialRefused(x)
       THEN Die(x) /\ UNCHANGED <<wire, lastTs>>
       ELSE LET n == Self(x) k == Dials[x].to
                p == [node |-> node_id(n), ts |-> next_timestamp(n), key |-> n]
                w == Msg1(NewHandshake("pinned", ed25519_to_x25519(k)), <<"e", x>>,
                          ed25519_to_x25519(n), ed25519_to_x25519(k), p)
            IN /\ wire' = wire \cup {[kind |-> 1, m |-> w.msg]}
               /\ lastTs' = [lastTs EXCEPT ![n] = next_timestamp(n)]
               /\ eng' = [eng EXCEPT ![x].state = "AwaitMsg2", ![x].peer = k,
                                     ![x].role = role_of(n, k), ![x].ss = w.ss]
    /\ UNCHANGED <<now, book, revoked, latest, order, edits>>

StillAdmitted_Once(x) == TRUE
StillAdmitted(x) == role_of(Self(x), eng[x].peer) = eng[x].role

initiator_msg2(x, m) ==
    /\ x \in DOMAIN Dials /\ eng[x].state = "AwaitMsg2"
    /\ LET r == ReadMsg2(eng[x].ss, <<"e", x>>, ed25519_to_x25519(Self(x)), m)
       IN IF r.ok /\ r.payload = node_id(eng[x].peer) /\ StillAdmitted(x)
          THEN finish(x, eng[x].peer, r.ss, "Initiator")
          ELSE Die(x)
    /\ UNCHANGED <<now, book, revoked, wire, lastTs, latest, order, edits>>
-----------------------------------------------------------------------------
(* The responder.                                                              *)

InSkew(ts) == MaxSkew > 0 => (IF ts > now THEN ts - now ELSE now - ts) <= MaxSkew

\* PinnedReplayGuard::accept: strictly newer than the last; the oldest key makes room.
NotReplayed(n, k, ts) == k \in DOMAIN latest[n] => ts > latest[n][k]
Record(n, k, ts) ==
    LET full == k \notin DOMAIN latest[n] /\ Cardinality(DOMAIN latest[n]) >= Capacity
        kept == IF full THEN DOMAIN latest[n] \ {Head(order[n])} ELSE DOMAIN latest[n]
    IN /\ latest' = [latest EXCEPT ![n] = [j \in kept \cup {k} |-> IF j = k THEN ts ELSE latest[n][j]]]
       /\ order' = [order EXCEPT ![n] = IF k \in DOMAIN latest[n] THEN @
                                        ELSE Append(IF full THEN Tail(@) ELSE @, k)]

\* Everything msg 1 must satisfy before the replay record is touched.
Acceptable(x, r) ==
    LET n == Self(x) p == r.payload IN
    /\ r.ok
    /\ ed25519_to_x25519(p.key) = r.rs
    /\ role_of(n, p.key) # "none"
    /\ p.node = derive_pinned_node_id(p.key, role_of(n, p.key))
    /\ p.key \notin eng[x].revoked
    /\ InSkew(p.ts)

responder(x, m) ==
    /\ x \in DOMAIN Accepts /\ eng[x].state = "Start"
    /\ LET n == Self(x)
           r == ReadMsg1(NewHandshake("pinned", ed25519_to_x25519(n)), ed25519_to_x25519(n), m)
           w == Msg2(r.ss, <<"e", x>>, m.e, r.rs, node_id(n))
       IN IF ~Acceptable(x, r) \/ ~NotReplayed(n, r.payload.key, r.payload.ts)
          THEN Die(x) /\ UNCHANGED <<wire, latest, order>>
          ELSE /\ Record(n, r.payload.key, r.payload.ts)
               /\ wire' = wire \cup {[kind |-> 2, m |-> w.msg]}
               /\ finish(x, r.payload.key, w.ss, "Responder")
    /\ UNCHANGED <<now, book, revoked, lastTs, edits>>
-----------------------------------------------------------------------------
PinNext ==
    \/ Tick
    \/ \E n, k \in Nodes : book_revoke(n, k) \/ \E role \in {"Member", "Client"} : admit(n, k, role)
    \/ \E k \in Nodes : registry_revoke(k)
    \/ \E x \in Engines : create(x) \/ initiator_start(x)
    \/ \E x \in Engines, w \in wire :
         \/ w.kind = 2 /\ initiator_msg2(x, w.m)
         \/ w.kind = 1 /\ responder(x, w.m)

Mirrored(a, b) == eng[a].keys.send = eng[b].keys.recv /\ eng[a].keys.recv = eng[b].keys.send
Completed(x) == eng[x].state = "Done"
\* The third item of a transcript is the initiator's ephemeral key.
AnswersTo(w) == w.m.p.ad[3]

\* An initiator that finishes shares its keys, each in the other direction, with
\* exactly one responder: an engine of the node it dialled that knows it as its
\* peer, whatever was repeated or misdelivered on the way (read_msg2 and split,
\* noise.hpp:391-464).
SessionsPair == \A a \in DOMAIN Dials : Completed(a) =>
    /\ eng[a].keys.send # eng[a].keys.recv
    /\ \E b \in DOMAIN Accepts :
        /\ Completed(b) /\ Mirrored(a, b)
        /\ Self(b) = Dials[a].to /\ eng[b].peer = Self(a)
        /\ \A c \in DOMAIN Accepts \ {b} : ~Completed(c) \/ ~Mirrored(a, c)

\* A repeated message 1 opens one session only, even when it arrives at another
\* engine and inside the clock skew (PinnedReplayGuard::accept,
\* pinned_handshake.hpp:138-153). The record is long enough for the nodes here:
\* past its capacity the code documents a replay as accepted once more.
RepliedOnce == \A v, w \in {x \in wire : x.kind = 2} : AnswersTo(v) = AnswersTo(w) => v = w

FinishesAdmitted == \A x \in Engines :
    eng'[x].state = "Done" /\ eng[x].state # "Done" => book[Self(x)][eng'[x].peer] = RoleOf[eng'[x].peer]

\* A session starts only with a peer that is admitted, in the role it is known by,
\* at that moment, though the answer may come long after the dial (:319, :348).
AdmittedAtFinish == [][FinishesAdmitted]_pinVars

-----------------------------------------------------------------------------
(* The certificate handshake. In the registry a revocation is a fingerprint  *)
(* [node, root].                                                             *)

certVars == <<now, trust, ident, revoked, eng>>

Sides == {"client", "server"}
Ends == (DOMAIN Handshakes) \X Sides
NodeOf(x) == IF x[2] = "client" THEN Handshakes[x[1]].client ELSE Handshakes[x[1]].server
Other(x) == <<x[1], IF x[2] = "client" THEN "server" ELSE "client">>
NoEngine == [state |-> "none", own |-> 0, roots |-> {}, revoked |-> {}, at |-> 0]

CertInit ==
    /\ now = 0 /\ revoked = {}
    /\ trust = [n \in Nodes |-> [current |-> 1, previous |-> 0, deadline |-> 0]]
    /\ ident = [n \in Nodes |-> 1]
    /\ eng = [x \in Ends |-> NoEngine]
-----------------------------------------------------------------------------
(* OverlappedMaterial.                                                         *)

rotate(m, next) == [current |-> next, previous |-> m.current, deadline |-> now + Grace]

\* snapshot: the previous material, until its deadline.
snapshot(m) == {m.current} \cup (IF m.previous # 0 /\ now < m.deadline THEN {m.previous} ELSE {})

\* The operator's order: a root reaches every store before any certificate of it
\* is used, and every certificate has moved before the next root.
rotate_trust(n) ==
    LET r == trust[n].current + 1 IN
    /\ r <= MaxRoot
    /\ \A m \in Nodes : trust[m].current \in {r - 1, r} /\ ident[m] = r - 1
    /\ trust' = [trust EXCEPT ![n] = rotate(@, r)]
    /\ UNCHANGED <<now, ident, revoked, eng>>

rotate_identity(n) ==
    LET r == ident[n] + 1 IN
    /\ \A m \in Nodes : trust[m].current = r
    /\ ident' = [ident EXCEPT ![n] = r]
    /\ UNCHANGED <<now, trust, revoked, eng>>

\* A compromised root: its grace window is cut short.
evict_previous(n) ==
    /\ trust[n].previous # 0 /\ \A m \in Nodes : ident[m] = trust[n].current
    /\ trust' = [trust EXCEPT ![n].previous = 0, ![n].deadline = 0]
    /\ UNCHANGED <<now, ident, revoked, eng>>

\* The window is longer than the rollout.
CertTick ==
    /\ now < MaxCertTime
    /\ \A n, m \in Nodes : ident[m] = trust[n].previous => now + 1 < trust[n].deadline
    /\ now' = now + 1
    /\ UNCHANGED <<trust, ident, revoked, eng>>

revoke(n, r) ==
    /\ ident[n] > r /\ r > 0
    /\ revoked' = revoked \cup {<<n, r>>} /\ revoked' # revoked
    /\ UNCHANGED <<now, trust, ident, eng>>
-----------------------------------------------------------------------------
(* MbedtlsHandshakeEngine.                                                     *)

\* create and setup: own certificate, the union of the roots, the revocations.
mbedtls_create(x) ==
    /\ eng[x].state = "none"
    /\ eng' = [eng EXCEPT ![x] = [state |-> "shaking", own |-> ident[NodeOf(x)],
                                  roots |-> snapshot(trust[NodeOf(x)]), revoked |-> revoked, at |-> now]]
    /\ UNCHANGED <<now, trust, ident, revoked>>

\* The chain must verify, verify_cb refuses a revoked leaf, and finish wants the
\* expected identity in the certificate.
Verifies(e, peer, root, expected) ==
    root \in e.roots /\ <<peer, root>> \notin e.revoked /\ peer = expected

\* Both ends verify in the course of one TLS handshake; either refusal ends it.
complete(h) ==
    LET c == <<h, "client">> s == <<h, "server">>
        ok == /\ Verifies(eng[c], NodeOf(s), eng[s].own, Handshakes[h].server)
              /\ Verifies(eng[s], NodeOf(c), eng[c].own, Handshakes[h].client)
        to == IF ok THEN "done" ELSE "failed"
    IN /\ eng[c].state = "shaking" /\ eng[s].state = "shaking"
       /\ eng' = [eng EXCEPT ![c].state = to, ![s].state = to]
       /\ UNCHANGED <<now, trust, ident, revoked>>

\* A refused link is dialled again with new engines.
redial(h) ==
    /\ eng[<<h, "client">>].state = "failed"
    /\ eng' = [eng EXCEPT ![<<h, "client">>] = NoEngine, ![<<h, "server">>] = NoEngine]
    /\ UNCHANGED <<now, trust, ident, revoked>>
-----------------------------------------------------------------------------
CertNext ==
    \/ CertTick
    \/ \E n \in Nodes : rotate_trust(n) \/ rotate_identity(n) \/ evict_previous(n) \/ \E r \in 1..MaxRoot : revoke(n, r)
    \/ \E x \in Ends : mbedtls_create(x)
    \/ \E h \in DOMAIN Handshakes : complete(h) \/ redial(h)

\* Rotation never splits the cluster: at every moment of a rollout that fits its
\* grace window, any two nodes that start a handshake now accept each other
\* (OverlappedMaterial::rotate and the union of roots, mbedtls_handshake.hpp:191).
RolloutKeepsLinks == \A n, m \in Nodes : ident[m] \in snapshot(trust[n]) /\ <<m, ident[m]>> \notin revoked

\* After the window, or once evicted, a root is gone for every new handshake: an
\* engine that completes took no root that its node had stopped trusting by the
\* time the engine was made (snapshot, overlapped_material.hpp:66-76).
OldRootsExpire == \A x \in Ends : eng[x].state # "none" =>
    \A r \in eng[x].roots : r # trust[NodeOf(x)].current /\ r = trust[NodeOf(x)].previous
                               => eng[x].at < trust[NodeOf(x)].deadline

FailsOnlyStale == \A h \in DOMAIN Handshakes :
    (eng[<<h, "client">>].state = "shaking" /\ eng'[<<h, "client">>].state = "failed") =>
        \E s \in Sides : eng[<<h, s>>].own # ident[NodeOf(<<h, s>>)]
                         \/ eng[<<h, s>>].roots # snapshot(trust[NodeOf(<<h, s>>)])

\* A handshake fails only because it straddled a rotation or a revocation, so a
\* redial repairs it: engines that agree with the stores of now cannot refuse each other.
FailureIsStale == [][FailsOnlyStale]_certVars
=============================================================================
