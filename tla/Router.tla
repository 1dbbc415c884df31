------------------------------- MODULE Router -------------------------------
(* Routing between nodes (core/distribution.hpp) over a transport that         *)
(* advertises schemas per session (core/transport.hpp, core/secure_transport   *)
(* .hpp:442-474), while the nodes are upgraded one after the other.  The type  *)
(* key of a message is its schema's fingerprint and an actor's key folds those *)
(* of its messages (core/metadata.hpp), so both change with the version.       *)
EXTENDS Naturals, Sequences, FiniteSets

CONSTANTS Nodes, Actors, Versions,
          Abi,        \* node -> platform ABI tag
          Home,       \* <<actor, version>> -> nodes by rendezvous weight, heaviest first
          Callers,    \* principals a frame may claim; "anonymous" among them
          Bind(_, _), \* the principal policy: node, claimed -> bound principal or "refused"
          Rights,     \* principals the authorizer lets through
          MaxMsgs

VARIABLES ver,        \* the build each node runs
          view,       \* placement_view() of each node
          secured,    \* nodes with an authorizer, and those of them with a principal policy
          advert,     \* advert[n][m]: what n holds of m's schema, or None
          frame,      \* send_remote under way at n: negotiated, not yet handed over
          link,       \* frames between two nodes, in order
          inbox,      \* messages handed to the local router
          refused,    \* frames no inbound thunk was found for
          sent

routerVars == <<ver, view, secured, advert, frame, link, inbox, refused, sent>>

None == [key |-> 0, abi |-> 0]
NoFrame == [to |-> 0]
Pairs == {p \in Nodes \X Nodes : p[1] # p[2]}

type_key_of(v) == v
actor_id_of(a, v) == <<a, v>>
\* What register_remote publishes of the build n runs.
local_schema(n) == [key |-> type_key_of(ver[n]), abi |-> Abi[n]]
RouterInit ==
    /\ ver = [n \in Nodes |-> 1] /\ view = [n \in Nodes |-> Nodes]
    /\ secured = [n \in Nodes |-> "none"]
    /\ advert = [n \in Nodes |-> [m \in Nodes |-> None]] /\ frame = [n \in Nodes |-> NoFrame]
    /\ link = [p \in Pairs |-> <<>>] /\ inbox = {} /\ refused = {} /\ sent = 0
-----------------------------------------------------------------------------
set_authorizer(n, how) == /\ secured[n] # how /\ secured[n] = "none" /\ secured' = [secured EXCEPT ![n] = how]
                          /\ UNCHANGED <<ver, view, advert, frame, link, inbox, refused, sent>>

Learn(n, S) == /\ n \in S /\ view[n] # S /\ view' = [view EXCEPT ![n] = S]
               /\ UNCHANGED <<ver, secured, advert, frame, link, inbox, refused, sent>>

\* send_schema_frame of m reaches n over their session.
handle_schema_frame(n, m) ==
    /\ <<n, m>> \in Pairs /\ advert[n][m] = None
    /\ advert' = [advert EXCEPT ![n][m] = local_schema(m)]
    /\ UNCHANGED <<ver, view, secured, frame, link, inbox, refused, sent>>

\* A node leaves, comes back as another build: its sessions end, its peers drop
\* what they knew of it, and it starts with nothing.
Upgrade(n) ==
    /\ ver[n] + 1 \in Versions /\ ver' = [ver EXCEPT ![n] = @ + 1]
    /\ advert' = [k \in Nodes |-> IF k = n THEN [m \in Nodes |-> None] ELSE [advert[k] EXCEPT ![n] = None]]
    /\ frame' = [frame EXCEPT ![n] = NoFrame] /\ secured' = [secured EXCEPT ![n] = "none"]
    /\ link' = [p \in Pairs |-> IF p[1] = n THEN <<>> ELSE link[p]]
    /\ UNCHANGED <<view, inbox, refused, sent>>
-----------------------------------------------------------------------------
place(id, v) == LET w == SelectSeq(Home[id], LAMBDA n : n \in v) IN IF w = <<>> THEN 0 ELSE Head(w)

peer_accepts_type_AnyAbi(n, m) == advert[n][m].key = type_key_of(ver[n])
peer_accepts_type(n, m) == advert[n][m] = local_schema(n)
negotiate(n, m) == IF peer_accepts_type(n, m) THEN "Tagless" ELSE "Tagged"

\* tell: the local fast path, or send_remote up to the encoded frame.
tell(n, a, claimed) ==
    /\ sent < MaxMsgs /\ frame[n] = NoFrame /\ sent' = sent + 1
    /\ LET id == actor_id_of(a, ver[n])
           owner == place(id, view[n])
       IN IF owner \in {0, n}
          THEN inbox' = inbox \cup {[seq |-> sent + 1, at |-> n, from |-> n, schema |-> ver[n], read |-> ver[n],
                                     mode |-> "Local", abi |-> Abi[n], claimed |-> claimed, as |-> claimed, policy |-> "none"]}
               /\ UNCHANGED frame
          ELSE frame' = [frame EXCEPT ![n] = [to |-> owner, target |-> id, msg_type |-> type_key_of(ver[n]),
                                              mode |-> negotiate(n, owner), seq |-> sent + 1, from |-> n,
                                              claimed |-> claimed, abi |-> Abi[n]]]
               /\ UNCHANGED inbox
    /\ UNCHANGED <<ver, view, secured, advert, link, refused>>

\* The congestion gate may shed it; the transport takes it otherwise.
send(n) ==
    /\ frame[n] # NoFrame /\ frame' = [frame EXCEPT ![n] = NoFrame]
    /\ \/ link' = [link EXCEPT ![<<n, frame[n].to>>] = Append(@, frame[n])]
       \/ UNCHANGED link
    /\ UNCHANGED <<ver, view, secured, advert, inbox, refused, sent>>

\* deliver: the effective principal, or "refused".
Bound(n, f) ==
    IF f.claimed = "anonymous" /\ secured[n] # "policy" THEN f.claimed
    ELSE IF secured[n] # "policy" THEN "refused" ELSE Bind(f.from, f.claimed)

\* The thunk registered under this build's keys of the actor and of the message.
HasThunk(n, f) == f.msg_type = type_key_of(ver[n]) /\ f.target[2] = ver[n]

authorize_at_boundary(who) == who \in Rights
\* deliver_from_wire: the decoded message, in the local actor's mailbox.
deliver_from_wire(n, f) ==
    [seq |-> f.seq, at |-> n, from |-> f.from, schema |-> f.msg_type, read |-> ver[n], mode |-> f.mode,
     abi |-> f.abi, claimed |-> f.claimed, as |-> Bound(n, f), policy |-> secured[n]]

deliver(p) ==
    /\ link[p] # <<>> /\ link' = [link EXCEPT ![p] = Tail(@)]
    /\ LET n == p[2] f == Head(link[p])
           ok == secured[n] # "none" /\ authorize_at_boundary(Bound(n, f))
       IN /\ refused' = IF ok /\ ~HasThunk(n, f) THEN refused \cup {f.seq} ELSE refused
          /\ inbox' = IF ok /\ HasThunk(n, f)
                      THEN inbox \cup {deliver_from_wire(n, f)}
                      ELSE inbox
    /\ UNCHANGED <<ver, view, secured, advert, frame, sent>>

\* The peer budget sheds, or the connection loses the frame.
Lose(p) == /\ link[p] # <<>> /\ link' = [link EXCEPT ![p] = Tail(@)]
           /\ UNCHANGED <<ver, view, secured, advert, frame, inbox, refused, sent>>

RouterNext ==
    \/ \E n \in Nodes : \/ send(n) \/ Upgrade(n)
                        \/ \E how \in {"authorizer", "policy"} : set_authorizer(n, how)
                        \/ \E S \in SUBSET Nodes : Learn(n, S)
                        \/ \E m \in Nodes : handle_schema_frame(n, m)
                        \/ \E a \in Actors, c \in Callers : tell(n, a, c)
    \/ \E p \in Pairs : deliver(p) \/ Lose(p)
-----------------------------------------------------------------------------
\* Bytes are only ever read by the schema that wrote them, and memory images only
\* on the platform that made them, though the receiver may have been replaced
\* between the negotiation and the delivery (negotiate and deliver,
\* distribution.hpp:226, :291).
NeverReinterpreted == \A m \in inbox : m.schema = m.read /\ (m.mode = "Tagless" => m.abi = Abi[m.at])

\* No frame acts as a principal its sender merely claims: with a policy every
\* remote message acts as what the policy binds its authenticated sender to,
\* without one as nobody (deliver, :213-221).
PrincipalIsBound == \A m \in inbox : m.mode # "Local" =>
    \/ m.as = Bind(m.from, m.claimed)
    \/ m.as = "anonymous" /\ m.claimed = "anonymous" /\ m.policy # "policy"

\* What the documents promise of a rolling upgrade: nodes of the old and the new
\* build exchange messages, in the tagged form. An inbound registry keyed by the
\* receiver's own fingerprints refuses them (deliver, :226-227).
OldAndNewInteroperate == refused = {}
=============================================================================
