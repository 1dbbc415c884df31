------------------------------ MODULE Discovery ------------------------------
(* How a device finds others and reaches those it has no link to: discovery *)
(* on a local network, the labels it advertises, and the sealed-hop relay.  *)
(* The three share no state; each has its own variables and next-state      *)
(* relation.                                                                *)
EXTENDS Naturals, FiniteSets, Sequences, SequencesExt

(* Devices that find each other on a local network. Each advertises an      *)
(* opaque id that the application rotates with its windows, and accepts the *)
(* exact ids of the others in the current and the previous window. A device *)
(* reads its window when it starts something and when the application       *)
(* signals a boundary, so devices rotate one after the other. The network   *)
(* answers a registration, its end and a new browser with events inside the *)
(* call, as the in-memory platform does. The windows the application        *)
(* supplies are usable: an id of legal length and a host label.             *)

CONSTANTS Devices,
          Id(_, _),   \* the id a device has in a window
          MaxEpoch    \* bound: windows

None == <<>>

VARIABLES epoch,    \* the application's window
          open,     \* the device's scope is open
          accept,   \* the scope's ids: [id, previous]
          win,      \* the window it was read from
          adv,      \* the scope advertises (holds a handle)
          own,      \* own_label
          browse,   \* the scope browses
          seen,     \* the scope's found peers, as they were reported
          regs,     \* the network's registrations: [owner, id]
          early     \* ids announced to a device before its window knew them

lanVars == <<epoch, open, accept, win, adv, own, browse, seen, regs, early>>

LanInit ==
    /\ epoch = 1
    /\ open = [d \in Devices |-> FALSE] /\ accept = [d \in Devices |-> {}]
    /\ win = [d \in Devices |-> 0] /\ adv = [d \in Devices |-> FALSE]
    /\ own = [d \in Devices |-> None] /\ browse = [d \in Devices |-> FALSE]
    /\ seen = [d \in Devices |-> {}] /\ regs = {} /\ early = [d \in Devices |-> {}]

\* set_window: the ids of the previous window, then those of the current one,
\* which win where both lists name an id.
window_of(d, e) ==
    LET Now == {Id(o, e) : o \in Devices \ {d}}
        Past == IF e > 1 THEN {Id(o, e - 1) : o \in Devices \ {d}} \ Now ELSE {}
    IN {[id |-> i, previous |-> FALSE] : i \in Now} \cup {[id |-> i, previous |-> TRUE] : i \in Past}

accepts(acc, id) == \E a \in acc : a.id = id
Drop(peers, id) == {p \in peers : p.id # id}

\* on_event, given what the scope holds: Found is reported once, Lost only of
\* what was found, both only of an accepted id and never of our own.
found(acc, sn, mine, browsing, id) ==
    IF ~browsing \/ id = mine \/ ~accepts(acc, id) \/ (\E p \in sn : p.id = id) THEN sn
    ELSE sn \cup {a \in acc : a.id = id}
lost(acc, sn, mine, browsing, id) ==
    IF ~browsing \/ id = mine \/ ~accepts(acc, id) THEN sn ELSE Drop(sn, id)

\* What the other devices make of a list of events about one device's ids: the
\* end of one registration, then a new one.
Announced(d, gone, came) ==
    [o \in Devices |->
        IF o = d THEN seen[o]
        ELSE LET after == IF gone = None THEN seen[o] ELSE lost(accept[o], seen[o], own[o], browse[o], gone)
             IN IF came = None THEN after ELSE found(accept[o], after, own[o], browse[o], came)]
Missed(d, came) ==
    [o \in Devices |-> IF o # d /\ came # None /\ browse[o] /\ ~accepts(accept[o], came)
                       THEN early[o] \cup {came} ELSE early[o] \ {came}]

Registered(d) == {r.id : r \in {x \in regs : x.owner = d}}
Taken(d, id) == \E r \in regs : r.owner # d /\ r.id = id

open_scope(d) ==
    /\ ~open[d]
    /\ open' = [open EXCEPT ![d] = TRUE]
    /\ UNCHANGED <<epoch, accept, win, adv, own, browse, seen, regs, early>>

\* close_scope tears down both halves and forgets the scope.
close_scope(d) ==
    /\ open[d]
    /\ LET gone == IF adv[d] THEN own[d] ELSE None
       IN /\ regs' = IF adv[d] THEN regs \ {[owner |-> d, id |-> gone]} ELSE regs
          /\ seen' = [Announced(d, gone, None) EXCEPT ![d] = {}]
    /\ open' = [open EXCEPT ![d] = FALSE] /\ accept' = [accept EXCEPT ![d] = {}]
    /\ win' = [win EXCEPT ![d] = 0] /\ adv' = [adv EXCEPT ![d] = FALSE]
    /\ own' = [own EXCEPT ![d] = None] /\ browse' = [browse EXCEPT ![d] = FALSE]
    /\ early' = [early EXCEPT ![d] = {}]
    /\ UNCHANGED epoch

\* register_current, after the handle in hand (if any) was given back: the
\* network may refuse, and refuses a name another device holds.
Reads(d) == accept' = [accept EXCEPT ![d] = window_of(d, epoch)] /\ win' = [win EXCEPT ![d] = epoch]
register_current(d, gone, granted) ==
    LET id == Id(d, epoch)
        kept == IF gone = None THEN regs ELSE regs \ {[owner |-> d, id |-> gone]}
        ok == granted /\ ~Taken(d, id)
    IN /\ regs' = IF ok THEN kept \cup {[owner |-> d, id |-> id]} ELSE kept
       /\ adv' = [adv EXCEPT ![d] = ok]
       /\ own' = [own EXCEPT ![d] = IF ok THEN id ELSE None]
       /\ seen' = Announced(d, gone, IF ok THEN id ELSE None)
       /\ early' = Missed(d, IF ok THEN id ELSE None)

start_advertising(d, granted) ==
    /\ open[d] /\ ~adv[d]
    /\ Reads(d) /\ register_current(d, None, granted)
    /\ UNCHANGED <<epoch, open, browse>>

\* stop_advertising; the label stays what it was.
stop_advertising(d) ==
    /\ open[d] /\ adv[d]
    /\ regs' = regs \ {[owner |-> d, id |-> own[d]]}
    /\ adv' = [adv EXCEPT ![d] = FALSE]
    /\ seen' = Announced(d, own[d], None)
    /\ UNCHANGED <<epoch, open, accept, win, own, browse, early>>

\* A provisional handle is in place while the platform reports what is there.
browsing_meanwhile == TRUE

start_browsing(d, granted) ==
    /\ open[d] /\ ~browse[d]
    /\ Reads(d)
    /\ LET there == {r.id : r \in {x \in regs : x.owner # d}}
           acc == window_of(d, epoch)
       IN IF granted
          THEN /\ browse' = [browse EXCEPT ![d] = TRUE]
               /\ seen' = [seen EXCEPT ![d] = @ \cup UNION {found(acc, @, own[d], browsing_meanwhile, i) : i \in there}]
               /\ early' = [early EXCEPT ![d] = {i \in there : ~accepts(acc, i)}]
          ELSE UNCHANGED <<browse, seen, early>>
    /\ UNCHANGED <<epoch, open, adv, own, regs>>

stop_browsing(d) ==
    /\ open[d] /\ browse[d]
    /\ browse' = [browse EXCEPT ![d] = FALSE]
    /\ seen' = [seen EXCEPT ![d] = {}]
    /\ early' = [early EXCEPT ![d] = {}]
    /\ UNCHANGED <<epoch, open, accept, win, adv, own, regs>>

\* Mutant: the new id is registered next to the old one.
window_boundary_Both(d, granted) ==
    /\ open[d] /\ Reads(d)
    /\ IF adv[d] THEN register_current(d, None, granted)
       ELSE UNCHANGED <<adv, own, seen, regs, early>>
    /\ UNCHANGED <<epoch, open, browse>>

window_boundary(d, granted) ==
    /\ open[d] /\ Reads(d)
    /\ IF adv[d] THEN register_current(d, own[d], granted)
       ELSE UNCHANGED <<adv, own, seen, regs, early>>
    /\ UNCHANGED <<epoch, open, browse>>

\* The application's clock.
NextWindow ==
    /\ epoch < MaxEpoch
    /\ epoch' = epoch + 1
    /\ UNCHANGED <<open, accept, win, adv, own, browse, seen, regs, early>>

LanNext ==
    \/ NextWindow
    \/ \E d \in Devices : open_scope(d) \/ close_scope(d) \/ stop_advertising(d) \/ stop_browsing(d)
    \/ \E d \in Devices, granted \in BOOLEAN :
          start_advertising(d, granted) \/ start_browsing(d, granted) \/ window_boundary(d, granted)

LanSpec == LanInit /\ [][LanNext]_lanVars

------------------------------------------------------------------------------
\* The network holds one name of a device that advertises, the one its scope
\* knows it by, and none of a device that does not: across boundaries, failures
\* and closed scopes no registration is left that nobody can end.
OneNameEach ==
    \A d \in Devices : Registered(d) = IF adv[d] THEN {own[d]} ELSE {}

\* No ghosts: a peer that was reported found, and not lost, under an id the
\* window in force accepts is on the network, whatever was started, stopped and
\* rotated in which order.
NoGhosts ==
    \A d \in Devices : \A p \in seen[d] :
        browse[d] /\ accepts(accept[d], p.id) => \E r \in regs : r.id = p.id /\ r.owner # d

\* A browsing device has found every other one whose name it accepts, those
\* already there when it began included, except a name announced to it before
\* its own window knew it.
AcceptedAreFound ==
    \A d \in Devices : \A r \in regs :
        browse[d] /\ r.owner # d /\ accepts(accept[d], r.id) /\ r.id # own[d] /\ r.id \notin early[d]
            => \E p \in seen[d] : p.id = r.id

-----------------------------------------------------------------------------
(* The label a device advertises: its id in base 32. A browser decodes the  *)
(* labels it sees and compares ids, while the events of one peer are        *)
(* matched by their label; the two agree only if no id has two labels. The  *)
(* widths of a byte and of a symbol are constants, in the same relation as  *)
(* 8 and 5.                                                                 *)

CONSTANTS ByteBits, SymBits, MaxBytes

VARIABLES label,   \* the symbols read so far
          out,     \* the bytes decoded from them
          acc_bits, bits, \* what is left over of the last symbols
          state    \* "reading", "accepted", "refused"

labelVars == <<label, out, acc_bits, bits, state>>

Byte == 2^ByteBits
Symbol == 2^SymBits
NoSymbol == Symbol   \* a character outside the alphabet
MaxSymbols == (MaxBytes * ByteBits + SymBits - 1) \div SymBits

\* encode_instance_label: the id's bits in groups of SymBits, the last one
\* padded with zeros.
Bit(bytes, i) == (bytes[(i \div ByteBits) + 1] \div 2^(ByteBits - 1 - (i % ByteBits))) % 2
encode_instance_label(bytes) ==
    LET all == Len(bytes) * ByteBits
        Group(k) == LET at[j \in 0..SymBits] ==
                            IF j = 0 THEN 0
                            ELSE 2 * at[j - 1] + (LET i == k * SymBits + j - 1 IN IF i < all THEN Bit(bytes, i) ELSE 0)
                    IN at[SymBits]
    IN [k \in 1..((all + SymBits - 1) \div SymBits) |-> Group(k - 1)]

LabelInit == label = <<>> /\ out = <<>> /\ acc_bits = 0 /\ bits = 0 /\ state = "reading"

\* One turn of decode_instance_label's loop.
Read(c) ==
    /\ state = "reading" /\ Len(label) < MaxSymbols
    /\ label' = Append(label, c)
    /\ IF c = NoSymbol THEN state' = "refused" /\ UNCHANGED <<out, acc_bits, bits>>
       ELSE LET all == acc_bits * Symbol + c
                have == bits + SymBits
                whole == have >= ByteBits
                left == IF whole THEN have - ByteBits ELSE have
            IN /\ out' = IF whole THEN Append(out, (all \div 2^left) % Byte) ELSE out
               /\ bits' = left /\ acc_bits' = all % 2^left
               /\ UNCHANGED state

CleanPadding == acc_bits = 0

NoSpareSymbol == bits < SymBits

\* The end of the label.
Finish ==
    /\ state = "reading"
    /\ state' = IF label # <<>> /\ CleanPadding /\ NoSpareSymbol THEN "accepted" ELSE "refused"
    /\ UNCHANGED <<label, out, acc_bits, bits>>

LabelNext == Finish \/ \E c \in 0..NoSymbol : Read(c)

LabelSpec == LabelInit /\ [][LabelNext]_labelVars

------------------------------------------------------------------------------
\* One id, one label: a label is accepted only if it is the one the id it
\* decodes to is advertised under.  Otherwise Found and Lost of one device, or
\* the filter on our own name, would miss each other.
LabelIsCanonical == state = "accepted" => encode_instance_label(out) = label

\* What a device advertises, the others can read: a refused label is the label
\* of no id.
AdvertisedIsAccepted ==
    state = "refused" /\ label # <<>> => encode_instance_label(out) # label

-----------------------------------------------------------------------------
(* The sealed-hop relay: a frame for a peer without a direct link is        *)
(* wrapped in an envelope for a relay, which opens it, asks whether it may, *)
(* and wraps it again for its destination. A hop is an authenticated        *)
(* session: the outer sender is who it says, the inner one is only what the *)
(* envelope claims. A stray node is a member that puts other names on its   *)
(* frames.                                                                  *)

CONSTANTS Nodes,
          Stray,         \* members that misname their frames
          Forwarders,    \* nodes with forwarding set
          Admit(_, _),   \* the relays' decision on (origin, destination)
          MaxFrames      \* bound: frames written

VARIABLES via,        \* via_ of each node: the relays per peer
          trusted,    \* trusted_ of each node
          hops,       \* frames on the session of each pair, in order
          delivered,  \* what each node's callback was given: [from, writer]
          refused,    \* frames each node counted as refused
          written

sealedRelayVars == <<via, trusted, hops, delivered, refused, written>>

Pairs == Nodes \X Nodes

SealedRelayInit ==
    /\ via = [n \in Nodes |-> [p \in Nodes |-> <<>>]]
    /\ trusted = [n \in Nodes |-> {}]
    /\ hops = [p \in Pairs |-> <<>>]
    /\ delivered = [n \in Nodes |-> <<>>]
    /\ refused = [n \in Nodes |-> 0]
    /\ written = 0

\* set_relay_via: the relays of a peer are replaced; the trust in the former
\* ones stays.
set_relay_via(n, peer, relays) ==
    /\ n # peer /\ via[n][peer] # relays
    /\ via' = [via EXCEPT ![n][peer] = relays]
    /\ trusted' = [trusted EXCEPT ![n] = @ \cup Range(relays)]
    /\ UNCHANGED <<hops, delivered, refused, written>>

\* A frame carries its writer for the record; nobody reads it.
plain(n, claimed, to) == [env |-> FALSE, from |-> claimed, to |-> to, writer |-> n]
wrap(outer, inner) == [env |-> TRUE, origin |-> outer, from |-> inner.from, to |-> inner.to, writer |-> inner.writer]

send(n, to) ==
    /\ n # to /\ written < MaxFrames /\ written' = written + 1
    /\ LET frame == plain(n, n, to)
       IN IF via[n][to] = <<>>
          THEN hops' = [hops EXCEPT ![<<n, to>>] = Append(@, frame)]
          ELSE LET relay == Head(via[n][to])
               IN hops' = [hops EXCEPT ![<<n, relay>>] = Append(@, wrap(n, frame))]
    /\ UNCHANGED <<via, trusted, delivered, refused>>

\* A stray node wraps a frame in another's name and sends it over its session
\* with any node.
Misname(n, claimed, to, peer) ==
    /\ n \in Stray /\ claimed # n /\ n # peer
    /\ written < MaxFrames /\ written' = written + 1
    /\ hops' = [hops EXCEPT ![<<n, peer>>] = Append(@, wrap(n, plain(n, claimed, to)))]
    /\ UNCHANGED <<via, trusted, delivered, refused>>

\* A transit delivery is taken from a relay this node uses.
Believed(n, f) == f.from = f.origin \/ f.origin \in trusted[n]

\* The relay refuses a name that is not its session's, and asks its policy.
MayForward(n, f) == n \in Forwarders /\ f.from = f.origin /\ Admit(f.origin, f.to)

Delivery(n, f) == [from |-> f.from, writer |-> f.writer]

\* on_hop_frame.
on_hop_frame(p, n) ==
    /\ hops[<<p, n>>] # <<>>
    /\ LET f == Head(hops[<<p, n>>])
           rest == [hops EXCEPT ![<<p, n>>] = Tail(@)]
           mine == ~f.env \/ f.to = n
           taken == ~f.env \/ (IF mine THEN Believed(n, f) ELSE MayForward(n, f))
       IN /\ delivered' = IF mine /\ taken THEN [delivered EXCEPT ![n] = Append(@, Delivery(n, f))] ELSE delivered
          /\ hops' = IF ~mine /\ taken
                     THEN [rest EXCEPT ![<<n, f.to>>] = Append(@, wrap(n, f))]
                     ELSE rest
          /\ refused' = IF taken THEN refused ELSE [refused EXCEPT ![n] = @ + 1]
    /\ UNCHANGED <<via, trusted, written>>

SealedRelayNext ==
    \/ \E n, to \in Nodes : send(n, to)
    \/ \E n \in Stray, claimed, to, peer \in Nodes : Misname(n, claimed, to, peer)
    \/ \E p, n \in Nodes : on_hop_frame(p, n)
    \/ \E n \in Nodes \ Stray, peer \in Nodes, r \in Forwarders \cup {0} :
          r \notin {n, peer} /\ set_relay_via(n, peer, IF r = 0 THEN <<>> ELSE <<r>>)

SealedRelaySpec == SealedRelayInit /\ [][SealedRelayNext]_sealedRelayVars

------------------------------------------------------------------------------
\* No laundering: a frame a node is given in somebody's name was written by
\* that node, whatever the members without a relay's trust put into envelopes
\* and whichever way it came.
NobodySpeaksForOthers ==
    \A n \in Nodes : \A i \in DOMAIN delivered[n] : delivered[n][i].from = delivered[n][i].writer
=============================================================================
