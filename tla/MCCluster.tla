------------------------------ MODULE MCCluster ------------------------------
(* The layers between two nodes on small instances: the TCP transport and   *)
(* its relay fallback, the wire codec, the router; join tickets and the     *)
(* enrolment service, revocation, published verdicts, the pinned-key and    *)
(* the certificate handshake; placement and relay routes; control frames,   *)
(* local discovery and the sealed relay. The components                     *)
(* share no state: an initial state chooses the one that runs, and the      *)
(* variables v1, v2, ... are that component's.                              *)
EXTENDS Integers, Sequences, FiniteSets

\* Three versions of a record: fields are added, then one is replaced and the
\* order changes; and the values written of each.
Field(t, k) == [tag |-> t, kind |-> k, sub |-> <<>>]
Inner == [tag |-> 4, kind |-> "object", sub |-> <<Field(1, "uint"), Field(2, "string")>>]
SchemaVersions == << <<Field(1, "uint"), Field(2, "string")>>,
                     <<Field(1, "uint"), Field(2, "string"), Field(3, "float"), Inner>>,
                     <<Field(1, "uint"), Field(5, "list"), Field(6, "int"), Field(3, "float"), Inner>> >>
Pair(u, s) == [t \in {1, 2} |-> IF t = 1 THEN u ELSE s]
Numbers == {0, 3, 4, 17}
Texts == {<<>>, <<7>>, <<0, 5, 1, 2, 3>>}
Written == <<{Pair(u, s) : u \in Numbers, s \in Texts},
             {[t \in 1..4 |-> CASE t = 1 -> u [] t = 2 -> s [] t = 3 -> 19 [] OTHER -> Pair(x, y)] :
                 u \in Numbers, s \in Texts, x \in {0, 16}, y \in Texts},
             {[t \in {1, 3, 4, 5, 6} |-> CASE t = 1 -> u [] t = 5 -> s [] t = 6 -> i [] t = 3 -> 40 [] OTHER -> Pair(2, <<4>>)] :
                 u \in Numbers, s \in {<<>>, <<0, 4>>, <<17>>}, i \in {-3, 0, 2}}>>
Upcasts(v, r) == IF v = 1 THEN [t \in 1..4 |-> IF t <= 2 THEN r[t] ELSE IF t = 3 THEN 0 ELSE Pair(0, <<>>)]
                 ELSE [t \in {1, 3, 4, 5, 6} |-> IF t = 5 THEN r[2] ELSE IF t = 6 THEN 0 ELSE r[t]]

\* Control messages of both versions and of a later one, with blobs on both
\* sides of the limits.
Update(n, s) == [node |-> n, status |-> s]
Capability(n, b) == [node |-> n, blob |-> b]
ControlMessages ==
    [kind : {1}, from : {2}, seq : {5}, updates : {<<>>, <<Update(1, 2), Update(9, 0)>>}, revocations : {<<>>, <<7>>},
     capabilities : {<<>>, <<Capability(1, <<1, 0>>)>>, <<Capability(1, <<>>), Capability(2, <<2>>)>>},
     pressure : {<<3>>}, congestion : {0, 6}, ver : {1, 2, 3},
     signed : {<<>>, <<<<1>>, <<>>, <<0, 2>>, <<1, 1, 1>>>>, <<<<3>>, <<2>>, <<1>>>>}]
\* Device 2 keeps its id for two windows.
RotatingId(d, e) == IF d = 2 /\ e = 2 THEN <<2, 1>> ELSE <<d, e>>
Admitted(origin, dest) == dest # 4

\* Node 1 speaks for one user, node 2 for another and never for nobody.
Binding(n, who) == IF n = 1 THEN "one" ELSE IF who = "anonymous" THEN "refused" ELSE "two"
\* A revocation of one key under the old root and renewed under the new one, of
\* another for good, and one whose signature does not verify.
SignedRecords == {[fp |-> 1, root |-> 1, exp |-> 1, good |-> TRUE], [fp |-> 1, root |-> 2, exp |-> 2, good |-> TRUE],
                  [fp |-> 2, root |-> 2, exp |-> 0, good |-> TRUE], [fp |-> 2, root |-> 1, exp |-> 2, good |-> FALSE]}

VARIABLE exercised  \* the component this behaviour runs
VARIABLES v1, v2, v3, v4, v5, v6, v7, v8, v9, v10  \* the variables of that component

Idle == 0  \* a variable the component has no use for

TcpTransport == INSTANCE TcpTransport WITH
    MaxSocks <- 2, FrameKinds <- <<"data", "data">>, MaxEvents <- 3, MaxFds <- 7,
    EarlyProbe <- FALSE, KeepsRoute <- FALSE, node <- v1, socks <- v2, got <- v3, budget <- v4,
    conn <- v1, routed <- v2, alarms <- v3, probes <- v4, cutover <- v5, fds <- v6,
    used <- v7

Wire == INSTANCE Wire WITH
    Radix <- 4, MaxGroups <- 4, Bound <- 64, Schemas <- SchemaVersions,
    Values <- Written, Current <- 3, Upcast <- Upcasts, U16 <- 2, U64 <- 2,
    Messages <- ControlMessages, OwnVersion <- 1, MaxCapabilityBytes <- 2,
    MaxSigned <- 2, MaxBlob <- 2, rec <- v1, buf <- v2, step <- v3, msg <- v1,
    wire <- v2, whole <- v3, got <- v4

Router == INSTANCE Router WITH
    Nodes <- {1, 2}, Actors <- {1}, Versions <- {1, 2}, Abi <- <<1, 2>>,
    Home <- [x \in {1} \X {1, 2} |-> <<2, 1>>], Callers <- {"anonymous", "root"},
    Bind <- Binding, Rights <- {"anonymous", "one", "two"}, MaxMsgs <- 2,
    ver <- v1, view <- v2, secured <- v3, advert <- v4, frame <- v5, link <- v6,
    inbox <- v7, refused <- v8, sent <- v9

Enrolment == INSTANCE Enrolment WITH
    Tickets <- {1}, Reqs <- {1, 2, 3}, Srcs <- {1, 2}, Ttl <- 2, MaxAttempts <- 2,
    PerSource <- 3, SourceWindow <- 2, MaxSources <- 1, MaxPending <- 1,
    IssueTimeout <- 1, MaxTime <- 2, Conns <- {1, 2}, Ips <- {1, 2},
    MaxActive <- 2, MaxPerIp <- 1, now <- v1, tickets <- v2, given <- v3,
    sources <- v4, pending <- v5, req <- v6, replies <- v7, macs <- v8,
    issued <- v9, down <- v10, active <- v1, perIp <- v2, inbox <- v3, sess <- v4,
    posted <- v5, core <- v6, joiner <- v7, net <- v8, fate <- v9

Verdicts == INSTANCE Verdicts WITH
    Callers <- {1, 2}, Fps <- {1, 3}, ProtectedFps <- {3},
    Records <- SignedRecords, CurrentRoots <- {2}, MaxEntries <- 1, MaxSigned <- 1,
    MaxPerMerge <- 2, Burst <- 2, PerSecond <- 1, Skew <- 0, MaxTime <- 2,
    MaxVerifies <- 6, Threads <- {1, 2}, Nodes <- {1}, Listeners <- {1, 2},
    MaxGen <- 3, now <- v1, reg <- v2, call <- v3, verifies <- v4, current <- v1,
    mu <- v2, listeners <- v3, th <- v4, seen <- v5

LinkHandshakes == INSTANCE LinkHandshakes WITH
    Nodes <- {1, 2}, RoleOf <- <<"Client", "Member">>,
    Dials <- <<[from |-> 1, to |-> 2], [from |-> 1, to |-> 2]>>,
    Accepts <- [x \in {3, 4} |-> 2], Capacity <- 2, MaxSkew <- 2, MaxTime <- 1,
    MaxEdits <- 2, Handshakes <- <<[client |-> 1, server |-> 2]>>, Grace <- 2,
    MaxRoot <- 2, MaxCertTime <- 3, now <- v1, book <- v2, revoked <- v3, eng <- v4,
    wire <- v5, lastTs <- v6, latest <- v7, order <- v8, edits <- v9, trust <- v2,
    ident <- v5

Placement == INSTANCE Placement WITH
    Nodes <- {1, 2, 3}, Keys <- {1, 2}, Bins <- {2}, Able <- {1, 2},
    Liked <- {2, 3}, MaxWeight <- 1, MaxEpoch <- 2, Ids <- {1, 4, 6, 7, 3},
    IdBits <- 3, K <- 1, Src <- 1, Dst <- 7, MaxMsgs <- 3, MaxChanges <- 3,
    weight <- v1, roster <- v2, epoch <- v3, building <- v4, bins <- v5,
    path_roster <- v1, changes <- v2, pin <- v3, link <- v4, sent <- v5, got <- v6

Discovery == INSTANCE Discovery WITH
    Devices <- {1, 2}, Id <- RotatingId, MaxEpoch <- 3, ByteBits <- 3,
    SymBits <- 2, MaxBytes <- 3, Nodes <- {1, 2, 3, 4}, Stray <- {4},
    Forwarders <- {3}, Admit <- Admitted, MaxFrames <- 2, epoch <- v1, open <- v2,
    accept <- v3, win <- v4, adv <- v5, own <- v6, browse <- v7, seen <- v8,
    regs <- v9, early <- v10, label <- v1, out <- v2, acc_bits <- v3, bits <- v4,
    state <- v5, via <- v1, trusted <- v2, hops <- v3, delivered <- v4,
    refused <- v5, written <- v6

\* One component starts as it is constructed.
InitSum ==
    \/ /\ exercised = "tcp" /\ TcpTransport!Init /\ v5 = Idle /\ v6 = Idle /\
          v7 = Idle /\ v8 = Idle /\ v9 = Idle /\ v10 = Idle
    \/ /\ exercised = "relay" /\ TcpTransport!RelayInit /\ v8 = Idle /\ v9 = Idle /\
          v10 = Idle
    \/ /\ exercised = "codec" /\ Wire!WireInit /\ v4 = Idle /\ v5 = Idle /\
          v6 = Idle /\ v7 = Idle /\ v8 = Idle /\ v9 = Idle /\ v10 = Idle
    \/ /\ exercised = "route" /\ Router!RouterInit /\ v10 = Idle
    \/ /\ exercised = "enrol" /\ Enrolment!EnrolInit
    \/ /\ exercised = "svc" /\ Enrolment!SvcInit /\ v10 = Idle
    \/ /\ exercised = "rev" /\ Verdicts!RevInit /\ v5 = Idle /\ v6 = Idle /\
          v7 = Idle /\ v8 = Idle /\ v9 = Idle /\ v10 = Idle
    \/ /\ exercised = "adm" /\ Verdicts!AdmInit /\ v6 = Idle /\ v7 = Idle /\
          v8 = Idle /\ v9 = Idle /\ v10 = Idle
    \/ /\ exercised = "pin" /\ LinkHandshakes!PinInit /\ v10 = Idle
    \/ /\ exercised = "cert" /\ LinkHandshakes!CertInit /\ v6 = Idle /\ v7 = Idle /\
          v8 = Idle /\ v9 = Idle /\ v10 = Idle
    \/ /\ exercised = "place" /\ Placement!PlaceInit /\ v6 = Idle /\ v7 = Idle /\
          v8 = Idle /\ v9 = Idle /\ v10 = Idle
    \/ /\ exercised = "path" /\ Placement!RelayInit /\ v7 = Idle /\ v8 = Idle /\
          v9 = Idle /\ v10 = Idle
    \/ /\ exercised = "ctl" /\ Wire!ControlWireInit /\ v5 = Idle /\ v6 = Idle /\
          v7 = Idle /\ v8 = Idle /\ v9 = Idle /\ v10 = Idle
    \/ /\ exercised = "lan" /\ Discovery!LanInit
    \/ /\ exercised = "label" /\ Discovery!LabelInit /\ v6 = Idle /\ v7 = Idle /\
          v8 = Idle /\ v9 = Idle /\ v10 = Idle
    \/ /\ exercised = "hop" /\ Discovery!SealedRelayInit /\ v7 = Idle /\
          v8 = Idle /\ v9 = Idle /\ v10 = Idle

TcpStep == /\ exercised = "tcp" /\ TcpTransport!Next
           /\ UNCHANGED <<exercised, v5, v6, v7, v8, v9, v10>>
RelayStep == /\ exercised = "relay" /\ TcpTransport!RelayNext
             /\ UNCHANGED <<exercised, v8, v9, v10>>
CodecStep == /\ exercised = "codec" /\ Wire!WireNext
             /\ UNCHANGED <<exercised, v4, v5, v6, v7, v8, v9, v10>>
RouteStep == /\ exercised = "route" /\ Router!RouterNext
             /\ UNCHANGED <<exercised, v10>>
EnrolStep == /\ exercised = "enrol" /\ Enrolment!EnrolNext
             /\ UNCHANGED <<exercised>>
SvcStep == /\ exercised = "svc" /\ Enrolment!SvcNext
           /\ UNCHANGED <<exercised, v10>>
RevStep == /\ exercised = "rev" /\ Verdicts!RevNext
           /\ UNCHANGED <<exercised, v5, v6, v7, v8, v9, v10>>
AdmStep == /\ exercised = "adm" /\ Verdicts!AdmNext
           /\ UNCHANGED <<exercised, v6, v7, v8, v9, v10>>
PinStep == /\ exercised = "pin" /\ LinkHandshakes!PinNext
           /\ UNCHANGED <<exercised, v10>>
CertStep == /\ exercised = "cert" /\ LinkHandshakes!CertNext
            /\ UNCHANGED <<exercised, v6, v7, v8, v9, v10>>
PlaceStep == /\ exercised = "place" /\ Placement!PlaceNext
             /\ UNCHANGED <<exercised, v6, v7, v8, v9, v10>>
PathStep == /\ exercised = "path" /\ Placement!RelayNext
            /\ UNCHANGED <<exercised, v7, v8, v9, v10>>
CtlStep == /\ exercised = "ctl" /\ Wire!ControlWireNext
           /\ UNCHANGED <<exercised, v5, v6, v7, v8, v9, v10>>
LanStep == /\ exercised = "lan" /\ Discovery!LanNext
           /\ UNCHANGED <<exercised>>
LabelStep == /\ exercised = "label" /\ Discovery!LabelNext
             /\ UNCHANGED <<exercised, v6, v7, v8, v9, v10>>
HopStep == /\ exercised = "hop" /\ Discovery!SealedRelayNext
           /\ UNCHANGED <<exercised, v7, v8, v9, v10>>

NextSum == TcpStep \/ RelayStep \/ CodecStep \/ RouteStep \/
           EnrolStep \/ SvcStep \/ RevStep \/ AdmStep \/ PinStep \/ CertStep \/
           PlaceStep \/ PathStep \/ CtlStep \/ LanStep \/ LabelStep \/ HopStep

allVars == <<exercised, v1, v2, v3, v4, v5, v6, v7, v8, v9, v10>>

SpecSum == InitSum /\ [][NextSum]_allVars

\* Frames between two nodes arrive in order and once, whatever breaks, is
\* dialled twice, salvaged or cut over to a relay and back; both ends keep the
\* same connection, and a denied peer is cut (salvage_out, the settle election,
\* admission_sweep). A relayed connection is probed or going to be (KeepsRoute),
\* and one leg at least can be written.
ConnectionsKeepOrder ==
    /\ exercised = "tcp" =>
           /\ TcpTransport!DataInOrder
           /\ TcpTransport!SettledAgree
           /\ TcpTransport!DeniedIsCut
    /\ exercised = "relay" => TcpTransport!RecoveryArmed /\ TcpTransport!NeverMute

\* A record reads back as it was written, an older or newer reader finds the
\* fields both know, a torn one is refused, and a durable record is read as the
\* type and version it has (uleb, tagged_skip_value, upcasts). A control frame
\* is read as sent or refused, and no more is kept of it than the limits allow
\* (encode_control, decode_control).
CodecsAgree ==
    /\ exercised = "codec" =>
           /\ Wire!RoundTrips
           /\ Wire!EvolutionKeepsCommon
           /\ Wire!TornIsRefused
           /\ Wire!DurableIsFaithful
    /\ exercised = "ctl" =>
           /\ Wire!WholeIsReadAsSent
           /\ Wire!TornSaysLess
           /\ Wire!AcceptedIsBounded

\* No frame is decoded as another layout of its type and none carries a
\* principal its session is not bound to; nodes that learned one roster in any
\* order place an actor alike, on an eligible node; a stream keeps its order
\* while the roster moves and every greedy route arrives; and no member speaks
\* for another through a relay (send, place_hash, resolve, build, MayForward).
RoutedFaithfully ==
    /\ exercised = "route" => Router!NeverReinterpreted /\ Router!PrincipalIsBound
    /\ exercised = "place" =>
           /\ Placement!OwnerIsOrderFree
           /\ Placement!ResolvedIsEligible
           /\ Placement!PreferNeverStrands
    /\ exercised = "path" => Placement!StreamInOrder /\ Placement!RoutesArrive
    /\ exercised = "hop" => Discovery!NobodySpeaksForOthers

\* A ticket is spent once, guesses are bounded although they are verified in
\* parallel, and every request is answered once, by the issuer, the expiry or
\* the shutdown. The service's caps count exactly the sessions there are, and
\* no session sleeps over its answer (reserve, consume, claim, adopt, put).
EnrolledOnce ==
    /\ exercised = "enrol" =>
           /\ Enrolment!TicketSpentOnce
           /\ Enrolment!GuessesBounded
           /\ Enrolment!AnsweredOnce
    /\ exercised = "svc" => Enrolment!CapsAreExact /\ Enrolment!AnswerIsNoticed

\* What was pruned from the revocations stays out, what is published is held
\* and what is held within the cap, and signatures are verified within a budget
\* (apply_locked, prune). Every listener ends with the verdicts of the last
\* generation, and no publisher waits for itself (publish, notify).
VerdictsHold ==
    /\ exercised = "rev" =>
           /\ Verdicts!PrunedStaysOut
           /\ Verdicts!PublishedIsHeld
           /\ Verdicts!CapHolds
           /\ Verdicts!VerifiesBounded
    /\ exercised = "adm" => Verdicts!ListenersAgree /\
                            Verdicts!NobodyWaitsForItself

\* Two engines that finish have each other as peer and opposite keys, and a
\* first message is answered once (split, the replay record). While roots are
\* rolled out one node after the other the links between them stay possible,
\* and an old root is out after its grace period (rotate, snapshot).
HandshakesPair ==
    /\ exercised = "pin" => LinkHandshakes!SessionsPair /\
                            LinkHandshakes!RepliedOnce
    /\ exercised = "cert" =>
           /\ LinkHandshakes!RolloutKeepsLinks
           /\ LinkHandshakes!OldRootsExpire

\* A device has one name on the network while it is advertised, the
\* application's set of peers holds nobody who left and everybody who is there
\* and accepted (window_boundary, browse, the Found and Lost events). No id has
\* two labels.
DevicesAreFound ==
    /\ exercised = "lan" =>
           /\ Discovery!OneNameEach
           /\ Discovery!NoGhosts
           /\ Discovery!AcceptedAreFound
    /\ exercised = "label" => Discovery!LabelIsCanonical

\* A handshake finishes only with a peer that is admitted at that moment, and
\* one that fails after a rotation fails for its stale material; generations of
\* verdicts only grow; and a change of the roster moves only the actors of the
\* nodes that changed (read_msg2, verify_cb, publish, place_hash).
StepsKeepPromises ==
    [][/\ exercised = "pin" => LinkHandshakes!FinishesAdmitted
       /\ exercised = "cert" => LinkHandshakes!FailsOnlyStale
       /\ exercised = "adm" => Verdicts!MovesForward
       /\ exercised = "place" => Placement!MovesOnlyNeeded]_allVars

=============================================================================
