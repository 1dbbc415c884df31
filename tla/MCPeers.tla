------------------------------- MODULE MCPeers -------------------------------
(* Three nodes that watch each other, and the secure sessions of two.  The  *)
(* two share no state; an initial state chooses the one that runs.  In      *)
(* Detect two of the three nodes watch each other and the third, until one  *)
(* can be declared dead; in Patient one watches for longer, until it reaps  *)
(* the tombstone.  In the other setups the host of another node acts.       *)
EXTENDS Swim, SecureTransport

CONSTANTS a, b, c

Quiet == [ticks |-> {a}, mobile |-> {}, leavers |-> {}, restarts |-> {},
          deniable |-> {}, ops |-> 0, lapses |-> 0]
Detect == [Quiet EXCEPT !.ticks = {a, c}, !.lapses = 3]
Patient == [Quiet EXCEPT !.lapses = 4]
Phone == [Quiet EXCEPT !.mobile = {b}, !.ops = 2, !.lapses = 2]
Host == [Quiet EXCEPT !.mobile = {a}, !.leavers = {b}, !.restarts = {b}, !.deniable = {b}]
TwoCalls == [Host EXCEPT !.mobile = {a, b}, !.ops = 2, !.lapses = 1]
OneCall == [Host EXCEPT !.ops = 1, !.lapses = 2]
AllSetups == {Detect, Patient, Phone, TwoCalls, OneCall}

VARIABLE exercised  \* the part whose steps this behaviour takes

allVars == <<exercised, vars, secureVars>>

InitPeers == /\ exercised \in {"members", "sessions"} /\ Init /\ SecureInit
             /\ exercised = "sessions" => setup = Detect

MembersStep == exercised = "members" /\ Next /\ UNCHANGED <<exercised, secureVars>>
SessionsStep == exercised = "sessions" /\ SecureNext /\ UNCHANGED <<exercised, vars>>
\* Two nodes whose records, cuts and snapshots are used up come to rest.
SessionsRest == exercised = "sessions" /\ UNCHANGED allVars

NextPeers == MembersStep \/ SessionsStep \/ SessionsRest

SpecPeers == InitPeers /\ [][NextPeers]_allVars
=============================================================================
