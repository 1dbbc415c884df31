------------------------------- MODULE AskReply -------------------------------
(***************************************************************************)
(* ask: the pooled reply cell (detail/reply_cell.hpp), the future that      *)
(* waits on it and the router's post (core/actor_ref.hpp).  The responder   *)
(* travels in the message and resolves the cell once, with a reply or, when *)
(* the message is dropped or reclaimed, with an error.  The asker awaits    *)
(* the cell as a coroutine, blocks on it, or drops the future.  Cells go    *)
(* back to a pool; a generation is to fence responders of earlier asks.     *)
(***************************************************************************)
EXTENDS Naturals, FiniteSets

CONSTANTS Askers,
          ReplyCells,  \* the pool; acquire() would grow it beyond
          MaxAsks,     \* bound: asks made
          Overlap      \* may a future be dropped while its responder is inside resolve()?

ASSUME AsksAssumption == MaxAsks \in Nat

VARIABLES cell,   \* cell[c]: st_, gen_, cont_ and the result in store_
          free,   \* free_
          ask,    \* ask[a]: the asker's current ask and what it does
          resp,   \* resp[n]: the responder of ask number n
          made    \* asks made so far

askVars == <<cell, free, ask, resp, made>>

None == 0

NoAsk == [pc |-> "idle", n |-> 0, cell |-> None, got |-> 0]
NoResp == [pc |-> "none", cell |-> None, gen |-> 0, cont |-> None]

AskInit == /\ cell = [c \in ReplyCells |-> [st |-> "empty", gen |-> 0, cont |-> None, value |-> 0]]
           /\ free = ReplyCells
           /\ ask = [a \in Askers |-> NoAsk]
           /\ resp = [n \in 1..MaxAsks |-> NoResp]
           /\ made = 0

-----------------------------------------------------------------------------
(* LocalRouter::ask: acquire and arm a cell, send the message.              *)

Ask(a) ==
    /\ ask[a].pc = "idle" /\ made < MaxAsks
    /\ \E c \in free :
         /\ free' = free \ {c}
         /\ cell' = [cell EXCEPT ![c].cont = None, ![c].st = "empty"]
         /\ ask' = [ask EXCEPT ![a] = [pc |-> "asked", n |-> made + 1, cell |-> c, got |-> 0]]
         /\ resp' = [resp EXCEPT ![made + 1] =
                       [pc |-> "sent", cell |-> c, gen |-> cell[c].gen, cont |-> None]]
    /\ made' = made + 1

-----------------------------------------------------------------------------
(* resolve(): the handler replies, or ~Responder fails the cell: denied,    *)
(* unresolvable, rejected by the mailbox, reclaimed unread.  Both deposit.  *)

CheckGen(n) ==
    /\ resp[n].pc = "sent"
    /\ resp' = [resp EXCEPT ![n].pc = IF cell[resp[n].cell].gen = resp[n].gen THEN "checked" ELSE "done"]
    /\ UNCHANGED <<cell, free, ask, made>>

Deposit(n) ==
    /\ resp[n].pc = "checked"
    /\ cell' = [cell EXCEPT ![resp[n].cell].value = n]
    /\ resp' = [resp EXCEPT ![n].pc = "deposited"]
    /\ UNCHANGED <<free, ask, made>>

\* The exchange: whoever finds a waiter has to resume it.
Exchange(n) ==
    /\ resp[n].pc = "deposited"
    /\ LET c == resp[n].cell IN
       /\ cell' = [cell EXCEPT ![c].st = "resolved"]
       /\ resp' = [resp EXCEPT ![n].pc = IF cell[c].st = "waiter" THEN "won" ELSE "done",
                               ![n].cont = IF cell[c].st = "waiter" THEN cell[c].cont ELSE None]
    /\ UNCHANGED <<free, ask, made>>

Resume(n) ==
    /\ resp[n].pc = "won"
    /\ resp' = [resp EXCEPT ![n].pc = "done"]
    /\ ask' = [a \in Askers |-> IF a = resp[n].cont THEN [ask[a] EXCEPT !.pc = "finish"] ELSE ask[a]]
    /\ UNCHANGED <<cell, free, made>>

-----------------------------------------------------------------------------
(* AskFuture.                                                               *)

\* co_await: await_ready first, then the handle, then the arbitration.
AwaitReady(a) ==
    /\ ask[a].pc = "asked"
    /\ IF cell[ask[a].cell].st = "resolved"
       THEN ask' = [ask EXCEPT ![a].pc = "finish"] /\ UNCHANGED cell
       ELSE /\ ask' = [ask EXCEPT ![a].pc = "suspending"]
            /\ cell' = [cell EXCEPT ![ask[a].cell].cont = a]
    /\ UNCHANGED <<free, resp, made>>

suspend_Store(a) ==
    /\ ask[a].pc = "suspending"
    /\ cell' = [cell EXCEPT ![ask[a].cell].st = "waiter"]
    /\ ask' = [ask EXCEPT ![a].pc = "suspended"]
    /\ UNCHANGED <<free, resp, made>>

suspend(a) ==
    /\ ask[a].pc = "suspending"
    /\ IF cell[ask[a].cell].st = "empty"
       THEN /\ cell' = [cell EXCEPT ![ask[a].cell].st = "waiter"]
            /\ ask' = [ask EXCEPT ![a].pc = "suspended"]
       ELSE ask' = [ask EXCEPT ![a].pc = "finish"] /\ UNCHANGED cell
    /\ UNCHANGED <<free, resp, made>>

\* wait(), off the workers.
block_wait(a) ==
    /\ ask[a].pc = "asked" /\ cell[ask[a].cell].st = "resolved"
    /\ ask' = [ask EXCEPT ![a].pc = "finish"]
    /\ UNCHANGED <<cell, free, resp, made>>

take(a) ==
    /\ ask[a].pc = "finish"
    /\ ask' = [ask EXCEPT ![a].pc = "release", ![a].got = cell[ask[a].cell].value]
    /\ cell' = [cell EXCEPT ![ask[a].cell].value = 0]
    /\ UNCHANGED <<free, resp, made>>

\* ~AskFuture on a future nobody awaited, or block_on on a worker.
Drop(a) ==
    /\ ask[a].pc = "asked"
    /\ Overlap \/ resp[ask[a].n].pc \notin {"checked", "deposited"}
    /\ ask' = [ask EXCEPT ![a].pc = "release", ![a].got = ask[a].n]
    /\ UNCHANGED <<cell, free, resp, made>>

\* release: disarm() ends the generation; then the cell is anyone's.
release(a) ==
    /\ ask[a].pc = "release"
    /\ Overlap \/ resp[ask[a].n].pc \notin {"checked", "deposited"}
    /\ cell' = [cell EXCEPT ![ask[a].cell] = [st |-> "empty", gen |-> @.gen + 1, cont |-> None, value |-> 0]]
    /\ free' = free \cup {ask[a].cell}
    /\ ask' = [ask EXCEPT ![a] = NoAsk]
    /\ UNCHANGED <<resp, made>>

AskNext ==
    \/ \E a \in Askers : Ask(a) \/ AwaitReady(a) \/ suspend(a) \/ block_wait(a)
                         \/ take(a) \/ Drop(a) \/ release(a)
    \/ \E n \in 1..MaxAsks : CheckGen(n) \/ Deposit(n) \/ Exchange(n) \/ Resume(n)

AskSpec == AskInit /\ [][AskNext]_askVars

-----------------------------------------------------------------------------

\* An ask takes the reply to its own question, never one that was meant for an
\* earlier ask of the same cell (the generation of resolve and disarm).
ReplyIsMine == \A a \in Askers : ask[a].pc = "release" => ask[a].got = ask[a].n

\* A suspended asker has a responder that will still come and find it, and the
\* responder that won resumes exactly the coroutine that waits: no lost wakeup,
\* no second resume (the exchange and the compare-exchange on st_).
WaiterIsServed ==
    /\ \A a \in Askers : ask[a].pc = "suspended" =>
           resp[ask[a].n].pc \in {"sent", "checked", "deposited"} \/ resp[ask[a].n].cont = a
    /\ \A n \in 1..MaxAsks : resp[n].pc = "won" =>
           \E a \in Askers : resp[n].cont = a /\ ask[a].pc = "suspended" /\ ask[a].n = n

\* Both, for every asker (reply_cell: resolve, suspend, wait).
AskersServed == ReplyIsMine /\ WaiterIsServed
=============================================================================
