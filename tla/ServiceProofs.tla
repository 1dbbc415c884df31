---------------------------- MODULE ServiceProofs -----------------------------
(* What the reply cells of core/ask.hpp, the go-back-N window of            *)
(* core/delivery.hpp and the leader lease of core/lease.hpp promise, for    *)
(* every value of the constants.                                            *)
EXTENDS AskReply, Delivery, Lease, SequenceTheorems, TLAPS

(***************************************************************************)
(* Ask: the reply an asker takes answers its own question, and an asker    *)
(* that sleeps on its cell is woken, for any number of askers, pooled      *)
(* cells and asks.  The invariant follows the protocol: an ask that is     *)
(* under way has its cell to itself (Owns, Apart), responders of earlier   *)
(* asks of that cell are stopped by the generation (Fenced), and where the *)
(* asker and its responder stand fits what the cell shows (Stages).  The   *)
(* proof is for code that does not drop a future while its responder is    *)
(* inside resolve() (~Overlap): the generation is looked at once, before   *)
(* the deposit, and does not protect the rest.                             *)
(***************************************************************************)

\* The types of the cells, the askers and the responders.
Results == 0..MaxAsks
CellState == [st : {"empty", "waiter", "resolved"}, gen : Nat, cont : Askers \cup {None}, value : Results]
AskState == [pc : {"idle", "asked", "suspending", "suspended", "finish", "release"}, n : Results,
             cell : ReplyCells \cup {None}, got : Results]
RespState == [pc : {"none", "sent", "checked", "deposited", "won", "done"}, cell : ReplyCells \cup {None},
              gen : Nat, cont : Askers \cup {None}]

Types == /\ cell \in [ReplyCells -> CellState] /\ free \subseteq ReplyCells /\ ask \in [Askers -> AskState]
         /\ resp \in [1..MaxAsks -> RespState] /\ made \in 0..MaxAsks

-----------------------------------------------------------------------------
\* An ask under way holds its cell, in the generation its responder carries.
Active(a) == ask[a].pc # "idle"
Owns == \A a \in Askers : Active(a) =>
    /\ ask[a].n \in 1..made /\ ask[a].cell \in ReplyCells \ free
    /\ resp[ask[a].n].cell = ask[a].cell /\ resp[ask[a].n].gen = cell[ask[a].cell].gen

\* No cell has two askers.
Apart == \A a, b \in Askers : Active(a) /\ Active(b) /\ ask[a].cell = ask[b].cell => a = b

\* A responder of the cell's generation is that of the ask that holds it; any
\* other one is stopped by its look at the generation.
Fenced == \A n \in 1..made :
    /\ resp[n].pc # "none" /\ resp[n].cell \in ReplyCells /\ resp[n].gen <= cell[resp[n].cell].gen
    /\ IF resp[n].gen = cell[resp[n].cell].gen THEN \E a \in Askers : Active(a) /\ ask[a].n = n
       ELSE resp[n].pc \in {"sent", "done"}

\* How far the two sides of an ask are, and what the cell shows.
Underway(n) == resp[n].pc \in {"sent", "checked", "deposited"}
Answered(n, c) == resp[n].pc \in {"deposited", "won", "done"} => c.value = n
Stage(k, n, c, a) ==
    \/ /\ k.pc = "asked" /\ Answered(n, c)
       /\ (c.st = "empty" /\ Underway(n)) \/ (c.st = "resolved" /\ resp[n].pc = "done")
    \/ /\ k.pc = "suspending" /\ c.cont = a /\ Answered(n, c)
       /\ (c.st = "empty" /\ Underway(n)) \/ (c.st = "resolved" /\ resp[n].pc = "done")
    \/ /\ k.pc = "suspended" /\ Answered(n, c)
       /\ \/ c.st = "waiter" /\ c.cont = a /\ Underway(n)
          \/ c.st = "resolved" /\ resp[n].pc = "won" /\ resp[n].cont = a
    \/ k.pc = "finish" /\ resp[n].pc = "done" /\ c.value = n /\ c.st # "waiter"
    \/ k.pc = "release" /\ k.got = n /\ c.st # "waiter" /\ resp[n].pc # "won"
Stages == \A a \in Askers : Active(a) => Stage(ask[a], ask[a].n, cell[ask[a].cell], a)

\* Asks that are not made yet have no responder.
Unasked == \A n \in 1..MaxAsks : n > made => resp[n].pc = "none"

AskInv == Types /\ Owns /\ Apart /\ Fenced /\ Unasked /\ Stages

-----------------------------------------------------------------------------
\* What one asker or its responder does stays inside that ask: a step that
\* touches only the ask of a, its cell and its responder, and leaves a at a
\* proper stage, keeps the invariant (reply_cell: resolve, suspend, wait).
LEMMA OneAsk ==
  ASSUME AskInv, Types', NEW a \in Askers, Active(a), UNCHANGED <<free, made>>,
         \A x \in Askers \ {a} : ask'[x] = ask[x],
         Active(a)', ask'[a].n = ask[a].n, ask'[a].cell = ask[a].cell,
         \A d \in ReplyCells \ {ask[a].cell} : cell'[d] = cell[d],
         cell'[ask[a].cell].gen = cell[ask[a].cell].gen,
         \A m \in (1..MaxAsks) \ {ask[a].n} : resp'[m] = resp[m],
         resp'[ask[a].n].cell = resp[ask[a].n].cell, resp'[ask[a].n].gen = resp[ask[a].n].gen,
         resp'[ask[a].n].pc # "none",
         Stage(ask[a], ask[a].n, cell[ask[a].cell], a)'
  PROVE  AskInv'
  <1>. DEFINE n == ask[a].n  c == ask[a].cell
  <1>0. Types /\ Owns /\ Apart /\ Fenced /\ Unasked /\ Stages
    BY DEF AskInv
  <1>1. /\ n \in 1..made /\ n \in 1..MaxAsks /\ c \in ReplyCells /\ c \notin free
        /\ resp[n].cell = c /\ resp[n].gen = cell[c].gen
    BY <1>0, AsksAssumption DEF Owns, Types
  <1>2. \A x \in Askers : Active(x) /\ x # a =>
           /\ ask[x].n \in 1..made /\ ask[x].cell \in ReplyCells \ free /\ ask[x].cell # c /\ ask[x].n # n
           /\ resp[ask[x].n].cell = ask[x].cell /\ resp[ask[x].n].gen = cell[ask[x].cell].gen
    BY <1>0, <1>1 DEF Owns, Apart
  <1>3. 1..made \subseteq 1..MaxAsks /\ made' = made /\ free' = free
    BY <1>0, AsksAssumption DEF Types
  <1>4. \A x \in Askers : Active(x)' <=> Active(x)
    BY DEF Active
  <1>5. \A x \in Askers : ask'[x].n = ask[x].n /\ ask'[x].cell = ask[x].cell
    OBVIOUS
  <1>6. \A m \in 1..MaxAsks : resp'[m].cell = resp[m].cell /\ resp'[m].gen = resp[m].gen
    OBVIOUS
  <1>7. \A d \in ReplyCells : cell'[d].gen = cell[d].gen
    OBVIOUS
  <1>8. Owns'
    BY <1>0, <1>1, <1>2, <1>3, <1>4, <1>5, <1>6, <1>7 DEF Owns
  <1>9. Apart'
    BY <1>0, <1>4, <1>5 DEF Apart
  <1>10. Fenced'
    <2>. SUFFICES ASSUME NEW m \in 1..made
                 PROVE  /\ resp'[m].pc # "none" /\ resp'[m].cell \in ReplyCells
                        /\ resp'[m].gen <= cell'[resp'[m].cell].gen
                        /\ IF resp'[m].gen = cell'[resp'[m].cell].gen
                           THEN \E x \in Askers : Active(x)' /\ ask'[x].n = m
                           ELSE resp'[m].pc \in {"sent", "done"}
      BY <1>3 DEF Fenced
    <2>1. /\ resp[m].pc # "none" /\ resp[m].cell \in ReplyCells /\ resp[m].gen <= cell[resp[m].cell].gen
          /\ IF resp[m].gen = cell[resp[m].cell].gen THEN \E x \in Askers : Active(x) /\ ask[x].n = m
             ELSE resp[m].pc \in {"sent", "done"}
      BY <1>0 DEF Fenced
    <2>2. resp'[m].cell = resp[m].cell /\ resp'[m].gen = resp[m].gen
      BY <1>3, <1>6
    <2>3. cell'[resp'[m].cell].gen = cell[resp[m].cell].gen
      BY <2>1, <2>2, <1>7
    <2>4. CASE m = n
      BY <2>1, <2>2, <2>3, <2>4, <1>1, <1>4, <1>5
    <2>5. CASE m # n
      <3>1. resp'[m] = resp[m]
        BY <2>5, <1>3
      <3>. QED
        BY <2>1, <2>2, <2>3, <3>1, <1>4, <1>5
    <2>. QED
      BY <2>4, <2>5
  <1>11. Stages'
    <2>. SUFFICES ASSUME NEW x \in Askers, Active(x)'
                 PROVE  Stage(ask[x], ask[x].n, cell[ask[x].cell], x)'
      BY DEF Stages
    <2>1. CASE x # a
      <3>1. Stage(ask[x], ask[x].n, cell[ask[x].cell], x)
        BY <1>0, <1>4 DEF Stages
      <3>2. ask'[x] = ask[x] /\ resp'[ask[x].n] = resp[ask[x].n] /\ cell'[ask[x].cell] = cell[ask[x].cell]
        BY <2>1, <1>2, <1>3, <1>4
      <3>. QED
        BY <3>1, <3>2 DEF Stage, Answered, Underway
    <2>. QED
      BY <2>1
  <1>12. Unasked'
    BY <1>0, <1>1, <1>3 DEF Unasked, Types
  <1>. QED
    BY <1>8, <1>9, <1>10, <1>11, <1>12 DEF AskInv

\* Every step of an asker or a responder keeps the invariant; Ask takes a free
\* cell, release gives it back in a new generation, all others stay inside one ask.
LEMMA AskStep == ASSUME ~Overlap, AskInv, [AskNext]_askVars PROVE AskInv'
  <1>0. /\ Types /\ Owns /\ Apart /\ Fenced /\ Unasked /\ Stages /\ AskInv /\ ~Overlap
    BY DEF AskInv
  <1>1. ASSUME NEW a \in Askers, Ask(a) PROVE AskInv'
    <2>1. PICK c \in free :
             /\ free' = free \ {c}
             /\ cell' = [cell EXCEPT ![c] = [cell[c] EXCEPT !.cont = None, !.st = "empty"]]
             /\ ask' = [ask EXCEPT ![a] = [pc |-> "asked", n |-> made + 1, cell |-> c, got |-> 0]]
             /\ resp' = [resp EXCEPT ![made + 1] =
                           [pc |-> "sent", cell |-> c, gen |-> cell[c].gen, cont |-> None]]
      <3>1. PICK c \in free :
               /\ free' = free \ {c} /\ cell' = [cell EXCEPT ![c].cont = None, ![c].st = "empty"]
               /\ ask' = [ask EXCEPT ![a] = [pc |-> "asked", n |-> made + 1, cell |-> c, got |-> 0]]
               /\ resp' = [resp EXCEPT ![made + 1] =
                             [pc |-> "sent", cell |-> c, gen |-> cell[c].gen, cont |-> None]]
        BY <1>1 DEF Ask
      <3>2. cell' = [cell EXCEPT ![c] = [cell[c] EXCEPT !.cont = None, !.st = "empty"]]
        BY <1>0, <3>1 DEF Types, CellState
      <3>. QED
        BY <3>1, <3>2
    <2>. DEFINE n == made + 1
           d == [cell[c] EXCEPT !.cont = None, !.st = "empty"]
           k == [pc |-> "asked", n |-> n, cell |-> c, got |-> 0]
           r == [pc |-> "sent", cell |-> c, gen |-> cell[c].gen, cont |-> None]
    <2>2. /\ n \in 1..MaxAsks /\ n \in 0..MaxAsks /\ made \in Nat /\ made' = n
          /\ c \in ReplyCells /\ cell[c] \in CellState /\ ~Active(a)
          /\ n \notin 1..made /\ 1..made' = (1..made) \cup {n} /\ 1..made \subseteq 1..MaxAsks
      BY <1>0, <1>1, <2>1, AsksAssumption DEF Ask, Types, Active
    <2>3. /\ d \in CellState /\ d.gen = cell[c].gen /\ d.st = "empty" /\ d.cont = None
          /\ 0 \in Results /\ cell[c].gen \in Nat
      <3>1. 0 \in Results
        BY AsksAssumption DEF Results
      <3>. QED
        BY <2>2, <3>1 DEF CellState
    <2>4. k \in AskState /\ r \in RespState
      BY <2>2, <2>3 DEF AskState, RespState, Results
    <2>5. k.pc = "asked" /\ k.n = n /\ k.cell = c /\ r.pc = "sent" /\ r.cell = c /\ r.gen = cell[c].gen
      OBVIOUS
    <2>. HIDE DEF d, k, r
    <2>6. /\ ask'[a] = k /\ \A x \in Askers \ {a} : ask'[x] = ask[x]
          /\ cell'[c] = d /\ \A x \in ReplyCells \ {c} : cell'[x] = cell[x]
          /\ resp'[n] = r /\ \A x \in (1..MaxAsks) \ {n} : resp'[x] = resp[x]
          /\ free' = free \ {c}
      BY <1>0, <2>1, <2>2 DEF Types, d, k, r
    <2>7. Types'
      BY <1>0, <2>1, <2>2, <2>3, <2>4 DEF Types, d, k, r
    <2>8. \A x \in Askers : Active(x)' <=> x = a \/ Active(x)
      BY <2>5, <2>6 DEF Active
    <2>9. \A x \in Askers : Active(x) =>
             /\ x # a /\ ask[x].n \in 1..made /\ ask[x].n # n
             /\ ask[x].cell \in ReplyCells \ free /\ ask[x].cell # c
             /\ resp[ask[x].n].cell = ask[x].cell /\ resp[ask[x].n].gen = cell[ask[x].cell].gen
             /\ ask'[x] = ask[x] /\ resp'[ask[x].n] = resp[ask[x].n]
             /\ cell'[ask[x].cell] = cell[ask[x].cell]
      <3>. SUFFICES ASSUME NEW x \in Askers, Active(x)
                   PROVE /\ x # a /\ ask[x].n \in 1..made /\ ask[x].n # n
                         /\ ask[x].cell \in ReplyCells \ free /\ ask[x].cell # c
                         /\ resp[ask[x].n].cell = ask[x].cell /\ resp[ask[x].n].gen = cell[ask[x].cell].gen
                         /\ ask'[x] = ask[x] /\ resp'[ask[x].n] = resp[ask[x].n]
                         /\ cell'[ask[x].cell] = cell[ask[x].cell]
        OBVIOUS
      <3>1. /\ x # a /\ ask[x].n \in 1..made /\ ask[x].cell \in ReplyCells \ free
            /\ resp[ask[x].n].cell = ask[x].cell /\ resp[ask[x].n].gen = cell[ask[x].cell].gen
        BY <1>0, <2>2 DEF Owns
      <3>2. ask[x].n # n /\ ask[x].n \in 1..MaxAsks /\ ask[x].cell # c
        BY <2>1, <2>2, <3>1
      <3>. QED
        BY <2>6, <3>1, <3>2
    <2>10. Owns'
      BY <2>2, <2>3, <2>5, <2>6, <2>8, <2>9 DEF Owns
    <2>11. Apart'
      BY <1>0, <2>5, <2>6, <2>8, <2>9 DEF Apart
    <2>12. Fenced'
      <3>. SUFFICES ASSUME NEW m \in 1..made'
                   PROVE  /\ resp'[m].pc # "none" /\ resp'[m].cell \in ReplyCells
                          /\ resp'[m].gen <= cell'[resp'[m].cell].gen
                          /\ IF resp'[m].gen = cell'[resp'[m].cell].gen
                             THEN \E x \in Askers : Active(x)' /\ ask'[x].n = m
                             ELSE resp'[m].pc \in {"sent", "done"}
        BY DEF Fenced
      <3>1. CASE m = n
        BY <2>2, <2>3, <2>5, <2>6, <2>8, <3>1
      <3>2. CASE m # n
        <4>1. m \in 1..made /\ resp'[m] = resp[m]
          BY <2>2, <2>6, <3>2
        <4>2. /\ resp[m].pc # "none" /\ resp[m].cell \in ReplyCells /\ resp[m].gen <= cell[resp[m].cell].gen
              /\ IF resp[m].gen = cell[resp[m].cell].gen THEN \E x \in Askers : Active(x) /\ ask[x].n = m
                 ELSE resp[m].pc \in {"sent", "done"}
          BY <1>0, <4>1 DEF Fenced
        <4>3. cell'[resp[m].cell].gen = cell[resp[m].cell].gen
          BY <2>3, <2>6, <4>2
        <4>. QED
          BY <2>8, <2>9, <4>1, <4>2, <4>3
      <3>. QED
        BY <3>1, <3>2
    <2>13. Unasked'
      BY <1>0, <2>2, <2>6 DEF Unasked
    <2>14. Stages'
      <3>. SUFFICES ASSUME NEW x \in Askers, Active(x)'
                   PROVE  Stage(ask[x], ask[x].n, cell[ask[x].cell], x)'
        BY DEF Stages
      <3>1. CASE x = a
        BY <2>3, <2>5, <2>6, <3>1 DEF Stage, Answered, Underway
      <3>2. CASE x # a
        <4>1. Active(x) /\ Stage(ask[x], ask[x].n, cell[ask[x].cell], x)
          BY <1>0, <2>8, <3>2 DEF Stages
        <4>. QED
          BY <2>9, <4>1 DEF Stage, Answered, Underway
      <3>. QED
        BY <3>1, <3>2
    <2>. QED
      BY <2>7, <2>10, <2>11, <2>12, <2>13, <2>14 DEF AskInv
  <1>2. ASSUME NEW a \in Askers, AwaitReady(a) PROVE AskInv'
    <2>. DEFINE n == ask[a].n  c == ask[a].cell
    <2>1. /\ n \in 1..made /\ n \in 1..MaxAsks /\ c \in ReplyCells
          /\ ask[a] \in AskState /\ cell[c] \in CellState
          /\ resp[n] \in RespState /\ Active(a) /\ Stage(ask[a], n, cell[c], a) /\ resp[n].pc # "none"
      BY <1>0, <1>2, AsksAssumption DEF AwaitReady, Owns, Stages, Fenced, Active, Types
    <2>2. UNCHANGED <<free, made, resp>>
      BY <1>2 DEF AwaitReady
    <2>. DEFINE k == [ask[a] EXCEPT !.pc = IF cell[c].st = "resolved" THEN "finish" ELSE "suspending"]
           d == [cell[c] EXCEPT !.cont = IF cell[c].st = "resolved" THEN @ ELSE a]
    <2>3. ask' = [ask EXCEPT ![a] = k] /\ cell' = [cell EXCEPT ![c] = d]
      BY <1>0, <1>2, <2>1 DEF AwaitReady, Types, AskState, CellState
    <2>4. k \in AskState /\ d \in CellState
      BY <1>0, <1>2, <2>1, AsksAssumption DEF AwaitReady, AskState, CellState, Results
    <2>5. k.pc # "idle" /\ k.n = n /\ k.cell = c /\ d.gen = cell[c].gen
      BY <2>1 DEF AskState, CellState
    <2>6. Stage(k, n, d, a)
      BY <1>0, <1>2, <2>1 DEF AwaitReady, Stage, Answered, Underway, AskState, CellState
    <2>. HIDE DEF k, d
    <2>7. /\ ask'[a] = k /\ \A x \in Askers \ {a} : ask'[x] = ask[x]
          /\ cell'[c] = d /\ \A x \in ReplyCells \ {c} : cell'[x] = cell[x]
      BY <1>0, <2>1, <2>3 DEF Types
    <2>8. Types'
      BY <1>0, <2>1, <2>2, <2>3, <2>4 DEF Types
    <2>9. Stage(ask[a], ask[a].n, cell[ask[a].cell], a)'
      BY <2>2, <2>5, <2>6, <2>7 DEF Stage, Answered, Underway
    <2>. QED
      BY <2>1, <2>2, <2>5, <2>7, <2>8, <2>9, OneAsk DEF Active
  <1>3. ASSUME NEW a \in Askers, suspend(a) PROVE AskInv'
    <2>. DEFINE n == ask[a].n  c == ask[a].cell
    <2>1. /\ n \in 1..made /\ n \in 1..MaxAsks /\ c \in ReplyCells
          /\ ask[a] \in AskState /\ cell[c] \in CellState
          /\ resp[n] \in RespState /\ Active(a) /\ Stage(ask[a], n, cell[c], a) /\ resp[n].pc # "none"
      BY <1>0, <1>3, AsksAssumption DEF suspend, Owns, Stages, Fenced, Active, Types
    <2>2. UNCHANGED <<free, made, resp>>
      BY <1>3 DEF suspend
    <2>. DEFINE k == [ask[a] EXCEPT !.pc = IF cell[c].st = "empty" THEN "suspended" ELSE "finish"]
           d == [cell[c] EXCEPT !.st = IF @ = "empty" THEN "waiter" ELSE @]
    <2>3. ask' = [ask EXCEPT ![a] = k] /\ cell' = [cell EXCEPT ![c] = d]
      BY <1>0, <1>3, <2>1 DEF suspend, Types, AskState, CellState
    <2>4. k \in AskState /\ d \in CellState
      BY <1>0, <1>3, <2>1, AsksAssumption DEF suspend, AskState, CellState, Results
    <2>5. k.pc # "idle" /\ k.n = n /\ k.cell = c /\ d.gen = cell[c].gen
      BY <2>1 DEF AskState, CellState
    <2>6. Stage(k, n, d, a)
      BY <1>0, <1>3, <2>1 DEF suspend, Stage, Answered, Underway, AskState, CellState
    <2>. HIDE DEF k, d
    <2>7. /\ ask'[a] = k /\ \A x \in Askers \ {a} : ask'[x] = ask[x]
          /\ cell'[c] = d /\ \A x \in ReplyCells \ {c} : cell'[x] = cell[x]
      BY <1>0, <2>1, <2>3 DEF Types
    <2>8. Types'
      BY <1>0, <2>1, <2>2, <2>3, <2>4 DEF Types
    <2>9. Stage(ask[a], ask[a].n, cell[ask[a].cell], a)'
      BY <2>2, <2>5, <2>6, <2>7 DEF Stage, Answered, Underway
    <2>. QED
      BY <2>1, <2>2, <2>5, <2>7, <2>8, <2>9, OneAsk DEF Active
  <1>4. ASSUME NEW a \in Askers, block_wait(a) PROVE AskInv'
    <2>. DEFINE n == ask[a].n  c == ask[a].cell
    <2>1. /\ n \in 1..made /\ n \in 1..MaxAsks /\ c \in ReplyCells
          /\ ask[a] \in AskState /\ cell[c] \in CellState
          /\ resp[n] \in RespState /\ Active(a) /\ Stage(ask[a], n, cell[c], a) /\ resp[n].pc # "none"
      BY <1>0, <1>4, AsksAssumption DEF block_wait, Owns, Stages, Fenced, Active, Types
    <2>2. UNCHANGED <<free, made, resp>>
      BY <1>4 DEF block_wait
    <2>. DEFINE k == [ask[a] EXCEPT !.pc = "finish"]
           d == cell[c]
    <2>3. ask' = [ask EXCEPT ![a] = k] /\ cell' = [cell EXCEPT ![c] = d]
      BY <1>0, <1>4, <2>1 DEF block_wait, Types, AskState, CellState
    <2>4. k \in AskState /\ d \in CellState
      BY <1>0, <1>4, <2>1, AsksAssumption DEF block_wait, AskState, CellState, Results
    <2>5. k.pc # "idle" /\ k.n = n /\ k.cell = c /\ d.gen = cell[c].gen
      BY <2>1 DEF AskState, CellState
    <2>6. Stage(k, n, d, a)
      BY <1>0, <1>4, <2>1 DEF block_wait, Stage, Answered, Underway, AskState, CellState
    <2>. HIDE DEF k, d
    <2>7. /\ ask'[a] = k /\ \A x \in Askers \ {a} : ask'[x] = ask[x]
          /\ cell'[c] = d /\ \A x \in ReplyCells \ {c} : cell'[x] = cell[x]
      BY <1>0, <2>1, <2>3 DEF Types
    <2>8. Types'
      BY <1>0, <2>1, <2>2, <2>3, <2>4 DEF Types
    <2>9. Stage(ask[a], ask[a].n, cell[ask[a].cell], a)'
      BY <2>2, <2>5, <2>6, <2>7 DEF Stage, Answered, Underway
    <2>. QED
      BY <2>1, <2>2, <2>5, <2>7, <2>8, <2>9, OneAsk DEF Active
  <1>5. ASSUME NEW a \in Askers, take(a) PROVE AskInv'
    <2>. DEFINE n == ask[a].n  c == ask[a].cell
    <2>1. /\ n \in 1..made /\ n \in 1..MaxAsks /\ c \in ReplyCells
          /\ ask[a] \in AskState /\ cell[c] \in CellState
          /\ resp[n] \in RespState /\ Active(a) /\ Stage(ask[a], n, cell[c], a) /\ resp[n].pc # "none"
      BY <1>0, <1>5, AsksAssumption DEF take, Owns, Stages, Fenced, Active, Types
    <2>2. UNCHANGED <<free, made, resp>>
      BY <1>5 DEF take
    <2>. DEFINE k == [ask[a] EXCEPT !.pc = "release", !.got = cell[c].value]
           d == [cell[c] EXCEPT !.value = 0]
    <2>3. ask' = [ask EXCEPT ![a] = k] /\ cell' = [cell EXCEPT ![c] = d]
      BY <1>0, <1>5, <2>1 DEF take, Types, AskState, CellState
    <2>0. 0 \in Results /\ n \in Results /\ cell[c].value \in Results
      BY <2>1, AsksAssumption DEF AskState, CellState, Results
    <2>4. k \in AskState /\ d \in CellState
      BY <2>0, <2>1 DEF AskState, CellState
    <2>5. k.pc # "idle" /\ k.n = n /\ k.cell = c /\ d.gen = cell[c].gen
      BY <2>1 DEF AskState, CellState
    <2>6. Stage(k, n, d, a)
      BY <1>0, <1>5, <2>1 DEF take, Stage, Answered, Underway, AskState, CellState
    <2>. HIDE DEF k, d
    <2>7. /\ ask'[a] = k /\ \A x \in Askers \ {a} : ask'[x] = ask[x]
          /\ cell'[c] = d /\ \A x \in ReplyCells \ {c} : cell'[x] = cell[x]
      BY <1>0, <2>1, <2>3 DEF Types
    <2>8. Types'
      BY <1>0, <2>1, <2>2, <2>3, <2>4 DEF Types
    <2>9. Stage(ask[a], ask[a].n, cell[ask[a].cell], a)'
      BY <2>2, <2>5, <2>6, <2>7 DEF Stage, Answered, Underway
    <2>. QED
      BY <2>1, <2>2, <2>5, <2>7, <2>8, <2>9, OneAsk DEF Active
  <1>6. ASSUME NEW a \in Askers, Drop(a) PROVE AskInv'
    <2>. DEFINE n == ask[a].n  c == ask[a].cell
    <2>1. /\ n \in 1..made /\ n \in 1..MaxAsks /\ c \in ReplyCells
          /\ ask[a] \in AskState /\ cell[c] \in CellState
          /\ resp[n] \in RespState /\ Active(a) /\ Stage(ask[a], n, cell[c], a) /\ resp[n].pc # "none"
      BY <1>0, <1>6, AsksAssumption DEF Drop, Owns, Stages, Fenced, Active, Types
    <2>2. UNCHANGED <<free, made, resp>>
      BY <1>6 DEF Drop
    <2>. DEFINE k == [ask[a] EXCEPT !.pc = "release", !.got = n]
           d == cell[c]
    <2>3. ask' = [ask EXCEPT ![a] = k] /\ cell' = [cell EXCEPT ![c] = d]
      BY <1>0, <1>6, <2>1 DEF Drop, Types, AskState, CellState
    <2>4. k \in AskState /\ d \in CellState
      BY <1>0, <1>6, <2>1, AsksAssumption DEF Drop, AskState, CellState, Results
    <2>5. k.pc # "idle" /\ k.n = n /\ k.cell = c /\ d.gen = cell[c].gen
      BY <2>1 DEF AskState, CellState
    <2>6. Stage(k, n, d, a)
      BY <1>0, <1>6, <2>1 DEF Drop, Stage, Answered, Underway, AskState, CellState
    <2>. HIDE DEF k, d
    <2>7. /\ ask'[a] = k /\ \A x \in Askers \ {a} : ask'[x] = ask[x]
          /\ cell'[c] = d /\ \A x \in ReplyCells \ {c} : cell'[x] = cell[x]
      BY <1>0, <2>1, <2>3 DEF Types
    <2>8. Types'
      BY <1>0, <2>1, <2>2, <2>3, <2>4 DEF Types
    <2>9. Stage(ask[a], ask[a].n, cell[ask[a].cell], a)'
      BY <2>2, <2>5, <2>6, <2>7 DEF Stage, Answered, Underway
    <2>. QED
      BY <2>1, <2>2, <2>5, <2>7, <2>8, <2>9, OneAsk DEF Active
  <1>7. ASSUME NEW a \in Askers, release(a) PROVE AskInv'
    <2>. DEFINE n == ask[a].n  c == ask[a].cell
    <2>1. /\ n \in 1..made /\ n \in 1..MaxAsks /\ c \in ReplyCells
          /\ ask[a] \in AskState /\ cell[c] \in CellState
          /\ resp[n] \in RespState /\ Active(a) /\ Stage(ask[a], n, cell[c], a) /\ resp[n].pc # "none"
      BY <1>0, <1>7, AsksAssumption DEF release, Owns, Stages, Fenced, Active, Types
    <2>2. /\ UNCHANGED <<made, resp>> /\ free' = free \cup {c} /\ ask' = [ask EXCEPT ![a] = NoAsk]
          /\ resp[n].pc \in {"sent", "done"} /\ resp[n].cell = c /\ resp[n].gen = cell[c].gen
      BY <1>0, <1>7, <2>1 DEF release, Stage, Owns, RespState
    <2>. DEFINE d == [st |-> "empty", gen |-> cell[c].gen + 1, cont |-> None, value |-> 0]
    <2>3. cell' = [cell EXCEPT ![c] = d]
      BY <1>7 DEF release
    <2>4. /\ d \in CellState /\ NoAsk \in AskState /\ d.gen = cell[c].gen + 1 /\ cell[c].gen \in Nat
          /\ NoAsk.pc = "idle"
      BY <2>1, AsksAssumption DEF CellState, AskState, Results, NoAsk
    <2>. HIDE DEF d
    <2>5. /\ ask'[a] = NoAsk /\ \A x \in Askers \ {a} : ask'[x] = ask[x]
          /\ cell'[c] = d /\ \A x \in ReplyCells \ {c} : cell'[x] = cell[x]
      BY <1>0, <2>1, <2>2, <2>3 DEF Types
    <2>6. Types'
      BY <1>0, <2>1, <2>2, <2>3, <2>4 DEF Types
    <2>7. \A x \in Askers : Active(x)' => /\ x # a /\ Active(x) /\ ask'[x] = ask[x]
      BY <2>4, <2>5 DEF Active
    <2>8. \A x \in Askers : Active(x) /\ x # a =>
             /\ Active(x)' /\ ask'[x] = ask[x]
             /\ ask[x].n \in 1..made /\ ask[x].cell \in ReplyCells \ free /\ ask[x].cell # c
             /\ resp[ask[x].n].cell = ask[x].cell /\ resp[ask[x].n].gen = cell[ask[x].cell].gen
             /\ cell'[ask[x].cell] = cell[ask[x].cell]
      BY <1>0, <2>1, <2>5 DEF Owns, Apart, Active
    <2>9. Owns' /\ Apart'
      BY <1>0, <2>2, <2>7, <2>8 DEF Owns, Apart
    <2>10. Fenced'
      <3>. SUFFICES ASSUME NEW m \in 1..made
                   PROVE  /\ resp[m].pc # "none" /\ resp[m].cell \in ReplyCells
                          /\ resp[m].gen <= cell'[resp[m].cell].gen
                          /\ IF resp[m].gen = cell'[resp[m].cell].gen
                             THEN \E x \in Askers : Active(x)' /\ ask'[x].n = m
                             ELSE resp[m].pc \in {"sent", "done"}
        BY <2>2 DEF Fenced
      <3>1. /\ resp[m].pc # "none" /\ resp[m].cell \in ReplyCells /\ resp[m].gen <= cell[resp[m].cell].gen
            /\ IF resp[m].gen = cell[resp[m].cell].gen THEN \E x \in Askers : Active(x) /\ ask[x].n = m
               ELSE resp[m].pc \in {"sent", "done"}
        BY <1>0 DEF Fenced
      <3>2. resp[m].gen \in Nat
        <4>1. m \in 1..MaxAsks
          BY <1>0, AsksAssumption DEF Types
        <4>. QED
          BY <1>0, <4>1 DEF Types, RespState
      <3>3. CASE resp[m].cell = c
        <4>1. cell'[resp[m].cell].gen = cell[c].gen + 1
          BY <2>4, <2>5, <3>3
        <4>2. resp[m].gen = cell[c].gen => m = n
          <5>1. \A x \in Askers : Active(x) /\ x # a => resp[ask[x].n].cell # c
            BY <2>8
          <5>. QED
            BY <3>1, <3>3, <5>1
        <4>3. resp[m].pc \in {"sent", "done"}
          BY <2>2, <3>1, <3>3, <4>2
        <4>. QED
          BY <2>4, <3>1, <3>2, <3>3, <4>1, <4>3
      <3>4. CASE resp[m].cell # c
        <4>1. cell'[resp[m].cell] = cell[resp[m].cell]
          BY <2>5, <3>1, <3>4
        <4>2. \A x \in Askers : Active(x) /\ ask[x].n = m => x # a
          BY <2>2, <3>4
        <4>. QED
          BY <2>8, <3>1, <4>1, <4>2
      <3>. QED
        BY <3>3, <3>4
    <2>11. Unasked'
      BY <1>0, <2>2 DEF Unasked
    <2>12. Stages'
      BY <1>0, <2>2, <2>7, <2>8 DEF Stages, Stage, Answered, Underway
    <2>. QED
      BY <2>6, <2>9, <2>10, <2>11, <2>12 DEF AskInv
  <1>8. ASSUME NEW n \in 1..MaxAsks, CheckGen(n) PROVE AskInv'
    <2>. DEFINE c == resp[n].cell
    <2>1. /\ n \in 1..made /\ c \in ReplyCells /\ resp[n] \in RespState /\ cell[c] \in CellState
      BY <1>0, <1>8, AsksAssumption DEF CheckGen, Unasked, Fenced, Types
    <2>2. CASE resp[n].gen = cell[c].gen
      <3>2. PICK a \in Askers : Active(a) /\ ask[a].n = n
        BY <1>0, <1>8, <2>1, <2>2 DEF CheckGen, Fenced
      <3>3. /\ ask[a].cell = c /\ resp[n].gen = cell[c].gen /\ Stage(ask[a], n, cell[c], a)
            /\ ask[a] \in AskState
        BY <1>0, <3>2 DEF Owns, Stages, Types
      <3>. DEFINE r == [resp[n] EXCEPT !.pc = "checked"]
             d == cell[c]
             k == ask[a]
      <3>4. /\ resp' = [resp EXCEPT ![n] = r] /\ UNCHANGED <<free, made>>
            /\ cell' = [cell EXCEPT ![c] = d] /\ ask' = [ask EXCEPT ![a] = k]
        <4>1. [cell EXCEPT ![c] = d] = cell /\ [ask EXCEPT ![a] = k] = ask
          BY <1>0, <2>1 DEF Types
        <4>. QED
          BY <1>8, <2>2, <4>1 DEF CheckGen
      <3>5. r \in RespState /\ d \in CellState /\ k \in AskState
        BY <1>0, <1>8, <2>1, <3>2, <3>3, AsksAssumption DEF CheckGen, RespState, AskState, CellState, Results
      <3>6. /\ r.cell = c /\ r.gen = resp[n].gen /\ r.pc # "none" /\ d.gen = cell[c].gen
            /\ k.n = n /\ k.cell = c /\ k.pc # "idle"
        BY <1>8, <2>1, <3>2, <3>3, <2>2 DEF CheckGen, RespState, AskState, CellState, Active
      <3>. HIDE DEF r, d, k
      <3>7. /\ resp'[n] = r /\ \A x \in (1..MaxAsks) \ {n} : resp'[x] = resp[x]
            /\ cell'[c] = d /\ \A x \in ReplyCells \ {c} : cell'[x] = cell[x]
            /\ ask'[a] = k /\ \A x \in Askers \ {a} : ask'[x] = ask[x]
        BY <1>0, <2>1, <3>4 DEF Types
      <3>8. Types'
        BY <1>0, <2>1, <3>4, <3>5 DEF Types
      <3>9. Stage(ask[a], n, cell[c], a)'
        BY <2>1, <2>2, <3>3, <3>6, <3>7, <1>8
           DEF CheckGen, r, d, k, Stage, Answered, Underway, RespState, AskState, CellState
      <3>. QED
        BY <3>2, <3>3, <3>4, <3>6, <3>7, <3>8, <3>9, OneAsk DEF Active
    <2>3. CASE resp[n].gen # cell[c].gen
      <3>1. /\ UNCHANGED <<cell, free, ask, made>> /\ resp' = [resp EXCEPT ![n].pc = "done"]
        BY <1>8, <2>3 DEF CheckGen
      <3>2. /\ resp'[n].pc = "done" /\ \A x \in (1..MaxAsks) \ {n} : resp'[x] = resp[x]
            /\ \A x \in 1..MaxAsks : resp'[x].cell = resp[x].cell /\ resp'[x].gen = resp[x].gen
        BY <1>0, <2>1, <3>1 DEF Types, RespState
      <3>3. \A x \in Askers : Active(x) => ask[x].n # n /\ ask[x].n \in 1..MaxAsks
        BY <1>0, <2>3, AsksAssumption DEF Owns, Types
      <3>4. Types'
        BY <1>0, <2>1, <3>1 DEF Types, RespState
      <3>5. Owns' /\ Apart'
        BY <1>0, <3>1, <3>2, <3>3 DEF Owns, Apart, Active
      <3>6. Fenced'
        <4>1. 1..made \subseteq 1..MaxAsks
          BY <1>0, AsksAssumption DEF Types
        <4>. QED
          BY <1>0, <2>3, <3>1, <3>2, <4>1 DEF Fenced, Active
      <3>7. Unasked'
        BY <1>0, <2>1, <3>1, <3>2, AsksAssumption DEF Unasked, Types
      <3>8. Stages'
        <4>. SUFFICES ASSUME NEW x \in Askers, Active(x)
                     PROVE  Stage(ask[x], ask[x].n, cell[ask[x].cell], x)'
          BY <3>1 DEF Stages, Active
        <4>1. Stage(ask[x], ask[x].n, cell[ask[x].cell], x)
          BY <1>0 DEF Stages
        <4>2. resp'[ask[x].n] = resp[ask[x].n] /\ ask' = ask /\ cell' = cell
          BY <3>1, <3>2, <3>3
        <4>. QED
          BY <4>1, <4>2 DEF Stage, Answered, Underway
      <3>. QED
        BY <3>4, <3>5, <3>6, <3>7, <3>8 DEF AskInv
    <2>. QED
      BY <2>2, <2>3
  <1>9. ASSUME NEW n \in 1..MaxAsks, Deposit(n) PROVE AskInv'
    <2>. DEFINE c == resp[n].cell
    <2>1. /\ n \in 1..made /\ c \in ReplyCells /\ resp[n] \in RespState /\ cell[c] \in CellState
      BY SMTT(30), <1>0, <1>9, AsksAssumption DEF Deposit, Unasked, Fenced, Types
    <2>2. PICK a \in Askers : Active(a) /\ ask[a].n = n
      BY <1>0, <1>9, <2>1 DEF Deposit, Fenced
    <2>3. /\ ask[a].cell = c /\ resp[n].gen = cell[c].gen /\ Stage(ask[a], n, cell[c], a)
          /\ ask[a] \in AskState
      BY <1>0, <2>2 DEF Owns, Stages, Types
    <2>. DEFINE r == [resp[n] EXCEPT !.pc = "deposited"]
           d == [cell[c] EXCEPT !.value = n]
           k == ask[a]
    <2>4. /\ resp' = [resp EXCEPT ![n] = r] /\ UNCHANGED <<free, made>>
          /\ cell' = [cell EXCEPT ![c] = d] /\ ask' = [ask EXCEPT ![a] = k]
      BY <1>0, <1>9, <2>1, <2>2, <2>3 DEF Deposit, Types, RespState, CellState, AskState
    <2>5. r \in RespState /\ d \in CellState /\ k \in AskState
      BY <1>0, <1>9, <2>1, <2>2, <2>3, AsksAssumption DEF Deposit, RespState, AskState, CellState, Results
    <2>6. /\ r.cell = c /\ r.gen = resp[n].gen /\ r.pc # "none" /\ d.gen = cell[c].gen
          /\ k.n = n /\ k.cell = c /\ k.pc # "idle"
      BY <1>9, <2>1, <2>2, <2>3 DEF Deposit, RespState, AskState, CellState, Active
    <2>. HIDE DEF r, d, k
    <2>7. /\ resp'[n] = r /\ \A x \in (1..MaxAsks) \ {n} : resp'[x] = resp[x]
          /\ cell'[c] = d /\ \A x \in ReplyCells \ {c} : cell'[x] = cell[x]
          /\ ask'[a] = k /\ \A x \in Askers \ {a} : ask'[x] = ask[x]
      BY <1>0, <2>1, <2>4 DEF Types
    <2>8. Types'
      BY <1>0, <2>1, <2>4, <2>5 DEF Types
    <2>9. Stage(ask[a], n, cell[c], a)'
      BY <2>1, <2>3, <2>6, <2>7, <1>9
         DEF Deposit, r, d, k, Stage, Answered, Underway, RespState, AskState, CellState
    <2>. QED
      BY <2>2, <2>3, <2>4, <2>6, <2>7, <2>8, <2>9, OneAsk DEF Active
  <1>10. ASSUME NEW n \in 1..MaxAsks, Exchange(n) PROVE AskInv'
    <2>. DEFINE c == resp[n].cell
    <2>1. /\ n \in 1..made /\ c \in ReplyCells /\ resp[n] \in RespState /\ cell[c] \in CellState
      BY <1>0, <1>10, AsksAssumption DEF Exchange, Unasked, Fenced, Types
    <2>2. PICK a \in Askers : Active(a) /\ ask[a].n = n
      BY <1>0, <1>10, <2>1 DEF Exchange, Fenced
    <2>3. /\ ask[a].cell = c /\ resp[n].gen = cell[c].gen /\ Stage(ask[a], n, cell[c], a)
          /\ ask[a] \in AskState
      BY <1>0, <2>2 DEF Owns, Stages, Types
    <2>. DEFINE r == [resp[n] EXCEPT !.pc = IF cell[c].st = "waiter" THEN "won" ELSE "done",
                                 !.cont = IF cell[c].st = "waiter" THEN cell[c].cont ELSE None]
           d == [cell[c] EXCEPT !.st = "resolved"]
           k == ask[a]
    <2>4. /\ resp' = [resp EXCEPT ![n] = r] /\ UNCHANGED <<free, made>>
          /\ cell' = [cell EXCEPT ![c] = d] /\ ask' = [ask EXCEPT ![a] = k]
      BY <1>0, <1>10, <2>1, <2>2, <2>3 DEF Exchange, Types, RespState, CellState, AskState
    <2>5. r \in RespState /\ d \in CellState /\ k \in AskState
      BY ZenonT(40), <1>0, <1>10, <2>1, <2>2, <2>3, AsksAssumption
         DEF Exchange, RespState, AskState, CellState, Results
    <2>6. /\ r.cell = c /\ r.gen = resp[n].gen /\ r.pc # "none" /\ d.gen = cell[c].gen
          /\ k.n = n /\ k.cell = c /\ k.pc # "idle"
      BY SMTT(30), <1>10, <2>1, <2>2, <2>3 DEF Exchange, RespState, AskState, CellState, Active
    <2>. HIDE DEF r, d, k
    <2>7. /\ resp'[n] = r /\ \A x \in (1..MaxAsks) \ {n} : resp'[x] = resp[x]
          /\ cell'[c] = d /\ \A x \in ReplyCells \ {c} : cell'[x] = cell[x]
          /\ ask'[a] = k /\ \A x \in Askers \ {a} : ask'[x] = ask[x]
      BY <1>0, <2>1, <2>4 DEF Types
    <2>8. Types'
      BY <1>0, <2>1, <2>4, <2>5 DEF Types
    <2>9. Stage(ask[a], n, cell[c], a)'
      BY <2>1, <2>3, <2>6, <2>7, <1>10
         DEF Exchange, r, d, k, Stage, Answered, Underway, RespState, AskState, CellState
    <2>. QED
      BY <2>2, <2>3, <2>4, <2>6, <2>7, <2>8, <2>9, OneAsk DEF Active
  <1>11. ASSUME NEW n \in 1..MaxAsks, Resume(n) PROVE AskInv'
    <2>. DEFINE c == resp[n].cell
    <2>1. /\ n \in 1..made /\ c \in ReplyCells /\ resp[n] \in RespState /\ cell[c] \in CellState
      BY <1>0, <1>11, AsksAssumption DEF Resume, Unasked, Fenced, Types
    <2>2. PICK a \in Askers : Active(a) /\ ask[a].n = n
      BY <1>0, <1>11, <2>1 DEF Resume, Fenced
    <2>3. /\ ask[a].cell = c /\ resp[n].gen = cell[c].gen /\ Stage(ask[a], n, cell[c], a)
          /\ ask[a] \in AskState
      BY <1>0, <2>2 DEF Owns, Stages, Types
    <2>. DEFINE r == [resp[n] EXCEPT !.pc = "done"]
           d == cell[c]
           k == [ask[a] EXCEPT !.pc = "finish"]
    <2>4. /\ resp' = [resp EXCEPT ![n] = r] /\ UNCHANGED <<free, made>>
          /\ cell' = [cell EXCEPT ![c] = d] /\ ask' = [x \in Askers |-> IF x = a THEN k ELSE ask[x]]
      <3>1. ask[a].pc = "suspended" /\ resp[n].cont = a
        BY <1>11, <2>3 DEF Resume, Stage, Underway
      <3>2. [cell EXCEPT ![c] = d] = cell
        BY <1>0, <2>1 DEF Types
      <3>. QED
        BY <1>11, <3>1, <3>2 DEF Resume
    <2>5. r \in RespState /\ d \in CellState /\ k \in AskState
      BY <1>0, <1>11, <2>1, <2>2, <2>3, AsksAssumption DEF Resume, RespState, AskState, CellState, Results
    <2>6. /\ r.cell = c /\ r.gen = resp[n].gen /\ r.pc # "none" /\ d.gen = cell[c].gen
          /\ k.n = n /\ k.cell = c /\ k.pc # "idle"
      BY <1>11, <2>1, <2>2, <2>3 DEF Resume, RespState, AskState, CellState, Active
    <2>. HIDE DEF r, d, k
    <2>7. /\ resp'[n] = r /\ \A x \in (1..MaxAsks) \ {n} : resp'[x] = resp[x]
          /\ cell'[c] = d /\ \A x \in ReplyCells \ {c} : cell'[x] = cell[x]
          /\ ask'[a] = k /\ \A x \in Askers \ {a} : ask'[x] = ask[x]
      BY <1>0, <2>1, <2>4 DEF Types
    <2>8. Types'
      BY <1>0, <2>1, <2>4, <2>5 DEF Types
    <2>9. Stage(ask[a], n, cell[c], a)'
      BY SMTT(30), <2>1, <2>3, <2>6, <2>7, <1>11
         DEF Resume, r, d, k, Stage, Answered, Underway, RespState, AskState, CellState
    <2>. QED
      BY <2>2, <2>3, <2>4, <2>6, <2>7, <2>8, <2>9, OneAsk DEF Active
  <1>12. CASE UNCHANGED askVars
    BY <1>0, <1>12
       DEF askVars, AskInv, Types, Owns, Apart, Fenced, Unasked, Stages, Stage, Answered, Underway, Active
  <1>. QED
    BY <1>1, <1>2, <1>3, <1>4, <1>5, <1>6, <1>7, <1>8, <1>9, <1>10, <1>11, <1>12 DEF AskNext

\* The pool as it is constructed: every cell free, nobody asking.
LEMMA AskStart == ASSUME AskInit PROVE AskInv
  <1>1. Types
    <2>1. 0 \in Results /\ 0 \in 0..MaxAsks
      BY AsksAssumption DEF Results
    <2>2. [n \in 1..MaxAsks |-> NoResp] \in [1..MaxAsks -> RespState]
      BY DEF NoResp, RespState
    <2>3. NoAsk \in AskState
      BY <2>1 DEF NoAsk, AskState
    <2>4. [c \in ReplyCells |-> [st |-> "empty", gen |-> 0, cont |-> None, value |-> 0]]
            \in [ReplyCells -> CellState]
      BY <2>1 DEF CellState
    <2>. QED
      BY <2>1, <2>2, <2>3, <2>4 DEF AskInit, Types
  <1>2. \A a \in Askers : ~Active(a)
    BY DEF AskInit, Active, NoAsk
  <1>3. 1..made = {} /\ \A n \in 1..MaxAsks : resp[n].pc = "none"
    BY DEF AskInit, NoResp
  <1>. QED
    BY <1>1, <1>2, <1>3 DEF AskInv, Owns, Apart, Fenced, Unasked, Stages

\* The invariant holds throughout (acquire to release of every cell).
LEMMA AskInvHolds == ASSUME ~Overlap PROVE AskSpec => []AskInv
  <1>1. AskInit => AskInv
    BY AskStart
  <1>2. AskInv /\ [AskNext]_askVars => AskInv'
    BY AskStep
  <1>. QED
    BY <1>1, <1>2, PTL DEF AskSpec

\* An asker takes the reply to its own question, a suspended asker has a responder
\* that will still find it, and the responder that won the exchange resumes the
\* coroutine that waits, exactly once (ReplyCell::resolve, suspend, disarm).
THEOREM AskersServedHolds == ASSUME ~Overlap PROVE AskSpec => []AskersServed
  <1>1. AskInv => AskersServed
    <2>. SUFFICES ASSUME AskInv PROVE AskersServed
      OBVIOUS
    <2>0. Types /\ Owns /\ Apart /\ Fenced /\ Unasked /\ Stages
      BY DEF AskInv
    <2>1. ReplyIsMine
      BY <2>0 DEF ReplyIsMine, Stages, Stage, Active
    <2>2. ASSUME NEW a \in Askers, ask[a].pc = "suspended"
          PROVE  resp[ask[a].n].pc \in {"sent", "checked", "deposited"} \/ resp[ask[a].n].cont = a
      <3>1. Stage(ask[a], ask[a].n, cell[ask[a].cell], a)
        BY <2>0, <2>2 DEF Stages, Active
      <3>. QED
        BY <2>2, <3>1 DEF Stage, Underway
    <2>3. ASSUME NEW n \in 1..MaxAsks, resp[n].pc = "won"
          PROVE  \E a \in Askers : resp[n].cont = a /\ ask[a].pc = "suspended" /\ ask[a].n = n
      <3>1. n \in 1..made
        BY <2>0, <2>3, AsksAssumption DEF Unasked, Types
      <3>2. PICK a \in Askers : Active(a) /\ ask[a].n = n
        BY <2>0, <2>3, <3>1 DEF Fenced
      <3>3. Stage(ask[a], n, cell[ask[a].cell], a)
        BY <2>0, <3>2 DEF Stages
      <3>. QED
        BY <2>3, <3>2, <3>3 DEF Stage, Underway
    <2>. QED
      BY <2>1, <2>2, <2>3 DEF AskersServed, WaiterIsServed
  <1>. QED
    BY <1>1, AskInvHolds, PTL

-----------------------------------------------------------------------------

(* The retry of plain sends, for any number of frames in flight and any     *)
(* number of evictions.                                                     *)

\* The types of the sender, the channels and the receiver.
GbnTypes == /\ pending \in Seq(Nat) /\ next_seq \in Nat /\ cursor \in Nat /\ deferred \in Nat
            /\ wire \in Seq([seq : Nat, base : Nat]) /\ acks \in Seq(Nat)
            /\ known \in BOOLEAN /\ wm \in Nat /\ got \in Seq(Nat) /\ evictions \in Nat

\* The queue holds consecutive numbers, the last one just below n.
Consecutive(q, n) == Len(q) < n /\ \A i \in 1..Len(q) : q[i] = n - Len(q) + i - 1

\* The application that was handed g has every frame up to c.
Had(g, c) == \A n \in 1..c : n \in Range(g)

\* What an acknowledgement covers, sent, kept back or still to be sent, the
\* application has; and the queue begins where that ends.
Covered == /\ Had(got, next_seq - Len(pending) - 1) /\ Had(got, deferred)
           /\ \A i \in 1..Len(acks) : Had(got, acks[i])
           /\ known => Had(got, wm)

\* A frame in flight names a base below which nothing is missing.
Based == \A i \in 1..Len(wire) : /\ wire[i].base >= 1 /\ wire[i].base <= wire[i].seq
                                /\ Had(got, wire[i].base - 1)

\* A receiver that never forgot the sender has counted what it handed out.
Counts == evictions = 0 =>
    /\ got = [i \in 1..Len(got) |-> i]
    /\ IF known THEN wm = Len(got) ELSE got = <<>>

GbnInv == GbnTypes /\ Consecutive(pending, next_seq) /\ Covered /\ Based /\ Counts

LEMMA MaxOfTwo == ASSUME NEW a \in Nat, NEW b \in Nat PROVE Max({a, b}) \in {a, b}
  <1>1. \E x \in {a, b} : \A y \in {a, b} : x >= y
    OBVIOUS
  <1>. QED
    BY <1>1 DEF Max

LEMMA AppendOne ==
  ASSUME NEW s \in Seq(Nat), NEW e \in Nat, NEW t, t = Append(s, e)
  PROVE  /\ t \in Seq(Nat) /\ Len(t) = Len(s) + 1 /\ t[Len(s) + 1] = e
         /\ \A i \in 1..Len(s) : t[i] = s[i]
         /\ \A i \in 1..Len(t) : i \in 1..Len(s) \/ i = Len(s) + 1
  <1>1. Len(s) \in Nat
    OBVIOUS
  <1>. QED
    BY <1>1

LEMMA RangeOfAppend ==
  ASSUME NEW s \in Seq(Nat), NEW e \in Nat
  PROVE  /\ \A n \in Range(s) : n \in Range(Append(s, e))
         /\ e \in Range(Append(s, e))
         /\ s = <<>> => Range(s) = {}
  <1>1. /\ Len(Append(s, e)) = Len(s) + 1 /\ Append(s, e)[Len(s) + 1] = e
        /\ \A i \in 1..Len(s) : Append(s, e)[i] = s[i]
        /\ DOMAIN s = 1..Len(s) /\ DOMAIN Append(s, e) = 1..Len(Append(s, e))
        /\ Len(s) \in Nat
    OBVIOUS
  <1>. QED
    BY <1>1 DEF Range

\* pop_front keeps the numbers consecutive and drops nothing that is not covered.
LEMMA UnackedIsSuffix ==
  ASSUME NEW q \in Seq(Nat), NEW n \in Nat, NEW c \in Nat, Consecutive(q, n)
  PROVE  /\ Unacked(q, c) \in Seq(Nat) /\ Consecutive(Unacked(q, c), n)
         /\ Len(Unacked(q, c)) <= Len(q)
         /\ n - Len(Unacked(q, c)) - 1 <= n - Len(q) - 1 \/ n - Len(Unacked(q, c)) - 1 <= c
  <1>. DEFINE P(k) == (\A i \in 1..k : q[i] <= c) /\ (k < Len(q) => q[k + 1] > c)
              m == AckedPrefix(q, c)
              b == n - Len(q)
  <1>1. Len(q) \in Nat /\ b \in Nat /\ b >= 1 /\ \A i \in 1..Len(q) : q[i] = b + i - 1
    BY DEF Consecutive
  <1>2. \E k \in 0..Len(q) : P(k)
    <2>1. CASE c < b
      <3>1. P(0)
        BY <1>1, <2>1
      <3>. QED
        BY <1>1, <3>1
    <2>2. CASE c >= b /\ c - b + 1 < Len(q)
      <3>. DEFINE k == c - b + 1
      <3>1. k \in 0..Len(q) /\ k < Len(q) /\ k \in Nat
        BY <1>1, <2>2
      <3>2. ASSUME NEW i \in 1..k PROVE q[i] <= c
        <4>1. i \in 1..Len(q) /\ q[i] = b + i - 1
          BY <1>1, <3>1
        <4>. QED
          BY <1>1, <3>1, <4>1
      <3>3. q[k + 1] > c
        <4>1. k + 1 \in 1..Len(q) /\ q[k + 1] = b + (k + 1) - 1
          BY <1>1, <3>1
        <4>. QED
          BY <1>1, <3>1, <4>1
      <3>. QED
        BY <3>1, <3>2, <3>3
    <2>3. CASE c - b + 1 >= Len(q)
      <3>1. P(Len(q))
        BY <1>1, <2>3
      <3>. QED
        BY <1>1, <3>1
    <2>. QED
      BY <1>1, <2>1, <2>2, <2>3
  <1>3. m \in 0..Len(q) /\ P(m)
    BY <1>2 DEF AckedPrefix
  <1>4. Unacked(q, c) = SubSeq(q, m + 1, Len(q))
    BY DEF Unacked
  <1>. HIDE DEF m
  <1>5. /\ Unacked(q, c) \in Seq(Nat) /\ Len(Unacked(q, c)) = Len(q) - m
        /\ \A i \in 1..(Len(q) - m) : Unacked(q, c)[i] = q[m + i]
    BY SMTT(30), <1>1, <1>3, <1>4
  <1>6. Consecutive(Unacked(q, c), n)
    <2>1. Len(q) - m \in Nat /\ m \in Nat /\ m <= Len(q) /\ Len(q) < n
      BY <1>1, <1>3
    <2>2. ASSUME NEW i \in 1..(Len(q) - m) PROVE Unacked(q, c)[i] = n - (Len(q) - m) + i - 1
      <3>1. m + i \in 1..Len(q) /\ Unacked(q, c)[i] = q[m + i] /\ q[m + i] = b + (m + i) - 1
        BY SMTT(30), <1>1, <1>5, <2>1
      <3>. QED
        BY <1>1, <2>1, <3>1
    <2>. QED
      BY <1>5, <2>1, <2>2 DEF Consecutive
  <1>7. m = 0 \/ b + m - 1 <= c
    BY <1>1, <1>3
  <1>. QED
    BY <1>1, <1>3, <1>5, <1>6, <1>7

\* Nothing the application has is taken from it again.
LEMMA HadGrows ==
  ASSUME GbnTypes, GbnTypes',
         got' = got \/ \E e \in Nat : got' = Append(got, e)
  PROVE  \A c : Had(got, c) => Had(got', c)
  <1>1. \A n \in Range(got) : n \in Range(got')
    BY RangeOfAppend DEF GbnTypes
  <1>. QED
    BY <1>1 DEF Had

LEMMA EnqueueKeeps == GbnInv /\ Enqueue => GbnInv'
  <1>. SUFFICES ASSUME GbnInv, Enqueue PROVE GbnInv'
    OBVIOUS
  <1>. DEFINE q == Append(pending, next_seq)
  <1>1. /\ Len(pending) \in Nat /\ next_seq \in Nat /\ Len(pending) < next_seq
        /\ \A i \in 1..Len(pending) : pending[i] = next_seq - Len(pending) + i - 1
    BY DEF GbnInv, GbnTypes, Consecutive
  <1>2. /\ pending' = q /\ next_seq' = next_seq + 1
        /\ q \in Seq(Nat) /\ Len(q) = Len(pending) + 1 /\ q[Len(pending) + 1] = next_seq
        /\ \A i \in 1..Len(pending) : q[i] = pending[i]
    BY DEF Enqueue, GbnInv, GbnTypes
  <1>. HIDE DEF q
  <1>3. GbnTypes'
    BY <1>1, <1>2 DEF GbnInv, GbnTypes, Enqueue, receiver
  <1>4. Consecutive(q, next_seq + 1)
    <2>1. ASSUME NEW i \in 1..Len(q) PROVE q[i] = (next_seq + 1) - Len(q) + i - 1
      <3>1. CASE i \in 1..Len(pending)
        BY <1>1, <1>2, <3>1
      <3>2. CASE i = Len(pending) + 1
        BY <1>1, <1>2, <3>2
      <3>. QED
        BY <1>1, <1>2, <3>1, <3>2
    <2>. QED
      BY <1>1, <1>2, <2>1 DEF Consecutive
  <1>5. next_seq' - Len(pending') - 1 = next_seq - Len(pending) - 1
    BY <1>1, <1>2
  <1>6. UNCHANGED <<cursor, deferred, wire, acks, known, wm, got, evictions>>
    BY DEF Enqueue, receiver
  <1>7. Covered' /\ Based' /\ Counts'
    BY <1>5, <1>6 DEF GbnInv, Covered, Based, Counts, Had
  <1>. QED
    BY <1>2, <1>3, <1>4, <1>7 DEF GbnInv

LEMMA PumpBeginKeeps == GbnInv /\ PumpBegin => GbnInv'
  <1>. SUFFICES ASSUME GbnInv, PumpBegin PROVE GbnInv'
    OBVIOUS
  <1>1. cursor' \in Nat
    BY DEF PumpBegin, GbnInv, GbnTypes
  <1>2. UNCHANGED <<pending, next_seq, deferred, wire, acks, known, wm, got, evictions>>
    BY DEF PumpBegin, receiver
  <1>. QED
    BY <1>1, <1>2 DEF GbnInv, GbnTypes, Covered, Based, Counts, Had, Consecutive

LEMMA PumpSendKeeps == GbnInv /\ PumpSend => GbnInv'
  <1>. SUFFICES ASSUME GbnInv, PumpSend PROVE GbnInv'
    OBVIOUS
  <1>1. PICK i \in DOMAIN pending :
          /\ cursor' = pending[i] + 1
          /\ \/ wire' = Append(wire, [seq |-> pending[i], base |-> Head(pending)])
             \/ wire' = wire
    BY DEF PumpSend
  <1>. DEFINE f == [seq |-> pending[i], base |-> Head(pending)]
  <1>2. /\ Len(pending) \in Nat /\ i \in 1..Len(pending) /\ next_seq \in Nat
        /\ Head(pending) = pending[1] /\ Len(pending) < next_seq
        /\ pending[1] = next_seq - Len(pending) /\ pending[i] = next_seq - Len(pending) + i - 1
    <2>1. /\ pending \in Seq(Nat) /\ next_seq \in Nat /\ i \in 1..Len(pending)
          /\ Head(pending) = pending[1] /\ 1 \in 1..Len(pending)
      BY <1>1 DEF GbnInv, GbnTypes
    <2>2. /\ Len(pending) < next_seq
          /\ \A j \in 1..Len(pending) : pending[j] = next_seq - Len(pending) + j - 1
      BY DEF GbnInv, Consecutive
    <2>3. pending[1] = next_seq - Len(pending) + 1 - 1 /\ pending[i] = next_seq - Len(pending) + i - 1
      BY <2>1, <2>2
    <2>. QED
      BY <2>1, <2>2, <2>3
  <1>3. f.seq = pending[i] /\ f.base = next_seq - Len(pending) /\ f \in [seq : Nat, base : Nat]
    BY <1>2
  <1>4. f.base >= 1 /\ f.base <= f.seq /\ Had(got, f.base - 1)
    BY SMTT(30), <1>2, <1>3 DEF GbnInv, Covered
  <1>. HIDE DEF f
  <1>5. UNCHANGED <<pending, next_seq, deferred, acks, known, wm, got, evictions>>
    BY DEF PumpSend, receiver
  <1>6. GbnTypes'
    <2>1. wire' \in Seq([seq : Nat, base : Nat])
      <3>1. wire \in Seq([seq : Nat, base : Nat]) /\ (wire' = wire \/ wire' = Append(wire, f))
        BY <1>1 DEF GbnInv, GbnTypes, f
      <3>2. Append(wire, f) \in Seq([seq : Nat, base : Nat])
        BY <1>3, <3>1, AppendProperties
      <3>. QED
        BY <3>1, <3>2
    <2>2. cursor' \in Nat
      BY <1>1, <1>2
    <2>. QED
      BY <1>5, <2>1, <2>2 DEF GbnInv, GbnTypes
  <1>7. Based'
    <2>. SUFFICES ASSUME NEW j \in 1..Len(wire')
                  PROVE  wire'[j].base >= 1 /\ wire'[j].base <= wire'[j].seq /\ Had(got, wire'[j].base - 1)
      BY <1>5 DEF Based, Had
    <2>1. CASE wire' = Append(wire, f)
      <3>1. wire \in Seq([seq : Nat, base : Nat])
        BY DEF GbnInv, GbnTypes
      <3>2. (j \in 1..Len(wire) /\ wire'[j] = wire[j]) \/ wire'[j] = f
        BY SMTT(30), <1>3, <2>1, <3>1
      <3>. QED
        BY <1>4, <3>2 DEF GbnInv, Based
    <2>2. CASE wire' = wire
      BY <2>2 DEF GbnInv, Based
    <2>. QED
      BY <1>1, <2>1, <2>2 DEF f
  <1>. QED
    BY <1>5, <1>6, <1>7 DEF GbnInv, Covered, Counts, Had, Consecutive

\* What leaves the queue was covered by an acknowledgement.
LEMMA UnackedCovered ==
  ASSUME GbnInv, NEW c \in Nat, Had(got, c)
  PROVE  /\ Unacked(pending, c) \in Seq(Nat) /\ Consecutive(Unacked(pending, c), next_seq)
         /\ Had(got, next_seq - Len(Unacked(pending, c)) - 1)
  <1>. DEFINE u == Unacked(pending, c)
  <1>1. /\ u \in Seq(Nat) /\ Consecutive(u, next_seq)
        /\ next_seq - Len(u) - 1 <= next_seq - Len(pending) - 1 \/ next_seq - Len(u) - 1 <= c
    BY UnackedIsSuffix DEF GbnInv, GbnTypes
  <1>2. Len(u) \in Nat /\ Len(pending) \in Nat /\ next_seq \in Nat
    BY <1>1 DEF GbnInv, GbnTypes
  <1>3. Had(got, next_seq - Len(pending) - 1)
    BY DEF GbnInv, Covered
  <1>. HIDE DEF u
  <1>4. Had(got, next_seq - Len(u) - 1)
    BY <1>1, <1>2, <1>3 DEF Had
  <1>. QED
    BY <1>1, <1>4 DEF u

LEMMA PumpEndKeeps == GbnInv /\ PumpEnd => GbnInv'
  <1>. SUFFICES ASSUME GbnInv, PumpEnd PROVE GbnInv'
    OBVIOUS
  <1>1. Had(got, deferred) /\ deferred \in Nat
    BY DEF GbnInv, GbnTypes, Covered
  <1>2. /\ pending' = Unacked(pending, deferred) /\ cursor' = 0 /\ deferred' = 0
        /\ UNCHANGED <<next_seq, wire, acks, known, wm, got, evictions>>
    BY DEF PumpEnd, receiver
  <1>3. /\ pending' \in Seq(Nat) /\ Consecutive(pending', next_seq)
        /\ Had(got, next_seq - Len(pending') - 1)
    BY <1>1, <1>2, UnackedCovered
  <1>4. Had(got, 0)
    BY DEF Had
  <1>5. GbnTypes'
    BY <1>2, <1>3 DEF GbnInv, GbnTypes
  <1>6. Covered' /\ Based' /\ Counts'
    BY <1>2, <1>3, <1>4 DEF GbnInv, Covered, Based, Counts, Had
  <1>. QED
    BY <1>2, <1>3, <1>5, <1>6 DEF GbnInv

LEMMA OnAckKeeps == GbnInv /\ OnAck => GbnInv'
  <1>. SUFFICES ASSUME GbnInv, OnAck PROVE GbnInv'
    OBVIOUS
  <1>. DEFINE c == Head(acks)
  <1>1. /\ acks \in Seq(Nat) /\ Len(acks) \in Nat /\ Len(acks) >= 1
        /\ c \in Nat /\ c = acks[1] /\ acks' = Tail(acks) /\ acks' \in Seq(Nat)
        /\ Len(acks') = Len(acks) - 1 /\ \A i \in 1..Len(acks') : acks'[i] = acks[i + 1]
    BY DEF OnAck, GbnInv, GbnTypes
  <1>2. Had(got, c)
    BY <1>1 DEF GbnInv, Covered
  <1>3. \/ pending' = pending /\ deferred' = Max({deferred, c})
        \/ pending' = Unacked(pending, c) /\ deferred' = deferred
    BY DEF OnAck, on_ack
  <1>4. UNCHANGED <<next_seq, cursor, wire, known, wm, got, evictions>>
    BY DEF OnAck, receiver
  <1>. HIDE DEF c
  <1>5. deferred' \in Nat /\ Had(got, deferred')
    BY <1>1, <1>2, <1>3, MaxOfTwo DEF GbnInv, GbnTypes, Covered
  <1>6. /\ pending' \in Seq(Nat) /\ Consecutive(pending', next_seq)
        /\ Had(got, next_seq - Len(pending') - 1)
    BY <1>1, <1>2, <1>3, UnackedCovered DEF GbnInv, GbnTypes, Covered
  <1>7. \A i \in 1..Len(acks') : Had(got, acks'[i])
    <2>. SUFFICES ASSUME NEW i \in 1..Len(acks') PROVE Had(got, acks'[i])
      OBVIOUS
    <2>1. i + 1 \in 1..Len(acks) /\ acks'[i] = acks[i + 1]
      BY <1>1
    <2>. QED
      BY <2>1 DEF GbnInv, Covered
  <1>8. GbnTypes'
    BY <1>1, <1>4, <1>5, <1>6 DEF GbnInv, GbnTypes
  <1>9. Covered' /\ Based' /\ Counts'
    BY <1>4, <1>5, <1>6, <1>7 DEF GbnInv, Covered, Based, Counts, Had
  <1>. QED
    BY <1>4, <1>6, <1>8, <1>9 DEF GbnInv

LEMMA EvictKeeps == GbnInv /\ Evict => GbnInv'
  <1>. SUFFICES ASSUME GbnInv, Evict PROVE GbnInv'
    OBVIOUS
  <1>1. /\ known' = FALSE /\ evictions' = evictions + 1 /\ evictions \in Nat
        /\ UNCHANGED <<pending, next_seq, cursor, deferred, wire, acks, wm, got>>
    BY DEF Evict, sender, GbnInv, GbnTypes
  <1>2. evictions' \in Nat /\ evictions' # 0 /\ ~known' /\ known' \in BOOLEAN
    <2>1. evictions + 1 \in Nat /\ evictions + 1 # 0
      BY <1>1
    <2>. QED
      BY <1>1, <2>1
  <1>3. GbnTypes'
    BY <1>1, <1>2 DEF GbnInv, GbnTypes
  <1>4. Consecutive(pending', next_seq')
    BY <1>1 DEF GbnInv
  <1>5. Covered' /\ Based'
    BY <1>1, <1>2 DEF GbnInv, Covered, Based, Had
  <1>6. Counts'
    BY <1>2 DEF Counts
  <1>. QED
    BY <1>3, <1>4, <1>5, <1>6 DEF GbnInv

LEMMA ReceiveKeeps == GbnInv /\ ReceiveFrame => GbnInv'
  <1>. SUFFICES ASSUME GbnInv, ReceiveFrame PROVE GbnInv'
    OBVIOUS
  <1>. DEFINE f == Head(wire)
              a == ack_for(f)
  <1>1. /\ wire \in Seq([seq : Nat, base : Nat]) /\ acks \in Seq(Nat) /\ got \in Seq(Nat)
        /\ wm \in Nat /\ known \in BOOLEAN
    BY DEF GbnInv, GbnTypes
  <1>2. /\ Len(wire) >= 1 /\ f = wire[1] /\ f \in [seq : Nat, base : Nat]
        /\ wire' = Tail(wire) /\ wire' \in Seq([seq : Nat, base : Nat])
        /\ Len(wire') = Len(wire) - 1 /\ \A i \in 1..Len(wire') : wire'[i] = wire[i + 1]
    <2>1. wire # <<>> /\ wire' = Tail(wire)
      BY DEF ReceiveFrame
    <2>2. /\ f \in [seq : Nat, base : Nat] /\ wire' \in Seq([seq : Nat, base : Nat])
          /\ Len(wire') = Len(wire) - 1 /\ \A i \in 1..Len(wire') : wire'[i] = wire[i + 1]
      BY <1>1, <2>1, HeadTailProperties, Zenon
    <2>3. Len(wire) >= 1 /\ f = wire[1]
      BY <1>1, <2>1
    <2>. QED
      BY <2>1, <2>2, <2>3
  <1>3. f.base >= 1 /\ f.base <= f.seq /\ Had(got, f.base - 1) /\ f.seq \in Nat /\ f.base \in Nat
    BY <1>1, <1>2 DEF GbnInv, Based
  <1>4. \/ accept(f) = "Deliver" /\ known' = TRUE /\ wm' = f.seq /\ got' = Append(got, f.seq)
        \/ accept(f) # "Deliver" /\ UNCHANGED <<known, wm, got>>
    BY DEF ReceiveFrame
  <1>5. (acks' = Append(acks, a) /\ a > 0) \/ acks' = acks
    BY DEF ReceiveFrame
  <1>6. UNCHANGED <<pending, next_seq, cursor, deferred, evictions>>
    BY DEF ReceiveFrame, sender
  <1>7. accept(f) = "Deliver" => IF known THEN f.seq = wm + 1 ELSE f.seq = f.base
    BY DEF accept
  <1>8. a = IF accept(f) = "Deliver" THEN f.seq ELSE IF known THEN wm ELSE 0
    BY DEF ack_for
  <1>. HIDE DEF f, a
  <1>9. a \in Nat
    BY <1>1, <1>3, <1>8
  <1>10. GbnTypes'
    <2>1. known' \in BOOLEAN /\ wm' \in Nat /\ got' \in Seq(Nat)
      <3>1. Append(got, f.seq) \in Seq(Nat)
        BY <1>1, <1>3, AppendProperties
      <3>. QED
        BY <1>1, <1>3, <1>4, <3>1
    <2>2. acks' \in Seq(Nat)
      <3>1. Append(acks, a) \in Seq(Nat)
        BY <1>1, <1>9, AppendProperties, Zenon
      <3>. QED
        BY <1>1, <1>5, <3>1
    <2>. QED
      BY <1>2, <1>6, <2>1, <2>2 DEF GbnInv, GbnTypes
  <1>11. \A c : Had(got, c) => Had(got', c)
    BY <1>3, <1>4, <1>10, HadGrows DEF GbnInv
  <1>12. ASSUME accept(f) = "Deliver" PROVE Had(got', f.seq)
    <2>1. \A n \in Range(got) : n \in Range(got')
      BY <1>1, <1>3, <1>4, <1>12, RangeOfAppend
    <2>2. f.seq \in Range(got')
      BY <1>1, <1>3, <1>4, <1>12, RangeOfAppend
    <2>3. Had(got, f.seq - 1)
      BY SMTT(30), <1>1, <1>3, <1>7, <1>12 DEF GbnInv, Covered
    <2>. QED
      BY <1>3, <2>1, <2>2, <2>3 DEF Had
  <1>13. Had(got', a)
    <2>1. CASE accept(f) = "Deliver"
      BY <1>8, <1>12, <2>1
    <2>2. CASE accept(f) # "Deliver" /\ known
      BY <1>8, <1>11, <2>2 DEF GbnInv, Covered
    <2>3. CASE accept(f) # "Deliver" /\ ~known
      BY <1>8, <2>3 DEF Had
    <2>. QED
      BY <2>1, <2>2, <2>3
  <1>14. Covered'
    <2>1. Had(got', next_seq' - Len(pending') - 1) /\ Had(got', deferred')
      BY <1>6, <1>11 DEF GbnInv, Covered
    <2>2. \A i \in 1..Len(acks') : Had(got', acks'[i])
      <3>. SUFFICES ASSUME NEW i \in 1..Len(acks') PROVE Had(got', acks'[i])
        OBVIOUS
      <3>1. acks'[i] = a \/ (i \in 1..Len(acks) /\ acks'[i] = acks[i])
        <4>1. CASE acks' = Append(acks, a)
          <5>1. /\ acks'[Len(acks) + 1] = a /\ \A j \in 1..Len(acks) : acks'[j] = acks[j]
                /\ \A j \in 1..Len(acks') : j \in 1..Len(acks) \/ j = Len(acks) + 1
            BY <1>1, <1>9, <4>1, AppendOne
          <5>. QED
            BY <5>1
        <4>. QED
          BY <1>5, <4>1
      <3>. QED
        BY <1>11, <1>13, <3>1 DEF GbnInv, Covered
    <2>3. known' => Had(got', wm')
      BY <1>4, <1>11, <1>12 DEF GbnInv, Covered
    <2>. QED
      BY <2>1, <2>2, <2>3 DEF Covered
  <1>15. Based'
    <2>. SUFFICES ASSUME NEW i \in 1..Len(wire')
                  PROVE  /\ wire'[i].base >= 1 /\ wire'[i].base <= wire'[i].seq
                         /\ Had(got', wire'[i].base - 1)
      BY DEF Based
    <2>1. i + 1 \in 1..Len(wire) /\ wire'[i] = wire[i + 1]
      BY <1>1, <1>2
    <2>2. /\ wire[i + 1].base >= 1 /\ wire[i + 1].base <= wire[i + 1].seq
          /\ Had(got, wire[i + 1].base - 1)
      BY <2>1 DEF GbnInv, Based
    <2>. QED
      BY <1>11, <2>1, <2>2
  <1>16. Counts'
    <2>. SUFFICES ASSUME evictions = 0, accept(f) = "Deliver" PROVE Counts'
      BY <1>4, <1>6 DEF GbnInv, Counts
    <2>1. /\ got = [i \in 1..Len(got) |-> i] /\ IF known THEN wm = Len(got) ELSE got = <<>>
      BY DEF GbnInv, Counts
    <2>2. f.seq = Len(got) + 1
      <3>1. CASE known
        BY <1>7, <2>1, <3>1
      <3>2. CASE ~known
        <4>1. got = <<>> /\ Len(got) = 0 /\ Range(got) = {} /\ f.seq = f.base
          <5>1. got = <<>> /\ f.seq = f.base
            BY <1>7, <2>1, <3>2
          <5>2. Range(got) = {}
            BY <1>1, <5>1, RangeOfAppend
          <5>. QED
            BY <5>1, <5>2
        <4>2. f.base - 1 \notin 1..(f.base - 1)
          BY <1>3, <4>1 DEF Had
        <4>. QED
          BY <1>3, <4>1, <4>2
      <3>. QED
        BY <3>1, <3>2
    <2>3. /\ Len(got') = Len(got) + 1 /\ got' \in Seq(Nat)
          /\ \A i \in 1..Len(got') : got'[i] = i
      <3>1. got' = Append(got, f.seq) /\ got' \in Seq(Nat) /\ Len(got') = Len(got) + 1
            /\ got'[Len(got) + 1] = Len(got) + 1 /\ \A i \in 1..Len(got) : got'[i] = got[i]
        <4>1. got' = Append(got, f.seq)
          BY <1>4
        <4>2. /\ got' \in Seq(Nat) /\ Len(got') = Len(got) + 1 /\ got'[Len(got) + 1] = f.seq
              /\ \A i \in 1..Len(got) : got'[i] = got[i]
          BY <1>1, <1>3, <4>1, AppendOne
        <4>. QED
          BY <2>2, <4>2
      <3>2. \A i \in 1..Len(got) : got[i] = i
        BY <2>1
      <3>3. \A i \in 1..(Len(got) + 1) : i \in 1..Len(got) \/ i = Len(got) + 1
        BY <1>1
      <3>. QED
        BY <3>1, <3>2, <3>3
    <2>4. got' = [i \in 1..Len(got') |-> i]
      BY <2>3
    <2>. QED
      BY <1>4, <2>2, <2>3, <2>4 DEF Counts
  <1>. QED
    BY <1>6, <1>10, <1>14, <1>15, <1>16 DEF GbnInv
-----------------------------------------------------------------------------
THEOREM GbnInvariant == GbnSpec => []GbnInv
  <1>1. GbnInit => GbnInv
    <2>. SUFFICES ASSUME GbnInit PROVE GbnInv
      OBVIOUS
    <2>1. Had(got, 0)
      BY DEF Had
    <2>. USE DEF GbnInit
    <2>5. Len(pending) = 0 /\ Len(wire) = 0 /\ Len(acks) = 0 /\ Len(got) = 0
      OBVIOUS
    <2>6. GbnTypes
      <3>1. /\ pending \in Seq(Nat) /\ acks \in Seq(Nat) /\ got \in Seq(Nat)
            /\ wire \in Seq([seq : Nat, base : Nat])
        OBVIOUS
      <3>2. /\ next_seq \in Nat /\ cursor \in Nat /\ deferred \in Nat /\ known \in BOOLEAN
            /\ wm \in Nat /\ evictions \in Nat
        OBVIOUS
      <3>. QED
        BY <3>1, <3>2 DEF GbnTypes
    <2>2. GbnTypes /\ Consecutive(pending, next_seq) /\ Based
      BY <2>5, <2>6 DEF Consecutive, Based
    <2>3. Covered
      <3>1. next_seq - Len(pending) - 1 = 0 /\ deferred = 0 /\ Len(acks) = 0 /\ ~known
        <4>1. next_seq = 1 /\ deferred = 0 /\ ~known
          OBVIOUS
        <4>. HIDE DEF GbnInit
        <4>. QED
          BY ONLY <2>5, <4>1
      <3>. QED
        BY <2>1, <3>1 DEF Covered
    <2>4. Counts
      <3>1. ~known /\ got = <<>> /\ Len(got) = 0
        BY DEF GbnInit
      <3>2. got = [i \in 1..Len(got) |-> i]
        BY <3>1
      <3>. QED
        BY <3>1, <3>2 DEF Counts
    <2>. QED
      BY <2>2, <2>3, <2>4 DEF GbnInv
  <1>2. GbnInv /\ [GbnNext]_gbnVars => GbnInv'
    <2>1. GbnInv /\ UNCHANGED gbnVars => GbnInv'
      BY DEF gbnVars, sender, receiver, GbnInv, GbnTypes, Consecutive, Covered, Based, Counts, Had
    <2>. QED
      BY <2>1, EnqueueKeeps, PumpBeginKeeps, PumpSendKeeps, PumpEndKeeps, OnAckKeeps,
         ReceiveKeeps, EvictKeeps DEF GbnNext
  <1>. QED
    BY <1>1, <1>2, PTL DEF GbnSpec

\* While the receiver remembers the sender, it hands out each frame once and in
\* order, whatever is re-sent or lost (ReliableReceiver::accept).
THEOREM InOrderOnceHolds == GbnSpec => []InOrderOnce
  <1>1. GbnInv => InOrderOnce
    BY DEF GbnInv, Counts, InOrderOnce
  <1>. QED
    BY <1>1, GbnInvariant, PTL

\* A frame leaves the sender's queue only when the application has it, evictions
\* of the receiver's table included (ReliableSender::on_ack, pump).
THEOREM AckedWasDeliveredHolds == GbnSpec => []AckedWasDelivered
  <1>1. GbnInv => AckedWasDelivered
    <2>. SUFFICES ASSUME GbnInv, NEW n \in 1..(next_seq - 1), n \notin Range(got)
                  PROVE  n \in Range(pending)
      BY DEF AckedWasDelivered
    <2>1. /\ pending \in Seq(Nat) /\ Len(pending) \in Nat /\ next_seq \in Nat
          /\ \A i \in 1..Len(pending) : pending[i] = next_seq - Len(pending) + i - 1
          /\ DOMAIN pending = 1..Len(pending)
      BY DEF GbnInv, GbnTypes, Consecutive
    <2>2. n > next_seq - Len(pending) - 1
      BY <2>1 DEF GbnInv, Covered, Had
    <2>. DEFINE i == n - (next_seq - Len(pending)) + 1
    <2>3. i \in 1..Len(pending) /\ pending[i] = n
      BY <2>1, <2>2
    <2>. QED
      BY <2>1, <2>3 DEF Range
  <1>. QED
    BY <1>1, GbnInvariant, PTL

\* The receiver waits for a frame that the sender still has, as long as its
\* bounded table kept the sender: no later frame is re-sent for ever as a gap.
THEOREM NeverStuckHolds == GbnSpec => []NeverStuckWhileKnown
  <1>1. GbnInv => NeverStuckWhileKnown
    <2>. SUFFICES ASSUME GbnInv, evictions = 0, known, pending # <<>>
                  PROVE  Head(pending) <= wm + 1
      BY DEF NeverStuckWhileKnown, NeverStuck
    <2>1. /\ pending \in Seq(Nat) /\ Len(pending) >= 1 /\ Len(pending) \in Nat /\ next_seq \in Nat
          /\ Head(pending) = pending[1] /\ wm \in Nat /\ got \in Seq(Nat)
      BY DEF GbnInv, GbnTypes
    <2>2. Len(pending) < next_seq /\ pending[1] = next_seq - Len(pending) + 1 - 1
      BY <2>1 DEF GbnInv, Consecutive
    <2>3. \A n \in Range(got) : n \in 1..wm
      BY <2>1 DEF GbnInv, Counts, Range
    <2>4. \A n \in 1..(next_seq - Len(pending) - 1) : n \in Range(got)
      BY DEF GbnInv, Covered, Had
    <2>. DEFINE n == next_seq - Len(pending) - 1
    <2>5. n \in Nat /\ Head(pending) = n + 1
      BY <2>1, <2>2
    <2>. HIDE DEF n
    <2>6. n >= 1 => n \in 1..wm
      <3>1. n >= 1 => n \in 1..n
        BY <2>5
      <3>. QED
        BY <2>3, <2>4, <3>1 DEF n
    <2>. QED
      BY <2>1, <2>5, <2>6
  <1>. QED
    BY <1>1, GbnInvariant, PTL

-----------------------------------------------------------------------------
(* The lease. A lease is counted from a real time that no clock shows, so   *)
(* the invariant says that there is one for each reply and each belief.     *)

\* What the clock of n shows at the real time t.
At(n, t) == (t * (DriftEvery + rate[n] - 1)) \div DriftEvery

Grants(h) == {m \in net : m.t = "grant" /\ m.h = h}

LeaseTypes ==
    /\ rate \in [Clocks -> {0, 2}] /\ fence \in Nat
    /\ arb \in [holder : Holders \cup {0}, term : Nat, expiry : Nat, quiet : Nat]
    /\ hold \in [Holders -> [token : Nat, until : Int, out : BOOLEAN, id : Nat, sent : Nat]]
    /\ net \subseteq [t : {"request", "grant"}, h : Holders, id : Nat, term : Nat]
    /\ real \in [now : Nat, restarts : Nat, sent : Nat]

\* The arbiter's view: its holder has the last term, and it looks ahead no
\* further than one lease.
Arbiter == /\ arb.holder # 0 => arb.term = fence /\ fence # 0
           /\ arb.expiry <= clock[0] + Duration /\ arb.quiet <= clock[0] + Duration

\* A term was granted to one holder only, and a token came with a grant.
Terms == /\ \A m \in net : m.id <= hold[m.h].id
         /\ \A h \in Holders : \A m \in Grants(h) : 1 <= m.term /\ m.term <= fence
         /\ \A h, k \in Holders : \A m \in Grants(h), l \in Grants(k) : m.term = l.term => h = k
         /\ arb.holder # 0 => \A h \in Holders : \A m \in Grants(h) : m.term = fence => h = arb.holder
         /\ \A h \in Holders : hold[h].token # 0 => \E m \in Grants(h) : m.term = hold[h].token

\* A lease of h counted from the real time s: by the arbiter's clock it is over,
\* or it is the last one granted and the arbiter waits for its end.
Stands(h, s, term) ==
    \/ At(0, s) + Duration <= clock[0]
    \/ /\ term = fence
       /\ \/ arb.holder = h /\ At(0, s) + Duration <= arb.expiry
          \/ At(0, s) + Duration <= arb.quiet

\* Such a lease stands behind each answer to the latest request, and behind
\* what a holder believes.
Answers == \A h \in Holders : \E s \in 0..real.now :
               /\ hold[h].sent = At(h, s)
               /\ \A m \in Grants(h) : m.id = hold[h].id => Stands(h, s, m.term)
Beliefs == \A h \in Holders : hold[h].token # 0 =>
               \E s \in 0..real.now : /\ hold[h].until = At(h, s) + Duration - margin
                                      /\ Stands(h, s, hold[h].token)

LeaseInv == LeaseTypes /\ Arbiter /\ Terms /\ Answers /\ Beliefs

LEMMA Quotient ==
  ASSUME NEW a \in Nat, NEW b \in Nat \ {0}
  PROVE  /\ a \div b \in Nat
         /\ b * (a \div b) <= a /\ a < b * (a \div b) + b
  OBVIOUS

LEMMA Multiples ==
  ASSUME NEW a \in Int, NEW b \in Int, NEW c \in Nat, a <= b
  PROVE  a * c <= b * c /\ c * a <= c * b
  OBVIOUS

\* A clock reads the real time times its rate, rounded down.
LEMMA ClockBounds ==
  ASSUME LeaseTypes, NEW n \in Clocks, NEW t \in Nat
  PROVE  /\ At(n, t) \in Nat
         /\ t * (DriftEvery - 1) <= t * (DriftEvery + rate[n] - 1)
         /\ t * (DriftEvery + rate[n] - 1) <= t * (DriftEvery + 1)
         /\ DriftEvery * At(n, t) <= t * (DriftEvery + rate[n] - 1)
         /\ t * (DriftEvery + rate[n] - 1) < DriftEvery * At(n, t) + DriftEvery
  <1>. DEFINE k == DriftEvery + rate[n] - 1
  <1>1. /\ k \in Nat /\ DriftEvery - 1 <= k /\ k <= DriftEvery + 1
        /\ DriftEvery \in Nat \ {0}
    BY LeaseAssumption DEF LeaseTypes
  <1>2. At(n, t) = (t * k) \div DriftEvery
    BY DEF At
  <1>. HIDE DEF k
  <1>3. t * k \in Nat
    BY <1>1
  <1>4. /\ At(n, t) \in Nat /\ DriftEvery * At(n, t) <= t * k
        /\ t * k < DriftEvery * At(n, t) + DriftEvery
    BY <1>1, <1>2, <1>3, Quotient
  <1>5. t * (DriftEvery - 1) <= t * k /\ t * k <= t * (DriftEvery + 1)
    BY <1>1, Multiples
  <1>. QED
    BY <1>4, <1>5 DEF k

LEMMA ClockGrows ==
  ASSUME LeaseTypes, NEW n \in Clocks, NEW s \in Nat, NEW t \in Nat, s <= t
  PROVE  At(n, s) <= At(n, t)
  <1>. DEFINE k == DriftEvery + rate[n] - 1
  <1>1. k \in Nat /\ DriftEvery \in Nat \ {0}
    BY LeaseAssumption DEF LeaseTypes
  <1>2. /\ At(n, s) \in Nat /\ At(n, t) \in Nat
        /\ DriftEvery * At(n, s) <= s * k /\ t * k < DriftEvery * At(n, t) + DriftEvery
    BY ClockBounds
  <1>. HIDE DEF k
  <1>3. s * k <= t * k
    BY <1>1, Multiples
  <1>4. s * k \in Nat /\ t * k \in Nat /\ DriftEvery * At(n, s) \in Nat /\ DriftEvery * At(n, t) \in Nat
    BY <1>1, <1>2
  <1>. SUFFICES ASSUME At(n, t) + 1 <= At(n, s) PROVE FALSE
    BY <1>2
  <1>5. DriftEvery * (At(n, t) + 1) <= DriftEvery * At(n, s)
    BY <1>1, <1>2, Multiples
  <1>6. DriftEvery * (At(n, t) + 1) = DriftEvery * At(n, t) + DriftEvery
    BY <1>1, <1>2
  <1>. QED
    BY <1>1, <1>2, <1>3, <1>4, <1>5, <1>6

\* The margin covers the drift: a lease that its holder's clock still grants has
\* not run out on the arbiter's.
LEMMA MarginCoversDrift ==
  ASSUME LeaseTypes, NEW h \in Holders, NEW s \in Nat, NEW t \in Nat, s <= t,
         At(h, t) < At(h, s) + Duration - margin
  PROVE  At(0, t) < At(0, s) + Duration
  <1>. DEFINE d == DriftEvery
              e == t - s
              g == Duration
              q == (2 * Duration) \div DriftEvery
              a == At(h, t)
              b == At(h, s)
              x == At(0, t)
              y == At(0, s)
              k == d + rate[h] - 1
              k0 == d + rate[0] - 1
  <1>1. /\ d \in Nat \ {0} /\ e \in Nat /\ g \in Nat /\ h \in Clocks /\ 0 \in Clocks
        /\ rate[h] \in {0, 2} /\ rate[0] \in {0, 2}
    BY LeaseAssumption DEF LeaseTypes, Clocks
  <1>2. a \in Nat /\ b \in Nat /\ x \in Nat /\ y \in Nat
    BY <1>1, ClockBounds
  <1>3. q \in Nat /\ 2 * g < d * q + d /\ margin = q + 2
    BY <1>1, Quotient DEF margin
  <1>4. t * k < d * a + d /\ d * b <= s * k
    BY <1>1, ClockBounds
  <1>5. d * x <= t * k0 /\ s * k0 < d * y + d
    BY <1>1, ClockBounds
  <1>6. a - b <= g - q - 3
    BY <1>1, <1>2, <1>3
  <1>7. k \in Nat /\ k0 \in Nat /\ d - 1 <= k /\ k0 <= d + 1
    BY <1>1
  <1>8. t = s + e
    BY <1>1
  <1>. HIDE DEF d, e, g, q, a, b, x, y, k, k0
  <1>9. t * k - s * k = e * k /\ t * k0 - s * k0 = e * k0
    BY <1>1, <1>7, <1>8
  <1>10. e * (d - 1) <= e * k /\ e * k0 <= e * (d + 1)
    BY <1>1, <1>7, Multiples
  <1>11. d * (a - b) <= d * (g - q - 3)
    BY <1>1, <1>2, <1>3, <1>6, Multiples
  <1>12. /\ d * (a - b) = d * a - d * b /\ d * (g - q - 3) = d * g - d * q - 3 * d
         /\ d * (x - y) = d * x - d * y
    BY <1>1, <1>2, <1>3
  <1>13. /\ t * k \in Int /\ s * k \in Int /\ t * k0 \in Int /\ s * k0 \in Int /\ e * k \in Int
         /\ e * k0 \in Int /\ e * (d - 1) \in Int /\ e * (d + 1) \in Int
         /\ d * a \in Int /\ d * b \in Int /\ d * x \in Int /\ d * y \in Int /\ d * g \in Int
         /\ d * q \in Int /\ e * d \in Int
    BY <1>1, <1>2, <1>3, <1>7
  <1>14. e * (d - 1) < d * g - 2 * g - d
    BY <1>1, <1>3, <1>4, <1>9, <1>10, <1>11, <1>12, <1>13
  <1>15. e < g
    <2>. SUFFICES ASSUME g <= e PROVE FALSE
      BY <1>1
    <2>1. g * (d - 1) <= e * (d - 1) /\ g * (d - 1) = d * g - g
      BY <1>1, Multiples
    <2>. QED
      BY <1>1, <1>13, <1>14, <2>1
  <1>16. e * (d + 1) = e * (d - 1) + 2 * e
    BY <1>1
  <1>17. d * x - d * y < d * g
    BY <1>1, <1>5, <1>9, <1>10, <1>13, <1>14, <1>15, <1>16
  <1>18. x - y < g
    <2>. SUFFICES ASSUME g <= x - y PROVE FALSE
      BY <1>1, <1>2
    <2>1. d * g <= d * (x - y)
      BY <1>1, <1>2, Multiples
    <2>. QED
      BY <1>12, <1>13, <1>17, <2>1
  <1>. QED
    BY <1>1, <1>2, <1>18 DEF x, y, g

LEMMA ClockIs == \A n \in Clocks : clock[n] = At(n, real.now) /\ clock'[n] = At(n, real.now)'
  BY DEF clock, At

\* Time does not end a step's leases too early: with the same arbiter they stand.
LEMMA StandsWhileUnchanged ==
  ASSUME LeaseTypes, LeaseTypes', UNCHANGED <<rate, arb, fence>>, real.now <= real.now',
         NEW h \in Holders, NEW s \in Nat, NEW term, Stands(h, s, term)
  PROVE  Stands(h, s, term)'
  <1>1. 0 \in Clocks /\ real.now \in Nat /\ real.now' \in Nat
    BY DEF Clocks, LeaseTypes
  <1>2. At(0, s)' = At(0, s) /\ At(0, real.now)' = At(0, real.now') /\ At(0, s) \in Nat
    BY <1>1, ClockBounds DEF At
  <1>3. At(0, real.now) <= At(0, real.now') /\ At(0, real.now) \in Nat /\ At(0, real.now') \in Nat
    BY <1>1, ClockGrows, ClockBounds
  <1>4. clock[0] <= clock'[0] /\ clock[0] \in Nat /\ clock'[0] \in Nat
    BY <1>1, <1>2, <1>3, ClockIs
  <1>. QED
    BY <1>2, <1>4, LeaseAssumption DEF Stands

LEMMA TickKeeps == LeaseInv /\ Tick => LeaseInv'
  <1>. SUFFICES ASSUME LeaseInv, Tick PROVE LeaseInv'
    OBVIOUS
  <1>1. /\ UNCHANGED <<rate, arb, hold, net, fence>> /\ real \in [now : Nat, restarts : Nat, sent : Nat]
        /\ real' = [real EXCEPT !.now = @ + 1]
    BY DEF Tick, LeaseInv, LeaseTypes
  <1>2. real' \in [now : Nat, restarts : Nat, sent : Nat] /\ real'.now = real.now + 1 /\ real.now \in Nat
    BY <1>1
  <1>3. LeaseTypes'
    BY <1>1, <1>2 DEF LeaseInv, LeaseTypes
  <1>4. \A h \in Holders, s \in Nat : \A term : Stands(h, s, term) => Stands(h, s, term)'
    BY <1>1, <1>2, <1>3, StandsWhileUnchanged DEF LeaseInv
  <1>5. \A n \in Clocks, t \in Nat : At(n, t)' = At(n, t)
    BY <1>1 DEF At
  <1>6. clock[0] <= clock'[0] /\ clock[0] \in Nat /\ clock'[0] \in Nat
    <2>1. 0 \in Clocks /\ At(0, real.now)' = At(0, real.now + 1)
      BY <1>1, <1>2 DEF At, Clocks
    <2>. QED
      BY <1>2, <2>1, ClockIs, ClockGrows, ClockBounds DEF LeaseInv
  <1>7. Arbiter'
    BY <1>1, <1>6, LeaseAssumption DEF LeaseInv, LeaseTypes, Arbiter
  <1>8. Terms'
    BY <1>1 DEF LeaseInv, Terms, Grants
  <1>9. \A s \in 0..real.now : s \in 0..real'.now /\ s \in Nat
    BY <1>2
  <1>10. \A h \in Holders : h \in Clocks
    BY DEF Clocks
  <1>11. Answers'
    <2>. SUFFICES ASSUME NEW h \in Holders
                  PROVE  \E s \in 0..real'.now :
                            /\ hold[h].sent = At(h, s)'
                            /\ \A m \in Grants(h) : m.id = hold[h].id => Stands(h, s, m.term)'
      BY <1>1 DEF Answers, Grants
    <2>1. PICK s \in 0..real.now :
            /\ hold[h].sent = At(h, s)
            /\ \A m \in Grants(h) : m.id = hold[h].id => Stands(h, s, m.term)
      BY DEF LeaseInv, Answers
    <2>. QED
      BY <1>4, <1>5, <1>9, <1>10, <2>1
  <1>12. Beliefs'
    <2>. SUFFICES ASSUME NEW h \in Holders, hold[h].token # 0
                  PROVE  \E s \in 0..real'.now :
                            /\ hold[h].until = At(h, s)' + Duration - margin
                            /\ Stands(h, s, hold[h].token)'
      BY <1>1 DEF Beliefs, margin
    <2>1. PICK s \in 0..real.now :
            /\ hold[h].until = At(h, s) + Duration - margin
            /\ Stands(h, s, hold[h].token)
      BY DEF LeaseInv, Beliefs
    <2>2. Stands(h, s, hold[h].token)'
      BY <1>1, <1>4, <1>9, <2>1
    <2>. QED
      BY <1>5, <1>9, <1>10, <2>1, <2>2
  <1>. QED
    BY <1>3, <1>7, <1>8, <1>11, <1>12 DEF LeaseInv

LEMMA RequestKeeps == ASSUME NEW h \in Holders, LeaseInv, Request(h) PROVE LeaseInv'
  <1>. DEFINE r == [hold[h] EXCEPT !.out = TRUE, !.id = @ + 1, !.sent = clock[h]]
              x == [t |-> "request", h |-> h, id |-> hold[h].id + 1, term |-> 0]
  <1>1. /\ UNCHANGED <<rate, arb, fence>> /\ real' = [real EXCEPT !.sent = @ + 1]
        /\ hold' = [hold EXCEPT ![h] = r] /\ net' = net \cup {x}
    BY DEF Request
  <1>2. /\ real \in [now : Nat, restarts : Nat, sent : Nat]
        /\ hold \in [Holders -> [token : Nat, until : Int, out : BOOLEAN, id : Nat, sent : Nat]]
        /\ \A k \in Holders : k \in Clocks
    BY DEF LeaseInv, LeaseTypes, Clocks
  <1>3. clock[h] \in Nat /\ clock[h] = At(h, real.now) /\ real.now \in Nat
    BY <1>2, ClockIs, ClockBounds DEF LeaseInv
  <1>4. /\ real' \in [now : Nat, restarts : Nat, sent : Nat] /\ real'.now = real.now
    BY <1>1, <1>2
  <1>5. /\ r \in [token : Nat, until : Int, out : BOOLEAN, id : Nat, sent : Nat]
        /\ r.token = hold[h].token /\ r.until = hold[h].until
        /\ r.id = hold[h].id + 1 /\ r.sent = clock[h] /\ hold[h].id \in Nat
    <2>1. hold[h] \in [token : Nat, until : Int, out : BOOLEAN, id : Nat, sent : Nat]
      BY <1>2
    <2>2. /\ r.token = hold[h].token /\ r.until = hold[h].until
          /\ r.id = hold[h].id + 1 /\ r.sent = clock[h] /\ hold[h].id \in Nat
      BY <2>1
    <2>3. hold[h].id + 1 \in Nat
      BY <2>2
    <2>4. r \in [token : Nat, until : Int, out : BOOLEAN, id : Nat, sent : Nat]
      BY <1>3, <2>1, <2>3
    <2>. QED
      BY <2>2, <2>4
  <1>6. /\ x \in [t : {"request", "grant"}, h : Holders, id : Nat, term : Nat]
        /\ x.t # "grant" /\ x.h = h /\ x.id = hold[h].id + 1
    BY <1>5
  <1>. HIDE DEF r, x
  <1>7. hold'[h] = r /\ \A k \in Holders \ {h} : hold'[k] = hold[k]
    BY <1>1, <1>2
  <1>8. LeaseTypes'
    BY <1>1, <1>2, <1>4, <1>5, <1>6 DEF LeaseInv, LeaseTypes
  <1>9. \A k \in Holders : Grants(k)' = Grants(k)
    BY <1>1, <1>6 DEF Grants
  <1>10. \A k \in Holders, s \in Nat : \A term : Stands(k, s, term) => Stands(k, s, term)'
    BY <1>1, <1>3, <1>4, <1>8, StandsWhileUnchanged DEF LeaseInv
  <1>11. \A n \in Clocks, t \in Nat : At(n, t)' = At(n, t)
    BY <1>1 DEF At
  <1>12. Arbiter'
    <2>1. 0 \in Clocks /\ clock'[0] = clock[0]
      BY <1>3, <1>4, <1>11, ClockIs DEF Clocks
    <2>. QED
      BY <1>1, <2>1 DEF LeaseInv, Arbiter
  <1>13. Terms'
    <2>1. \A m \in net' : m.id <= hold'[m.h].id
      <3>. SUFFICES ASSUME NEW m \in net' PROVE m.id <= hold'[m.h].id
        OBVIOUS
      <3>1. CASE m = x
        BY <1>5, <1>6, <1>7, <3>1
      <3>2. CASE m \in net
        <4>1. m.h \in Holders /\ m.id \in Nat /\ m.id <= hold[m.h].id
          BY <3>2 DEF LeaseInv, LeaseTypes, Terms
        <4>. QED
          BY <1>5, <1>7, <4>1
      <3>. QED
        BY <1>1, <3>1, <3>2
    <2>2. \A k \in Holders : hold'[k].token = hold[k].token
      BY <1>5, <1>7
    <2>. QED
      BY <1>1, <1>9, <2>1, <2>2 DEF LeaseInv, Terms
  <1>14. Answers'
    <2>. SUFFICES ASSUME NEW k \in Holders
                  PROVE  \E s \in 0..real'.now :
                            /\ hold'[k].sent = At(k, s)'
                            /\ \A m \in Grants(k) : m.id = hold'[k].id => Stands(k, s, m.term)'
      BY <1>9 DEF Answers
    <2>1. CASE k = h
      <3>1. \A m \in Grants(h) : m.id # hold'[h].id
        <4>. SUFFICES ASSUME NEW m \in Grants(h) PROVE m.id # hold[h].id + 1
          BY <1>5, <1>7
        <4>1. m.id \in Nat /\ m.id <= hold[h].id
          BY DEF Grants, LeaseInv, LeaseTypes, Terms
        <4>. QED
          BY <1>5, <4>1
      <3>2. PICK s \in Nat : s = real.now
        BY <1>3
      <3>3. hold'[h].sent = At(h, s)
        BY <1>3, <1>5, <1>7, <3>2
      <3>4. At(h, s)' = At(h, s) /\ s \in 0..real'.now
        BY <1>2, <1>4, <1>11, <3>2
      <3>. QED
        BY <2>1, <3>1, <3>3, <3>4
    <2>2. CASE k # h
      <3>1. PICK s \in 0..real.now :
              /\ hold[k].sent = At(k, s)
              /\ \A m \in Grants(k) : m.id = hold[k].id => Stands(k, s, m.term)
        BY DEF LeaseInv, Answers
      <3>2. s \in Nat /\ s \in 0..real'.now /\ hold'[k] = hold[k]
        BY <1>3, <1>4, <1>7, <2>2
      <3>. QED
        BY <1>2, <1>10, <1>11, <3>1, <3>2
    <2>. QED
      BY <2>1, <2>2
  <1>15. Beliefs'
    <2>. SUFFICES ASSUME NEW k \in Holders, hold'[k].token # 0
                  PROVE  \E s \in 0..real'.now :
                            /\ hold'[k].until = At(k, s)' + Duration - margin
                            /\ Stands(k, s, hold[k].token)'
      BY DEF Beliefs, margin
    <2>1. hold'[k].token = hold[k].token /\ hold'[k].until = hold[k].until
      BY <1>5, <1>7
    <2>2. PICK s \in 0..real.now :
            /\ hold[k].until = At(k, s) + Duration - margin
            /\ Stands(k, s, hold[k].token)
      BY <2>1 DEF LeaseInv, Beliefs
    <2>. DEFINE tok == hold[k].token
    <2>3. s \in Nat /\ s \in 0..real'.now
      BY <1>3, <1>4
    <2>4. Stands(k, s, tok)'
      BY <1>10, <2>1, <2>2, <2>3 DEF Stands
    <2>. QED
      BY <1>2, <1>11, <2>1, <2>2, <2>3, <2>4
  <1>. QED
    BY <1>8, <1>12, <1>13, <1>14, <1>15 DEF LeaseInv

LEMMA ReplyKeeps == ASSUME NEW h \in Holders, LeaseInv, on_reply(h) PROVE LeaseInv'
  <1>1. PICK m \in net :
          /\ m.t = "grant" /\ m.h = h /\ m.id = hold[h].id
          /\ hold' = [hold EXCEPT ![h].out = FALSE,
                ![h].token = IF m.term >= @ /\ clock[h] < valid_until(h) THEN m.term ELSE @,
                ![h].until = IF m.term >= hold[h].token /\ clock[h] < valid_until(h)
                             THEN valid_until(h) ELSE @]
    BY DEF on_reply
  <1>. DEFINE r == hold'[h]
  <1>2. /\ real \in [now : Nat, restarts : Nat, sent : Nat] /\ real.now \in Nat
        /\ hold \in [Holders -> [token : Nat, until : Int, out : BOOLEAN, id : Nat, sent : Nat]]
        /\ hold[h] \in [token : Nat, until : Int, out : BOOLEAN, id : Nat, sent : Nat]
        /\ m.term \in Nat /\ \A k \in Holders : k \in Clocks
    BY <1>1 DEF LeaseInv, LeaseTypes, Clocks
  <1>3. UNCHANGED <<rate, arb, net, fence, real>>
    BY DEF on_reply
  <1>4. valid_until(h) \in Int /\ valid_until(h) = hold[h].sent + Duration - margin /\ margin \in Nat
    <2>1. margin \in Nat
      BY LeaseAssumption, Quotient DEF margin
    <2>. QED
      BY <1>2, <2>1, LeaseAssumption DEF valid_until, lease_from
  <1>5. /\ \/ r.token = hold[h].token /\ r.until = hold[h].until
           \/ r.token = m.term /\ r.until = valid_until(h)
        /\ r.id = hold[h].id /\ r.sent = hold[h].sent /\ r.out = FALSE
        /\ r \in [token : Nat, until : Int, out : BOOLEAN, id : Nat, sent : Nat]
        /\ \A k \in Holders \ {h} : hold'[k] = hold[k]
        /\ hold' = [k \in Holders |-> hold'[k]]
    <2>. DEFINE good == m.term >= hold[h].token /\ clock[h] < valid_until(h)
                tok == IF good THEN m.term ELSE hold[h].token
                unt == IF good THEN valid_until(h) ELSE hold[h].until
                n == [hold[h] EXCEPT !.out = FALSE, !.token = tok, !.until = unt]
    <2>1. hold' = [hold EXCEPT ![h] = n]
      BY <1>1, <1>2
    <2>2. n.token = tok /\ n.until = unt /\ n.id = hold[h].id /\ n.sent = hold[h].sent /\ n.out = FALSE
      BY <1>2
    <2>3. /\ \/ tok = hold[h].token /\ unt = hold[h].until
             \/ tok = m.term /\ unt = valid_until(h)
          /\ tok \in Nat /\ unt \in Int
      BY <1>2, <1>4
    <2>5. n \in [token : Nat, until : Int, out : BOOLEAN, id : Nat, sent : Nat]
      <3>. HIDE DEF tok, unt
      <3>. QED
        BY <1>2, <2>3
    <2>. HIDE DEF n, tok, unt
    <2>4. /\ hold'[h] = n /\ \A k \in Holders \ {h} : hold'[k] = hold[k]
          /\ hold' = [k \in Holders |-> hold'[k]]
      BY <1>2, <2>1
    <2>. QED
      BY <2>2, <2>3, <2>4, <2>5
  <1>. HIDE DEF r
  <1>6. LeaseTypes'
    <2>1. hold' \in [Holders -> [token : Nat, until : Int, out : BOOLEAN, id : Nat, sent : Nat]]
      BY <1>2, <1>5 DEF r
    <2>. QED
      BY <1>3, <2>1 DEF LeaseInv, LeaseTypes
  <1>7. \A k \in Holders : Grants(k)' = Grants(k)
    BY <1>3 DEF Grants
  <1>8. \A k \in Holders, s \in Nat : \A term : Stands(k, s, term) => Stands(k, s, term)'
    BY <1>2, <1>3, <1>6, StandsWhileUnchanged DEF LeaseInv
  <1>9. \A n \in Clocks, t \in Nat : At(n, t)' = At(n, t)
    BY <1>3 DEF At
  <1>10. \A k \in Holders : hold'[k].id = hold[k].id /\ hold'[k].sent = hold[k].sent
    BY <1>5 DEF r
  <1>11. Arbiter'
    <2>1. 0 \in Clocks /\ clock'[0] = clock[0]
      BY <1>2, <1>3, <1>9, ClockIs DEF Clocks
    <2>. QED
      BY <1>3, <2>1 DEF LeaseInv, Arbiter
  <1>12. Terms'
    <2>1. \A l \in net : l.id <= hold'[l.h].id
      <3>. SUFFICES ASSUME NEW l \in net PROVE l.id <= hold'[l.h].id
        OBVIOUS
      <3>1. l.h \in Holders /\ l.id <= hold[l.h].id
        BY DEF LeaseInv, LeaseTypes, Terms
      <3>. QED
        BY <1>10, <3>1
    <2>2. \A k \in Holders : hold'[k].token # 0 => \E l \in Grants(k) : l.term = hold'[k].token
      <3>1. m \in Grants(h)
        BY <1>1 DEF Grants
      <3>. QED
        BY <1>5, <3>1 DEF LeaseInv, Terms, r
    <2>. QED
      BY <1>3, <1>7, <2>1, <2>2 DEF LeaseInv, Terms
  <1>13. Answers'
    <2>. SUFFICES ASSUME NEW k \in Holders
                  PROVE  \E s \in 0..real.now :
                            /\ hold[k].sent = At(k, s)'
                            /\ \A l \in Grants(k) : l.id = hold[k].id => Stands(k, s, l.term)'
      BY <1>3, <1>7, <1>10 DEF Answers
    <2>1. PICK s \in 0..real.now :
            /\ hold[k].sent = At(k, s)
            /\ \A l \in Grants(k) : l.id = hold[k].id => Stands(k, s, l.term)
      BY DEF LeaseInv, Answers
    <2>2. s \in Nat
      BY <1>2
    <2>. QED
      BY <1>2, <1>8, <1>9, <2>1, <2>2
  <1>14. Beliefs'
    <2>. SUFFICES ASSUME NEW k \in Holders, NEW term, term = hold'[k].token, term # 0
                  PROVE  \E s \in 0..real.now :
                            /\ hold'[k].until = At(k, s)' + Duration - margin
                            /\ Stands(k, s, term)'
      BY <1>3 DEF Beliefs, margin
    <2>1. CASE k = h /\ r.token = m.term /\ r.until = valid_until(h)
      <3>1. PICK s \in 0..real.now :
              /\ hold[h].sent = At(h, s)
              /\ \A l \in Grants(h) : l.id = hold[h].id => Stands(h, s, l.term)
        BY DEF LeaseInv, Answers
      <3>2. Stands(h, s, m.term) /\ s \in Nat
        BY <1>1, <1>2, <3>1 DEF Grants
      <3>3. Stands(h, s, term)'
        <4>1. term = m.term
          BY <2>1 DEF r
        <4>. QED
          BY <1>8, <3>2, <4>1
      <3>4. hold'[h].until = At(h, s)' + Duration - margin
        BY <1>2, <1>4, <1>9, <2>1, <3>1, <3>2 DEF r
      <3>. QED
        BY <2>1, <3>3, <3>4
    <2>2. CASE hold'[k].token = hold[k].token /\ hold'[k].until = hold[k].until
      <3>1. PICK s \in 0..real.now :
              /\ hold[k].until = At(k, s) + Duration - margin
              /\ Stands(k, s, hold[k].token)
        BY <2>2 DEF LeaseInv, Beliefs
      <3>2. s \in Nat /\ Stands(k, s, term)
        BY <1>2, <2>2, <3>1
      <3>. QED
        BY <1>2, <1>8, <1>9, <2>2, <3>1, <3>2
    <2>. QED
      BY <1>5, <2>1, <2>2 DEF r
  <1>. QED
    BY <1>6, <1>11, <1>12, <1>13, <1>14 DEF LeaseInv

\* A grant is for the caller of the last term, and only when the arbiter has
\* waited for every lease of another.
LEMMA GrantKeeps == ASSUME NEW h \in Holders, LeaseInv, on_request(h) PROVE LeaseInv'
  <1>1. PICK m \in net :
          /\ m.t = "request" /\ m.h = h /\ ~refused(h)
          /\ IF arb.holder = h
             THEN /\ arb' = [arb EXCEPT !.expiry = clock[0] + Duration]
                  /\ Grant(h, m.id, arb.term) /\ UNCHANGED fence
             ELSE /\ fence' = fence + 1
                  /\ arb' = [arb EXCEPT !.holder = h, !.term = fence + 1,
                                        !.expiry = clock[0] + Duration]
                  /\ Grant(h, m.id, fence + 1)
    BY DEF on_request
  <1>2. UNCHANGED <<rate, hold, real>>
    BY DEF on_request
  <1>3. /\ real.now \in Nat /\ fence \in Nat /\ arb.holder \in Holders \cup {0} /\ arb.term \in Nat
        /\ arb.expiry \in Nat /\ arb.quiet \in Nat /\ m.id \in Nat /\ Duration \in Nat /\ 0 \notin Holders
        /\ arb \in [holder : Holders \cup {0}, term : Nat, expiry : Nat, quiet : Nat]
        /\ 0 \in Clocks /\ \A k \in Holders : k \in Clocks
    BY LeaseAssumption DEF LeaseInv, LeaseTypes, Clocks
  <1>4. clock[0] = At(0, real.now) /\ clock[0] \in Nat /\ clock'[0] = clock[0]
    <2>1. At(0, real.now)' = At(0, real.now)
      BY <1>2 DEF At
    <2>. QED
      BY <1>3, <2>1, ClockIs, ClockBounds DEF LeaseInv
  <1>5. \A n \in Clocks, t \in Nat : At(n, t)' = At(n, t) /\ At(n, t) \in Nat
    BY <1>2, ClockBounds DEF At, LeaseInv
  <1>. DEFINE x == [t |-> "grant", h |-> h, id |-> m.id, term |-> fence']
  <1>6. /\ arb'.holder = h /\ arb'.term = fence' /\ arb'.expiry = clock[0] + Duration
        /\ arb'.quiet = arb.quiet /\ fence' \in Nat /\ fence' >= 1 /\ net' = net \cup {x}
        /\ arb' \in [holder : Holders \cup {0}, term : Nat, expiry : Nat, quiet : Nat]
        /\ (arb.holder = h /\ fence' = fence) \/ (arb.holder # h /\ fence' = fence + 1)
    <2>1. CASE arb.holder = h
      <3>1. /\ arb' = [arb EXCEPT !.expiry = clock[0] + Duration]
            /\ fence' = fence /\ arb.term = fence /\ fence # 0
        BY <1>1, <1>3, <2>1 DEF LeaseInv, Arbiter
      <3>2. net' = net \cup {x}
        BY <1>1, <2>1, <3>1 DEF Grant
      <3>3. /\ arb'.holder = h /\ arb'.term = fence' /\ arb'.expiry = clock[0] + Duration
            /\ arb'.quiet = arb.quiet
        BY <1>3, <2>1, <3>1
      <3>4. arb' \in [holder : Holders \cup {0}, term : Nat, expiry : Nat, quiet : Nat]
        BY <1>3, <1>4, <3>1
      <3>. QED
        BY <1>3, <2>1, <3>1, <3>2, <3>3, <3>4
    <2>2. CASE arb.holder # h
      <3>1. /\ arb' = [arb EXCEPT !.holder = h, !.term = fence + 1, !.expiry = clock[0] + Duration]
            /\ fence' = fence + 1
        BY <1>1, <2>2
      <3>2. net' = net \cup {x}
        BY <1>1, <2>2, <3>1 DEF Grant
      <3>3. /\ arb'.holder = h /\ arb'.term = fence' /\ arb'.expiry = clock[0] + Duration
            /\ arb'.quiet = arb.quiet
        BY <1>3, <3>1
      <3>4. arb' \in [holder : Holders \cup {0}, term : Nat, expiry : Nat, quiet : Nat]
        <4>1. fence + 1 \in Nat /\ clock[0] + Duration \in Nat /\ h \in Holders \cup {0}
          BY <1>3, <1>4
        <4>. QED
          BY <1>3, <3>1, <4>1
      <3>. QED
        BY <1>3, <2>2, <3>1, <3>2, <3>3, <3>4
    <2>. QED
      BY <2>1, <2>2
  <1>7. x.t = "grant" /\ x.h = h /\ x.id = m.id /\ x.term = fence'
    OBVIOUS
  <1>8. x \in [t : {"request", "grant"}, h : Holders, id : Nat, term : Nat]
    BY <1>3, <1>6
  <1>. HIDE DEF x
  <1>9. LeaseTypes'
    BY <1>2, <1>6, <1>8 DEF LeaseInv, LeaseTypes
  <1>10. /\ clock[0] >= arb.quiet
         /\ arb.holder # 0 /\ arb.holder # h => clock[0] >= arb.expiry
    BY <1>1, <1>3, <1>4 DEF refused
  <1>11. \A k \in Holders, s \in Nat : \A term : Stands(k, s, term) => Stands(k, s, term)'
    <2>. SUFFICES ASSUME NEW k \in Holders, NEW s \in Nat, NEW term, Stands(k, s, term)
                  PROVE  Stands(k, s, term)'
      OBVIOUS
    <2>1. At(0, s)' = At(0, s) /\ At(0, s) \in Nat
      BY <1>3, <1>5
    <2>2. CASE At(0, s) + Duration <= clock[0] \/ At(0, s) + Duration <= arb.quiet
      <3>1. At(0, s) + Duration <= clock[0]
        BY <1>3, <1>4, <1>10, <2>1, <2>2
      <3>. QED
        BY <1>4, <2>1, <3>1 DEF Stands
    <2>3. CASE term = fence /\ arb.holder = k /\ At(0, s) + Duration <= arb.expiry
      <3>1. CASE k = h
        <4>1. fence' = fence /\ arb.expiry <= clock[0] + Duration
          BY <1>3, <1>6, <2>3, <3>1 DEF LeaseInv, Arbiter
        <4>2. At(0, s) + Duration <= arb'.expiry
          BY <1>3, <1>4, <1>6, <2>1, <2>3, <4>1
        <4>. QED
          BY <1>6, <2>1, <2>3, <3>1, <4>1, <4>2 DEF Stands
      <3>2. CASE k # h
        <4>1. At(0, s) + Duration <= clock[0]
          BY <1>3, <1>4, <1>10, <2>1, <2>3, <3>2
        <4>. QED
          BY <1>4, <2>1, <4>1 DEF Stands
      <3>. QED
        BY <3>1, <3>2
    <2>. QED
      BY <2>2, <2>3 DEF Stands
  <1>12. Arbiter'
    BY <1>3, <1>4, <1>6 DEF LeaseInv, Arbiter
  <1>13. Grants(h)' = Grants(h) \cup {x} /\ \A k \in Holders \ {h} : Grants(k)' = Grants(k)
    BY <1>6, <1>7 DEF Grants
  <1>14. \A k \in Holders : \A l \in Grants(k) : l \in net /\ l.term \in Nat /\ 1 <= l.term /\ l.term <= fence
    BY DEF Grants, LeaseInv, LeaseTypes, Terms
  <1>15. \A k \in Holders : \A l \in Grants(k) : l.term = fence' => k = h
    BY <1>3, <1>6, <1>14 DEF LeaseInv, Terms
  <1>16. Terms'
    <2>1. \A l \in net' : l.id <= hold'[l.h].id
      BY <1>1, <1>2, <1>6, <1>7 DEF LeaseInv, Terms
    <2>2. \A k \in Holders : \A l \in Grants(k)' : 1 <= l.term /\ l.term <= fence'
      <3>. SUFFICES ASSUME NEW k \in Holders, NEW l \in Grants(k)' PROVE 1 <= l.term /\ l.term <= fence'
        OBVIOUS
      <3>1. l = x \/ l \in Grants(k)
        BY <1>13
      <3>. QED
        BY <1>3, <1>6, <1>7, <1>14, <3>1
    <2>3. \A j, k \in Holders : \A l \in Grants(j)', o \in Grants(k)' : l.term = o.term => j = k
      <3>. SUFFICES ASSUME NEW j \in Holders, NEW k \in Holders, NEW l \in Grants(j)', NEW o \in Grants(k)',
                           l.term = o.term
                    PROVE  j = k
        OBVIOUS
      <3>1. l \in Grants(j) \/ (j = h /\ l = x)
        BY <1>13
      <3>2. o \in Grants(k) \/ (k = h /\ o = x)
        BY <1>13
      <3>3. CASE l \in Grants(j) /\ o \in Grants(k)
        BY <3>3 DEF LeaseInv, Terms
      <3>. QED
        BY <1>7, <1>15, <3>1, <3>2, <3>3
    <2>4. \A k \in Holders : \A l \in Grants(k)' : l.term = fence' => k = arb'.holder
      BY <1>6, <1>13, <1>15
    <2>5. \A k \in Holders : hold'[k].token # 0 => \E l \in Grants(k)' : l.term = hold'[k].token
      BY <1>2, <1>13 DEF LeaseInv, Terms
    <2>. QED
      BY <2>1, <2>2, <2>3, <2>4, <2>5 DEF Terms
  <1>17. Answers'
    <2>. SUFFICES ASSUME NEW k \in Holders
                  PROVE  \E s \in 0..real.now :
                            /\ hold[k].sent = At(k, s)'
                            /\ \A l \in Grants(k)' : l.id = hold[k].id => Stands(k, s, l.term)'
      BY <1>2 DEF Answers
    <2>1. PICK s \in 0..real.now :
            /\ hold[k].sent = At(k, s)
            /\ \A l \in Grants(k) : l.id = hold[k].id => Stands(k, s, l.term)
      BY DEF LeaseInv, Answers
    <2>2. s \in Nat /\ s <= real.now
      BY <1>3
    <2>3. CASE k = h
      <3>1. \A term : term = fence' => Stands(h, s, term)'
        <4>1. At(0, s) <= clock[0] /\ At(0, s) \in Nat /\ At(0, s)' = At(0, s)
          BY SMTT(30), <1>3, <1>4, <1>5, <2>2, ClockGrows DEF LeaseInv
        <4>2. At(0, s)' + Duration <= arb'.expiry
          BY <1>3, <1>4, <1>6, <4>1
        <4>. QED
          BY <1>6, <4>2 DEF Stands
      <3>2. \A l \in Grants(h)' : l.id = hold[h].id => Stands(h, s, l.term)'
        <4>. SUFFICES ASSUME NEW l \in Grants(h)', l.id = hold[h].id PROVE Stands(h, s, l.term)'
          OBVIOUS
        <4>1. CASE l = x
          BY <1>7, <3>1, <4>1
        <4>2. CASE l \in Grants(h)
          BY <1>11, <2>1, <2>2, <2>3, <4>2
        <4>. QED
          BY <1>13, <4>1, <4>2
      <3>. QED
        BY <1>3, <1>5, <2>1, <2>2, <2>3, <3>2
    <2>4. CASE k # h
      BY <1>3, <1>5, <1>11, <1>13, <2>1, <2>2, <2>4
    <2>. QED
      BY <2>3, <2>4
  <1>18. Beliefs'
    <2>. SUFFICES ASSUME NEW k \in Holders, NEW term, term = hold[k].token, term # 0
                  PROVE  \E s \in 0..real.now :
                            /\ hold[k].until = At(k, s)' + Duration - margin
                            /\ Stands(k, s, term)'
      BY <1>2 DEF Beliefs, margin
    <2>1. PICK s \in 0..real.now :
            /\ hold[k].until = At(k, s) + Duration - margin
            /\ Stands(k, s, hold[k].token)
      BY DEF LeaseInv, Beliefs
    <2>2. s \in Nat
      BY <1>3
    <2>. QED
      BY <1>3, <1>5, <1>11, <2>1, <2>2
  <1>. QED
    BY <1>9, <1>12, <1>16, <1>17, <1>18 DEF LeaseInv

\* After a restart the arbiter waits for any lease it may have granted.
LEMMA RestartKeeps == LeaseInv /\ restart => LeaseInv'
  <1>. SUFFICES ASSUME LeaseInv, restart PROVE LeaseInv'
    OBVIOUS
  <1>1. /\ UNCHANGED <<rate, hold, net, fence>> /\ real' = [real EXCEPT !.restarts = @ + 1]
        /\ arb' = [arb EXCEPT !.holder = 0, !.quiet = clock[0] + Duration]
    BY DEF restart, quiet_until
  <1>2. /\ real \in [now : Nat, restarts : Nat, sent : Nat] /\ real.now \in Nat
        /\ arb \in [holder : Holders \cup {0}, term : Nat, expiry : Nat, quiet : Nat]
        /\ arb.expiry \in Nat /\ arb.quiet \in Nat /\ Duration \in Nat
        /\ 0 \in Clocks /\ \A k \in Holders : k \in Clocks
    BY LeaseAssumption DEF LeaseInv, LeaseTypes, Clocks
  <1>3. real' \in [now : Nat, restarts : Nat, sent : Nat] /\ real'.now = real.now
    BY <1>1, <1>2
  <1>4. \A n \in Clocks, t \in Nat : At(n, t)' = At(n, t) /\ At(n, t) \in Nat
    BY <1>1, ClockBounds DEF At, LeaseInv
  <1>5. clock[0] = At(0, real.now) /\ clock[0] \in Nat /\ clock'[0] = clock[0]
    BY <1>2, <1>3, <1>4, ClockIs
  <1>6. /\ arb'.holder = 0 /\ arb'.quiet = clock[0] + Duration /\ arb'.expiry = arb.expiry
    BY <1>1, <1>2
  <1>7. LeaseTypes'
    <2>1. arb' \in [holder : Holders \cup {0}, term : Nat, expiry : Nat, quiet : Nat]
      <3>1. clock[0] + Duration \in Nat
        BY <1>2, <1>5
      <3>. QED
        BY <1>1, <1>2, <3>1
    <2>. QED
      BY <1>1, <1>3, <2>1 DEF LeaseInv, LeaseTypes
  <1>8. arb.expiry <= clock[0] + Duration /\ arb.quiet <= clock[0] + Duration
    BY DEF LeaseInv, Arbiter
  <1>9. Arbiter'
    BY <1>2, <1>5, <1>6, <1>8 DEF Arbiter
  <1>10. \A k \in Holders : Grants(k)' = Grants(k)
    BY <1>1 DEF Grants
  <1>11. \A k \in Holders, s \in Nat : \A term : Stands(k, s, term) => Stands(k, s, term)'
    <2>. SUFFICES ASSUME NEW k \in Holders, NEW s \in Nat, NEW term, Stands(k, s, term)
                  PROVE  Stands(k, s, term)'
      OBVIOUS
    <2>1. At(0, s)' = At(0, s) /\ At(0, s) \in Nat
      BY <1>2, <1>4
    <2>2. CASE At(0, s) + Duration <= clock[0]
      BY <1>5, <2>1, <2>2 DEF Stands
    <2>3. CASE term = fence /\ (At(0, s) + Duration <= arb.expiry \/ At(0, s) + Duration <= arb.quiet)
      <3>1. At(0, s) + Duration <= arb'.quiet
        BY <1>2, <1>5, <1>6, <1>8, <2>1, <2>3
      <3>. QED
        BY <1>1, <2>1, <2>3, <3>1 DEF Stands
    <2>. QED
      BY <2>2, <2>3 DEF Stands
  <1>12. Terms'
    BY <1>1, <1>6, <1>10 DEF LeaseInv, Terms
  <1>13. Answers'
    <2>. SUFFICES ASSUME NEW k \in Holders
                  PROVE  \E s \in 0..real.now :
                            /\ hold[k].sent = At(k, s)'
                            /\ \A l \in Grants(k) : l.id = hold[k].id => Stands(k, s, l.term)'
      BY <1>1, <1>3, <1>10 DEF Answers
    <2>1. PICK s \in 0..real.now :
            /\ hold[k].sent = At(k, s)
            /\ \A l \in Grants(k) : l.id = hold[k].id => Stands(k, s, l.term)
      BY DEF LeaseInv, Answers
    <2>2. s \in Nat
      BY <1>2
    <2>. QED
      BY <1>2, <1>4, <1>11, <2>1, <2>2
  <1>14. Beliefs'
    <2>. SUFFICES ASSUME NEW k \in Holders, NEW term, term = hold[k].token, term # 0
                  PROVE  \E s \in 0..real.now :
                            /\ hold[k].until = At(k, s)' + Duration - margin
                            /\ Stands(k, s, term)'
      BY <1>1, <1>3 DEF Beliefs, margin
    <2>1. PICK s \in 0..real.now :
            /\ hold[k].until = At(k, s) + Duration - margin
            /\ Stands(k, s, hold[k].token)
      BY DEF LeaseInv, Beliefs
    <2>2. s \in Nat
      BY <1>2
    <2>. QED
      BY <1>2, <1>4, <1>11, <2>1, <2>2
  <1>. QED
    BY <1>7, <1>9, <1>12, <1>13, <1>14 DEF LeaseInv
-----------------------------------------------------------------------------
THEOREM LeaseInvariant == LeaseSpec => []LeaseInv
  <1>1. LeaseInit => LeaseInv
    <2>. SUFFICES ASSUME LeaseInit PROVE LeaseInv
      OBVIOUS
    <2>1. LeaseTypes
      BY DEF LeaseInit, LeaseTypes
    <2>2. /\ arb.holder = 0 /\ arb.expiry = 0 /\ arb.quiet = 0 /\ net = {} /\ real.now = 1
          /\ \A h \in Holders : hold[h].sent = 0 /\ hold[h].token = 0
          /\ 0 \in Clocks /\ \A h \in Holders : h \in Clocks
      BY DEF LeaseInit, Clocks
    <2>3. Arbiter
      <3>1. clock[0] \in Nat /\ Duration \in Nat
        BY <2>1, <2>2, ClockIs, ClockBounds, LeaseAssumption
      <3>. QED
        BY <2>2, <3>1 DEF Arbiter
    <2>4. Terms /\ Beliefs /\ \A h \in Holders : Grants(h) = {}
      BY <2>2 DEF Terms, Beliefs, Grants
    <2>5. Answers
      <3>1. \A h \in Holders : At(h, 0) = 0
        <4>. SUFFICES ASSUME NEW h \in Holders PROVE At(h, 0) = 0
          OBVIOUS
        <4>1. /\ At(h, 0) \in Nat /\ DriftEvery * At(h, 0) <= 0 * (DriftEvery + rate[h] - 1)
              /\ DriftEvery \in Nat \ {0} /\ rate[h] \in {0, 2}
          BY <2>1, <2>2, ClockBounds, LeaseAssumption DEF LeaseTypes
        <4>2. DriftEvery * At(h, 0) <= 0
          BY <4>1
        <4>3. ASSUME At(h, 0) >= 1 PROVE FALSE
          <5>1. DriftEvery * 1 <= DriftEvery * At(h, 0)
            BY <4>1, <4>3, Multiples
          <5>. QED
            BY <4>1, <4>2, <5>1
        <4>. QED
          BY <4>1, <4>3
      <3>2. 0 \in 0..real.now
        BY <2>2
      <3>. QED
        BY <2>2, <2>4, <3>1, <3>2 DEF Answers
    <2>. QED
      BY <2>1, <2>3, <2>4, <2>5 DEF LeaseInv
  <1>2. LeaseInv /\ [LeaseNext]_leaseVars => LeaseInv'
    <2>1. LeaseInv /\ UNCHANGED leaseVars => LeaseInv'
      <3>. SUFFICES ASSUME LeaseInv, UNCHANGED leaseVars PROVE LeaseInv'
        OBVIOUS
      <3>. USE DEF leaseVars
      <3>1. LeaseTypes' /\ Arbiter' /\ Terms'
        BY DEF LeaseInv, LeaseTypes, Arbiter, Terms, Grants, clock
      <3>2. \A h, s, term : Stands(h, s, term)' = Stands(h, s, term) /\ At(h, s)' = At(h, s)
        BY DEF Stands, At, clock
      <3>3. Answers' /\ Beliefs'
        BY <3>2 DEF LeaseInv, Answers, Beliefs, Grants
      <3>. QED
        BY <3>1, <3>3 DEF LeaseInv
    <2>. QED
      BY <2>1, TickKeeps, RestartKeeps, RequestKeeps, ReplyKeeps, GrantKeeps DEF LeaseNext
  <1>. QED
    BY <1>1, <1>2, PTL DEF LeaseSpec

\* At no real time do two holders believe that they lead, and the one that does
\* has the last term the store issued: for any number of holders, any lease and
\* any drift bound, with replies that are late or repeated and an arbiter that
\* restarts (LeaseHolder::on_reply, LeaseArbiter::on_request, restart).
THEOREM OneLeaderHolds == LeaseSpec => []OneLeader
  <1>1. LeaseInv => OneLeader
    <2>. SUFFICES ASSUME LeaseInv PROVE OneLeader
      OBVIOUS
    <2>1. ASSUME NEW h \in Holders, believes_leader(h) PROVE hold[h].token = fence
      <3>1. hold[h].token # 0 /\ clock[h] < hold[h].until
        BY <2>1 DEF believes_leader
      <3>2. PICK s \in 0..real.now :
              hold[h].until = At(h, s) + Duration - margin /\ Stands(h, s, hold[h].token)
        BY <3>1 DEF LeaseInv, Beliefs
      <3>3. /\ s \in Nat /\ real.now \in Nat /\ s <= real.now /\ h \in Clocks /\ 0 \in Clocks
            /\ Duration \in Nat
        BY LeaseAssumption DEF LeaseInv, LeaseTypes, Clocks
      <3>4. At(h, real.now) < At(h, s) + Duration - margin
        BY <3>1, <3>2, <3>3, ClockIs
      <3>5. At(0, real.now) < At(0, s) + Duration
        BY <3>3, <3>4, MarginCoversDrift DEF LeaseInv
      <3>6. At(0, s) \in Nat /\ At(0, real.now) \in Nat /\ clock[0] = At(0, real.now)
        BY <3>3, ClockBounds, ClockIs DEF LeaseInv
      <3>7. ~(At(0, s) + Duration <= clock[0])
        BY <3>3, <3>5, <3>6
      <3>. QED
        BY <3>2, <3>7 DEF Stands
    <2>2. LeaderHoldsLastTerm
      BY <2>1 DEF LeaderHoldsLastTerm
    <2>3. AtMostOneLeads
      <3>. SUFFICES ASSUME NEW h \in Holders, NEW k \in Holders, believes_leader(h), believes_leader(k)
                    PROVE  h = k
        BY DEF AtMostOneLeads
      <3>1. hold[h].token = fence /\ hold[k].token = fence /\ hold[h].token # 0 /\ hold[k].token # 0
        BY <2>1 DEF believes_leader
      <3>. QED
        BY <3>1 DEF LeaseInv, Terms
    <2>. QED
      BY <2>2, <2>3 DEF OneLeader
  <1>. QED
    BY <1>1, LeaseInvariant, PTL
=============================================================================
