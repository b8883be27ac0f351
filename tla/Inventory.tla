----------------------------- MODULE Inventory -----------------------------
(***************************************************************************)
(* applyInventoryMovement (database/inventory.utils.ts), the one function  *)
(* through which every service changes stock, called in a loop over a      *)
(* document's lines inside prisma.$transaction.  Requests run              *)
(* concurrently; every SQL statement that can wait for a row lock is a     *)
(* step.  A row's value is its ProductStock.quantity together with the     *)
(* InventoryMovement entries written for it: both are written under the    *)
(* same row lock and committed together.                                   *)
(***************************************************************************)
EXTENDS Integers, Sequences, ReadCommitted

CONSTANTS
    Document,   \* the sequences of lines requests are made with
    Opening     \* the quantities the rows start with

StockRow == Row
Delta == Int
Line == [row : StockRow, delta : Delta]

ASSUME DocumentAssumption == Document \subseteq Seq(Line)
ASSUME OpeningAssumption == Opening \in [StockRow -> Nat]

VARIABLES
    state,   \* state[t]: "idle", "running", "committed" or "failed"
    doc,     \* doc[t]: the lines of t's document
    next     \* next[t]: the line t is about to apply

vars == <<committed, pending, holder, state, doc, next>>

NoMoves == << >>

Init ==
    /\ DbInit([r \in StockRow |-> [quantity |-> Opening[r], moves |-> NoMoves]])
    /\ state = [t \in Tx |-> "idle"]
    /\ doc = [t \in Tx |-> << >>]
    /\ next = [t \in Tx |-> 1]

HasLine(t) == state[t] = "running" /\ next[t] <= Len(doc[t])
CurrentLine(t) == doc[t][next[t]]

\* The quantity the UPDATE finds, once it has the row's lock.
OnHand(t, r) == Sees(t, r).quantity

EnoughLessOne(t, line) == OnHand(t, line.row) + line.delta >= -1
EnoughUnchecked(t, line) == TRUE

\* updateMany's WHERE clause: quantity >= decrementBy.
Enough(t, line) == OnHand(t, line.row) + line.delta >= 0

MovedFromSnapshot(t, line) ==
    LET balance == committed[line.row].quantity + line.delta
    IN  [quantity |-> OnHand(t, line.row) + line.delta,
         moves |-> Append(Sees(t, line.row).moves,
                          [delta |-> line.delta, balanceAfter |-> balance, reference |-> t])]
MovedForgettingHistory(t, line) ==
    LET balance == OnHand(t, line.row) + line.delta
    IN  [quantity |-> balance,
         moves |-> Append(NoMoves, [delta |-> line.delta, balanceAfter |-> balance,
                                    reference |-> t])]

\* The row after a movement: balance_after is the quantity the statement left.
Moved(t, line) ==
    LET balance == OnHand(t, line.row) + line.delta
    IN  [quantity |-> balance,
         moves |-> Append(Sees(t, line.row).moves,
                          [delta |-> line.delta, balanceAfter |-> balance, reference |-> t])]

-----------------------------------------------------------------------------
(* Steps of a request. *)

Begin(t) ==
    /\ state[t] = "idle"
    /\ \E d \in Document : doc' = [doc EXCEPT ![t] = d]
    /\ state' = [state EXCEPT ![t] = "running"]
    /\ UNCHANGED <<dbVars, next>>

\* quantityDelta > 0: upsert with increment.
MoveIn(t) ==
    /\ HasLine(t)
    /\ CurrentLine(t).delta > 0
    /\ WriteRow(t, CurrentLine(t).row, Moved(t, CurrentLine(t)))
    /\ next' = [next EXCEPT ![t] = @ + 1]
    /\ UNCHANGED <<state, doc>>

\* quantityDelta < 0: conditional decrement that matched the row.
MoveOut(t) ==
    /\ HasLine(t)
    /\ CurrentLine(t).delta < 0
    /\ Enough(t, CurrentLine(t))
    /\ WriteRow(t, CurrentLine(t).row, Moved(t, CurrentLine(t)))
    /\ next' = [next EXCEPT ![t] = @ + 1]
    /\ UNCHANGED <<state, doc>>

\* The exception leaves the $transaction callback: nothing stays written.
Fail(t) ==
    /\ RollbackTx(t)
    /\ state' = [state EXCEPT ![t] = "failed"]
    /\ UNCHANGED <<doc, next>>

\* The delta is zero: refused before any statement.
RefuseZero(t) ==
    /\ HasLine(t)
    /\ CurrentLine(t).delta = 0
    /\ Fail(t)

\* The conditional decrement matched no row: "Insufficient stock".  A row
\* that does not match as committed is not waited for, even when locked.
Insufficient(t) ==
    /\ HasLine(t)
    /\ CurrentLine(t).delta < 0
    /\ ~Enough(t, CurrentLine(t))
    /\ Fail(t)

CommitBeforeLastLine(t) ==
    /\ state[t] = "running"
    /\ next[t] >= Len(doc[t])
    /\ CommitTx(t)
    /\ state' = [state EXCEPT ![t] = "committed"]
    /\ UNCHANGED <<doc, next>>

Commit(t) ==
    /\ state[t] = "running"
    /\ next[t] > Len(doc[t])
    /\ CommitTx(t)
    /\ state' = [state EXCEPT ![t] = "committed"]
    /\ UNCHANGED <<doc, next>>

-----------------------------------------------------------------------------
(* What the environment does to a running transaction. *)

\* The transaction times out, or the process or its connection dies.
Timeout(t) ==
    /\ state[t] = "running"
    /\ Fail(t)

\* t's next statement needs the lock of a row that u has written.
WaitsFor(t, u) ==
    /\ t # u
    /\ HasLine(t)
    /\ \/ CurrentLine(t).delta > 0
       \/ CurrentLine(t).delta < 0 /\ Enough(t, CurrentLine(t))
    /\ holder[CurrentLine(t).row] = u

DeadlockUndetected(t) == FALSE

\* The lock manager finds t on a cycle of waits and fails its statement.
DeadlockVictim(t) ==
    /\ OnCycle(t, WaitsFor)
    /\ Fail(t)

Step(t) ==
    \/ MoveIn(t) \/ MoveOut(t) \/ RefuseZero(t) \/ Insufficient(t)
    \/ Commit(t) \/ DeadlockVictim(t)

Next == \E t \in Tx : Begin(t) \/ Step(t) \/ Timeout(t)

Spec == Init /\ [][Next]_vars

\* A request that has begun keeps being served: node's event loop resumes it
\* when its statement returns, and the lock manager always breaks deadlocks.
\* Nothing obliges a client to make a request, or a transaction to time out.
FairSpec == Spec /\ \A t \in Tx : WF_vars(Step(t))

-----------------------------------------------------------------------------
Movement == [delta : Int, balanceAfter : Nat, reference : Tx]
RowValue == [quantity : Nat, moves : Seq(Movement)]

\* The shape of every variable: a row's columns and a request's progress, and
\* a lock is held exactly by the transaction with an uncommitted write on it.
TypeOK ==
    /\ DbTypeOK([r \in StockRow |-> RowValue])
    /\ state \in [Tx -> {"idle", "running", "committed", "failed"}]
    /\ doc \in [Tx -> Seq(Line)]
    /\ next \in [Tx -> Nat \ {0}]

\* A row's movements account for its quantity: they chain from the opening
\* stock, each balance_after is the previous one plus its delta, and the last
\* one is the quantity on hand.  This is what the stock ledger report shows.
Accounted(r, value) ==
    LET before(i) == IF i = 1 THEN Opening[r] ELSE value.moves[i - 1].balanceAfter
    IN  /\ \A i \in 1 .. Len(value.moves) :
              value.moves[i].balanceAfter = before(i) + value.moves[i].delta
        /\ value.quantity = before(Len(value.moves) + 1)

\* In whatever order concurrent requests commit, the movement history of every
\* row explains the quantity on hand (inventory.utils.ts:143-208).
LedgerExplainsStock == \A r \in StockRow : Accounted(r, committed[r])

\* No interleaving of sales, edits and receipts oversells a row: neither the
\* committed quantity nor any balance_after in the history is below zero
\* (the WHERE clause of inventory.utils.ts:166-176).
NeverOversold ==
    \A r \in StockRow :
        /\ committed[r].quantity >= 0
        /\ \A i \in 1 .. Len(committed[r].moves) : committed[r].moves[i].balanceAfter >= 0

\* moves continues earlier: every movement of earlier stands where it stood.
Continues(moves, earlier) ==
    /\ Len(moves) >= Len(earlier)
    /\ \A i \in 1 .. Len(earlier) : moves[i] = earlier[i]

\* The history is append-only: no step rewrites or removes a movement that
\* is on the books (there is no update or delete of InventoryMovement).
HistoryIsAppendOnly ==
    [][\A r \in StockRow : Continues(committed'[r].moves, committed[r].moves)]_vars

\* Documents that lock the same rows in opposite orders cannot block each
\* other for ever: every request that has begun commits or fails.
EveryRequestEnds ==
    \A t \in Tx : state[t] = "running" ~> state[t] \in {"committed", "failed"}

\* The detailed protocol implements the abstract ledger.
Abstract == INSTANCE StockLedger WITH
    stock <- [r \in StockRow |-> committed[r].quantity],
    outcome <- [t \in Tx |-> IF state[t] \in {"idle", "running"} THEN "open" ELSE state[t]]

ImplementsLedger == Abstract!Spec
=============================================================================
