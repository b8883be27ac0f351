------------------------------ MODULE Requests ------------------------------
(***************************************************************************)
(* Requests of several services at once, as their modules share them: each *)
(* request runs one operation on one document, statement by statement, in  *)
(* prisma.$transaction or outside it.  A service's module adds the rows it *)
(* keeps and the statements of its operations; its transactions post       *)
(* through Posting, and move stock through the rows defined here.          *)
(***************************************************************************)
EXTENDS Posting, FiniteSetsExt, Functions

\* One row with its value, and rows of f together with those of g that f has not:
\* as in TLC's module, whose definitions the provers do not see.
r :> value == [q \in {r} |-> value]
f @@ g ==
    [q \in DOMAIN f \cup DOMAIN g |-> IF q \in DOMAIN f THEN f[q] ELSE g[q]]

CONSTANTS
    Workload,  \* the operations that may run together: functions on Tx
    Shelf,     \* the (product, warehouse) pairs
    Opening,   \* Opening[p]: units on shelf p, the documents apart
    ShelfOf    \* ShelfOf[d]: the shelf of d's product in the warehouse d is made for

VARIABLES
    task,       \* task[t]: the operation of request t and its arguments
    read,       \* read[t]: what its later statements use of what it has read
    overlapped  \* the pairs of requests that were served at once (history)

vars == <<dbVars, postingVars, task, read, overlapped>>

Nothing == <<>>
Done == {"committed", "refused", "failed", "number_taken"}
Running(t) == pc[t] \notin {"idle"} \cup Done

RequestsInit(initial) ==
    /\ DbInit(initial)
    /\ task \in Workload
    /\ source = [t \in Tx |-> task[t].on]
    /\ PostingInit
    /\ read = [t \in Tx |-> Nothing]
    /\ overlapped = {}

\* t runs operation op, and its next statement is the named one.
At(t, op, statement) == pc[t] = statement /\ task[t].op = op

Reads(t, value, statement) ==
    /\ read' = [read EXCEPT ![t] = value]
    /\ Goto(t, statement)
    /\ UNCHANGED <<dbVars, locals, task>>

\* A read that decides what will be posted.
ReadsToPost(t, value, sum, statement) ==
    /\ read' = [read EXCEPT ![t] = value]
    /\ amount' = [amount EXCEPT ![t] = sum]
    /\ Goto(t, statement)
    /\ UNCHANGED <<dbVars, source, found, number, ruleActive, task>>

Writes(t, rows, statement) ==
    /\ WriteRows(t, rows)
    /\ Goto(t, statement)
    /\ UNCHANGED <<locals, task, read>>

\* Nothing is read of what a request has read once it is done.
Forget(t) == read' = [read EXCEPT ![t] = Nothing]

\* One statement outside a transaction.
Stores(t, rows, statement) ==
    /\ Autocommit(rows)
    /\ Goto(t, statement)
    /\ IF statement \in Done THEN Forget(t) ELSE UNCHANGED read
    /\ UNCHANGED <<locals, task>>

\* The last statement of a transaction, and its commit.
CommitsTo(t, rows, statement) ==
    /\ \A r \in DOMAIN rows : Lockable(t, r)
    /\ committed' = [r \in Row |-> IF r \in DOMAIN rows THEN rows[r] ELSE Sees(t, r)]
    /\ pending' = [pending EXCEPT ![t] = NoWrites]
    /\ holder' = Unlocked(t)
    /\ Goto(t, statement)
    /\ IF statement \in Done THEN Forget(t) ELSE UNCHANGED read
    /\ UNCHANGED <<locals, task>>

Ends(t, rows) == CommitsTo(t, rows, "committed")

\* An exception: the transaction, if there is one, is rolled back.
Throws(t, outcome) ==
    /\ Fail(t, outcome)
    /\ Forget(t)
    /\ UNCHANGED task

\* A timeout, a deadlock's victim, or the end of the process.
Abort(t) ==
    /\ Running(t)
    /\ Throws(t, "failed")

Posts(t) == PostingStep(t) /\ UNCHANGED <<task, read>>

\* Not a part of the code: remembers which requests ran at the same time.
Watch ==
    overlapped' = overlapped \cup
        {pair \in {{t, u} : t \in Tx, u \in Tx} :
            \E t, u \in pair : t # u /\ Running(t) /\ pc'[u] # pc[u]}

\* No two requests about documents of S ran at the same time.
Apart(S) ==
    \A pair \in overlapped : \E t \in pair : source[t] \notin S

\* Some request is to run one of these operations on d.
Edited(d, ops) == \E t \in Tx : source[t] = d /\ task[t].op \in ops

-----------------------------------------------------------------------------
(* The stock a document moves, through applyInventoryMovement. *)

\* The row of a shelf keeps the units each document has moved: stock and
\* movements are written together, under the stock row's lock.
Stock(p) == <<"stock", p>>
StockRows == {Stock(p) : p \in Shelf}
OnHand(p, moved) == Opening[p] + SumFunction(moved)

Shop(t) == ShelfOf[source[t]]
MovedBy(d) == committed[Stock(ShelfOf[d])][d]

Moved(t, p, delta) == [Sees(t, Stock(p)) EXCEPT ![source[t]] = @ + delta]
StockLeft(t, p, delta) == OnHand(p, Moved(t, p, delta)) >= 0

Shortage(t, p, delta) ==
    /\ Lockable(t, Stock(p))
    /\ ~StockLeft(t, p, delta)
    /\ Throws(t, "refused")
=============================================================================
