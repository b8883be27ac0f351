----------------------------- MODULE StockTakes -----------------------------
(***************************************************************************)
(* StockTakesService: one stock-take session of a warehouse, the requests  *)
(* that create, count, move and post it, and the life of the shop while it *)
(* is open.  Requests run concurrently; a step is an SQL statement that    *)
(* reads or locks shared rows.  Requests refused before writing are not    *)
(* steps.  The shelves are modelled beside the database: units are sold    *)
(* (both change), delivered (both change) or lost (only the shelf does).   *)
(***************************************************************************)
EXTENDS Integers, Sequences, FiniteSetsExt, ReadCommitted

CONSTANTS
    Order,         \* the products, in the order the session's lines are read
    Opening,       \* units of each product, on the shelf and in the books
    Threshold,     \* discrepancy_approval_threshold
    Requested,     \* the statuses clients ask updateStatus for
    MaxLost,       \* bound: units lost
    MaxDelivered,  \* bound: units delivered
    MaxAdjusted    \* bound: a post starts from stock adjusted upwards by so much at most

Product == {Order[i] : i \in 1 .. Len(Order)}

Session == <<"session">>
Voucher == <<"voucher">>
Line(p) == <<"line", p>>
Stock(p) == <<"stock", p>>

ASSUME RowAssumption ==
    Row = {Session, Voucher} \cup {Line(p) : p \in Product} \cup {Stock(p) : p \in Product}
ASSUME OrderAssumption ==
    /\ Len(Order) \in Nat
    /\ \A i, j \in 1 .. Len(Order) : Order[i] = Order[j] => i = j
ASSUME OpeningAssumption == Opening \in [Product -> Nat]

VARIABLES
    pc,         \* pc[t]: the statement request t is about to run
    todo,       \* todo[t]: the lines it has still to write
    seen,       \* seen[t]: the session as its first statement read it
    shelf,      \* shelf[p]: units of p physically there
    lost,       \* units that left the shelves unrecorded
    delivered,  \* units delivered and received
    overlapped  \* two requests were being served at once (history)

vars == <<committed, pending, holder, pc, todo, seen, shelf, lost, delivered, overlapped>>
requestVars == <<dbVars, pc, todo, seen>>
shopVars == <<shelf, lost, delivered>>

\* p is q, or its line is read before q's.
Before(p, q) == \E i, j \in 1 .. Len(Order) : i <= j /\ Order[i] = p /\ Order[j] = q

Uncounted == -1
Unread == [status |-> "absent", line |-> [p \in Product |-> [expected |-> 0, counted |-> Uncounted]]]

InitialRow(r) ==
    CASE r = Session -> "absent"
      [] r = Voucher -> 0
      [] \E p \in Product : r = Line(p) -> [expected |-> 0, counted |-> Uncounted]
      [] OTHER -> [quantity |-> Opening[CHOOSE p \in Product : r = Stock(p)], adjusted |-> 0]

Init ==
    /\ DbInit([r \in Row |-> InitialRow(r)])
    /\ pc = [t \in Tx |-> "idle"]
    /\ todo = [t \in Tx |-> {}]
    /\ seen = [t \in Tx |-> Unread]
    /\ shelf = Opening
    /\ lost = 0
    /\ delivered = 0
    /\ overlapped = FALSE

Status(t) == Sees(t, Session)
SessionRead(t) == [status |-> Status(t), line |-> [p \in Product |-> Sees(t, Line(p))]]

Goto(t, statement) == pc' = [pc EXCEPT ![t] = statement]

Finish(t) ==
    /\ Goto(t, "idle")
    /\ todo' = [todo EXCEPT ![t] = {}]
    /\ seen' = [seen EXCEPT ![t] = Unread]
    /\ UNCHANGED shopVars

-----------------------------------------------------------------------------
(* create *)

\* The expected quantities are the stock as the first statement reads it.
ReadStock(t) ==
    /\ pc[t] = "idle"
    /\ Status(t) = "absent"
    /\ seen' = [seen EXCEPT ![t].line =
                   [p \in Product |-> [expected |-> Sees(t, Stock(p)).quantity,
                                       counted |-> Uncounted]]]
    /\ Goto(t, "insert")
    /\ UNCHANGED <<dbVars, todo, shopVars>>

\* The session and its lines, new rows nobody can wait for, then the commit.
InsertSession(t) ==
    /\ pc[t] = "insert"
    /\ Status(t) = "absent"
    /\ \E status \in {"DRAFT", "COUNTING"} :
          Autocommit([r \in {Session} \cup {Line(p) : p \in Product} |->
                         IF r = Session THEN status
                         ELSE seen[t].line[CHOOSE p \in Product : r = Line(p)]])
    /\ Finish(t)

-----------------------------------------------------------------------------
(* updateCounts *)

Countable(status) == status \notin {"absent", "POSTED", "CANCELLED"}

\* The client counts some shelves, then sends what it found.
ReadForCounts(t) ==
    /\ pc[t] = "idle"
    /\ Countable(Status(t))
    /\ \E counted \in SUBSET Product \ {{}} :
          todo' = [todo EXCEPT ![t] = {[product |-> p, amount |-> shelf[p]] : p \in counted}]
    /\ seen' = [seen EXCEPT ![t] = SessionRead(t)]
    /\ Goto(t, "count")
    /\ UNCHANGED <<dbVars, shopVars>>

\* In the order the client sent them.
CountLine(t) ==
    /\ pc[t] = "count"
    /\ \E line \in todo[t] :
          /\ WriteRow(t, Line(line.product),
                      [expected |-> seen[t].line[line.product].expected, counted |-> line.amount])
          /\ todo' = [todo EXCEPT ![t] = @ \ {line}]
    /\ UNCHANGED <<pc, seen, shopVars>>

\* A session that was a draft is now being counted.
StartCounting(t) ==
    /\ pc[t] = "count"
    /\ todo[t] = {}
    /\ IF seen[t].status = "DRAFT"
       THEN WriteRow(t, Session, "COUNTING")
       ELSE UNCHANGED dbVars
    /\ Goto(t, "commit")
    /\ UNCHANGED <<todo, seen, shopVars>>

-----------------------------------------------------------------------------
(* updateStatus: a read and an update, each a statement of its own *)

StatusMayChange(status) == status \notin {"absent", "POSTED"}

ReadForStatus(t) ==
    /\ pc[t] = "idle"
    /\ StatusMayChange(Status(t))
    /\ Goto(t, "status")
    /\ UNCHANGED <<dbVars, todo, seen, shopVars>>

UpdateStatus(t) ==
    /\ pc[t] = "status"
    /\ \E status \in Requested : Autocommit([r \in {Session} |-> status])
    /\ Finish(t)

-----------------------------------------------------------------------------
(* post *)

Variance(line) == IF line.counted = Uncounted THEN 0 ELSE line.counted - line.expected
Abs(n) == IF n < 0 THEN -n ELSE n

Postable(session) ==
    /\ session.status \notin {"absent", "POSTED", "CANCELLED"}
    /\ \/ session.status = "REVIEW"
       \/ \A p \in Product : Abs(Variance(session.line[p])) <= Threshold

\* The lines that need a movement, an uncounted one being taken for empty.
AdjustmentsOfUncounted(session) ==
    LET missing(p) == IF session.line[p].counted = Uncounted THEN -session.line[p].expected
                      ELSE Variance(session.line[p])
    IN  {[product |-> p, amount |-> missing(p)] : p \in {q \in Product : missing(q) # 0}}

\* The lines that need a movement.
Adjustments(session) ==
    {[product |-> p, amount |-> Variance(session.line[p])] :
        p \in {q \in Product : Variance(session.line[q]) # 0}}

\* adjustmentAmount, every unit being worth one.
AdjustmentAmount(session) ==
    MapThenSumSet(LAMBDA p : Abs(Variance(session.line[p])), Product)

ReadForPost(t) ==
    /\ pc[t] = "idle"
    /\ \A p \in Product : Sees(t, Stock(p)).adjusted <= MaxAdjusted
    /\ Postable(SessionRead(t))
    /\ seen' = [seen EXCEPT ![t] = SessionRead(t)]
    /\ todo' = [todo EXCEPT ![t] = Adjustments(SessionRead(t))]
    /\ Goto(t, "adjust")
    /\ UNCHANGED <<dbVars, shopVars>>

Enough(t, line) == Sees(t, Stock(line.product)).quantity + line.amount >= 0

\* The stock row after a STOCK_TAKE_ADJUSTMENT.
StockSetToCount(t, line) ==
    [quantity |-> seen[t].line[line.product].counted,
     adjusted |-> Sees(t, Stock(line.product)).adjusted + line.amount]
StockAdjusted(t, line) ==
    [quantity |-> Sees(t, Stock(line.product)).quantity + line.amount,
     adjusted |-> Sees(t, Stock(line.product)).adjusted + line.amount]

\* The line to adjust next: they are taken in the session's order.
IsNext(t, line) ==
    /\ line \in todo[t]
    /\ \A other \in todo[t] : Before(line.product, other.product)

AdjustLine(t) ==
    /\ pc[t] = "adjust"
    /\ \E line \in todo[t] :
          /\ IsNext(t, line)
          /\ Enough(t, line)
          /\ WriteRow(t, Stock(line.product), StockAdjusted(t, line))
          /\ todo' = [todo EXCEPT ![t] = @ \ {line}]
    /\ UNCHANGED <<pc, seen, shopVars>>

MarkPosted(t) ==
    /\ pc[t] = "adjust"
    /\ todo[t] = {}
    /\ WriteRow(t, Session, "POSTED")
    /\ Goto(t, "account")
    /\ UNCHANGED <<todo, seen, shopVars>>

\* autoPostFromRules: one voucher per session, none for an amount of zero.
Account(t) ==
    /\ pc[t] = "account"
    /\ IF Sees(t, Voucher) = 0 /\ AdjustmentAmount(seen[t]) > 0
       THEN WriteRow(t, Voucher, AdjustmentAmount(seen[t]))
       ELSE UNCHANGED dbVars
    /\ Goto(t, "commit")
    /\ UNCHANGED <<todo, seen, shopVars>>

-----------------------------------------------------------------------------
(* The end of a transaction. *)

Commit(t) ==
    /\ pc[t] = "commit"
    /\ CommitTx(t)
    /\ Finish(t)

\* "Insufficient stock": units left since the lines were read.
Insufficient(t) ==
    /\ pc[t] = "adjust"
    /\ \E line \in todo[t] : IsNext(t, line) /\ ~Enough(t, line)
    /\ RollbackTx(t)
    /\ Finish(t)

\* A refusal, a timeout, a deadlock's victim, or the end of the process.
Abort(t) ==
    /\ pc[t] # "idle"
    /\ RollbackTx(t)
    /\ Finish(t)

-----------------------------------------------------------------------------
(* The shop, which keeps trading: sales and purchases through the inventory *)
(* module, and losses nobody records.                                       *)

MoveUnits(p, n) ==
    /\ Autocommit([r \in {Stock(p)} |->
                      [committed[Stock(p)] EXCEPT !.quantity = @ + n]])
    /\ shelf' = [shelf EXCEPT ![p] = @ + n]

Sell(p) ==
    /\ shelf[p] > 0
    /\ committed[Stock(p)].quantity > 0
    /\ MoveUnits(p, -1)
    /\ UNCHANGED <<pc, todo, seen, lost, delivered>>

Deliver(p) ==
    /\ delivered < MaxDelivered
    /\ MoveUnits(p, 1)
    /\ delivered' = delivered + 1
    /\ UNCHANGED <<pc, todo, seen, lost>>

Lose(p) ==
    /\ shelf[p] > 0
    /\ lost < MaxLost
    /\ shelf' = [shelf EXCEPT ![p] = @ - 1]
    /\ lost' = lost + 1
    /\ UNCHANGED <<requestVars, delivered>>

Request(t) ==
    \/ ReadStock(t) \/ InsertSession(t)
    \/ ReadForCounts(t) \/ CountLine(t) \/ StartCounting(t)
    \/ ReadForStatus(t) \/ UpdateStatus(t)
    \/ ReadForPost(t) \/ AdjustLine(t) \/ MarkPosted(t) \/ Account(t)
    \/ Commit(t) \/ Insufficient(t) \/ Abort(t)

Live ==
    \/ \E t \in Tx : Request(t)
    \/ \E p \in Product : Sell(p) \/ Deliver(p) \/ Lose(p)

\* Not a part of the code: remembers whether requests have ever overlapped.
Watch ==
    overlapped' = (overlapped \/ \E t, u \in Tx : t # u /\ "idle" \notin {pc'[t], pc'[u]})

Next == Live /\ Watch

Spec == Init /\ [][Next]_vars

-----------------------------------------------------------------------------
(* The tables, as anyone outside a transaction reads them. *)

SessionStatus == committed[Session]
OnHand(p) == committed[Stock(p)].quantity
Adjusted(p) == committed[Stock(p)].adjusted

\* Sales and posts that race on a stock row lose nothing: the books differ
\* from the shelves by the units lost and by the adjustments made, whatever
\* ran meanwhile (the deltas of stock-takes.service.ts:163-177).
BooksExplainShelves ==
    MapThenSumSet(LAMBDA p : OnHand(p) - Adjusted(p), Product)
        = MapThenSumSet(LAMBDA p : shelf[p], Product) + lost

-----------------------------------------------------------------------------
(* What holds as long as requests about a session do not overlap: its status  *)
(* is then a guard, and otherwise a stale read.                               *)

\* Stock is adjusted by exactly the variances of the lines of a posted session,
\* or not at all; once, whatever is counted or asked for afterwards (:158-183).
\* The second case covers a session that updateStatus was told to call POSTED.
PostedAsCounted ==
    ~overlapped =>
        \/ /\ SessionStatus = "POSTED"
           /\ \A p \in Product : Adjusted(p) = Variance(committed[Line(p)])
        \/ \A p \in Product : Adjusted(p) = 0
=============================================================================
