------------------------- MODULE WarehouseTransfers -------------------------
(***************************************************************************)
(* WarehouseTransfersService: one transfer between two warehouses, and the *)
(* create, send and receive requests that clients make about it.  Requests *)
(* run concurrently, each in a prisma.$transaction; a step is an SQL       *)
(* statement that reads or locks shared rows.  Requests that the service   *)
(* refuses before writing leave no trace and are not steps.                *)
(*                                                                         *)
(* Rows: the transfer's status; the source stock of each product; the      *)
(* units of each product received; and the number of fund_movement         *)
(* vouchers posted for the transfer.  The units received stand for both    *)
(* the destination's TRANSFER_IN movements and the item's                  *)
(* quantity_received, which receive writes one after the other with the    *)
(* stock row's lock held.                                                  *)
(***************************************************************************)
EXTENDS Integers, Sequences, ReadCommitted

CONSTANTS
    Product,
    Sent,       \* Sent[p]: the item's quantity_sent
    Opening,    \* Opening[p]: source stock before the transfer
    Receipt     \* the sequences of lines clients ask to receive

Transfer == <<"transfer">>
Voucher == <<"voucher">>
Source(p) == <<"source", p>>
Received(p) == <<"received", p>>

Line == [product : Product, quantity : Nat \ {0}]

\* assertUniqueLines: at most one line per product.
UniqueLines(lines) ==
    \A i, j \in 1 .. Len(lines) : lines[i].product = lines[j].product => i = j

ASSUME ProductAssumption == Product # {} /\ IsFiniteSet(Product)
ASSUME RowAssumption ==
    Row = {Transfer, Voucher} \cup {Source(p) : p \in Product} \cup {Received(p) : p \in Product}
ASSUME SentAssumption == Sent \in [Product -> Nat \ {0}]
ASSUME OpeningAssumption == Opening \in [Product -> Nat]
ASSUME ReceiptAssumption ==
    /\ Receipt \subseteq Seq(Line)
    /\ \A lines \in Receipt : UniqueLines(lines)

VARIABLES
    pc,      \* pc[t]: the statement request t is about to run
    lines,   \* lines[t]: the lines it has still to process, in its order
    seen,    \* seen[t]: quantity_received as its first statement read it
    full,    \* full[t]: isFullyReceived, computed from the refreshed read
    overlapped  \* two requests were being served at once (history)

vars == <<committed, pending, holder, pc, lines, seen, full, overlapped>>

NothingSeen == [p \in Product |-> 0]

InitialRow(r) ==
    CASE r = Transfer -> "absent"
      [] r \in {Source(p) : p \in Product} -> Opening[CHOOSE p \in Product : r = Source(p)]
      [] OTHER -> 0

Init ==
    /\ DbInit([r \in Row |-> InitialRow(r)])
    /\ pc = [t \in Tx |-> "idle"]
    /\ lines = [t \in Tx |-> << >>]
    /\ seen = [t \in Tx |-> NothingSeen]
    /\ full = [t \in Tx |-> FALSE]
    /\ overlapped = FALSE

Status(t) == Sees(t, Transfer)
ItemsSeen(t) == [p \in Product |-> Sees(t, Received(p))]

\* The items to send, in whichever order the query returns them.
ItemOrders ==
    {s \in [1 .. Cardinality(Product) -> {[product |-> p, quantity |-> Sent[p]] : p \in Product}] :
        UniqueLines(s)}

Goto(t, statement) == pc' = [pc EXCEPT ![t] = statement]

\* The transaction is over: its locals are gone.
Finish(t) ==
    /\ Goto(t, "idle")
    /\ lines' = [lines EXCEPT ![t] = << >>]
    /\ seen' = [seen EXCEPT ![t] = NothingSeen]
    /\ full' = [full EXCEPT ![t] = FALSE]

-----------------------------------------------------------------------------
(* create *)

\* The transfer and its items are inserted with the status asked for; one
\* created as SENT goes on to deduct the source stock.
Create(t) ==
    /\ pc[t] = "idle"
    /\ Status(t) = "absent"
    /\ \E status \in {"DRAFT", "SENT"} :
          /\ WriteRow(t, Transfer, status)
          /\ IF status = "SENT"
             THEN /\ \E items \in ItemOrders : lines' = [lines EXCEPT ![t] = items]
                  /\ Goto(t, "deduct new")
             ELSE /\ Goto(t, "commit")
                  /\ UNCHANGED lines
    /\ UNCHANGED <<seen, full>>

(* send *)

MayBeSentAnyTime(t) == Status(t) # "absent"
MayBeSent(t) == Status(t) = "DRAFT"

ReadForSend(t) ==
    /\ pc[t] = "idle"
    /\ MayBeSent(t)
    /\ \E items \in ItemOrders : lines' = [lines EXCEPT ![t] = items]
    /\ Goto(t, "deduct")
    /\ UNCHANGED <<dbVars, seen, full>>

Enough(t, line) == Sees(t, Source(line.product)) >= line.quantity

\* applyInventoryMovement of a TRANSFER_OUT, in create and in send.
Deduct(t) ==
    /\ pc[t] \in {"deduct new", "deduct"}
    /\ lines[t] # << >>
    /\ LET line == Head(lines[t])
       IN  /\ Enough(t, line)
           /\ WriteRow(t, Source(line.product), Sees(t, Source(line.product)) - line.quantity)
    /\ lines' = [lines EXCEPT ![t] = Tail(@)]
    /\ UNCHANGED <<pc, seen, full>>

Deducted(t) ==
    /\ pc[t] \in {"deduct new", "deduct"}
    /\ lines[t] = << >>
    /\ Goto(t, IF pc[t] = "deduct" THEN "post" ELSE "commit")
    /\ UNCHANGED <<dbVars, lines, seen, full>>

\* autoPostFromRules posts one voucher per transfer: it returns the one its
\* idempotency key finds.
PostFundMovement(t) ==
    /\ pc[t] = "post"
    /\ IF Sees(t, Voucher) = 0
       THEN WriteRow(t, Voucher, 1)
       ELSE UNCHANGED dbVars
    /\ Goto(t, "mark")
    /\ UNCHANGED <<lines, seen, full>>

MarkSent(t) ==
    /\ pc[t] = "mark"
    /\ WriteRow(t, Transfer, "SENT")
    /\ Goto(t, "commit")
    /\ UNCHANGED <<lines, seen, full>>

-----------------------------------------------------------------------------
(* receive *)

Receivable(t) == Status(t) \in {"SENT", "PARTIALLY_RECEIVED"}

ReadForReceive(t) ==
    /\ pc[t] = "idle"
    /\ Receivable(t)
    /\ \E receipt \in Receipt : lines' = [lines EXCEPT ![t] = receipt]
    /\ seen' = [seen EXCEPT ![t] = ItemsSeen(t)]
    /\ Goto(t, "receive")
    /\ UNCHANGED <<dbVars, full>>

\* The quantity asked for is compared with what the first statement read.
UpToSent(t, line) == line.quantity <= Sent[line.product]
WithinOutstanding(t, line) == line.quantity <= Sent[line.product] - seen[t][line.product]

ReceiveLine(t) ==
    /\ pc[t] = "receive"
    /\ lines[t] # << >>
    /\ LET line == Head(lines[t])
       IN  /\ WithinOutstanding(t, line)
           /\ WriteRow(t, Received(line.product),
                       Sees(t, Received(line.product)) + line.quantity)
    /\ lines' = [lines EXCEPT ![t] = Tail(@)]
    /\ UNCHANGED <<pc, seen, full>>

SomeReceived(t) == \E p \in Product : Sees(t, Received(p)) >= Sent[p]
FullyReceived(t) == \A p \in Product : Sees(t, Received(p)) >= Sent[p]

Refresh(t) ==
    /\ pc[t] = "receive"
    /\ lines[t] = << >>
    /\ full' = [full EXCEPT ![t] = FullyReceived(t)]
    /\ Goto(t, "close")
    /\ UNCHANGED <<dbVars, lines, seen>>

StatusAfter(t) == IF full[t] THEN "RECEIVED" ELSE "PARTIALLY_RECEIVED"

Close(t) ==
    /\ pc[t] = "close"
    /\ WriteRow(t, Transfer, StatusAfter(t))
    /\ Goto(t, "commit")
    /\ UNCHANGED <<lines, seen, full>>

-----------------------------------------------------------------------------
(* The end of a transaction. *)

Commit(t) ==
    /\ pc[t] = "commit"
    /\ CommitTx(t)
    /\ Finish(t)

InsufficientSkipped(t) ==
    /\ pc[t] \in {"deduct new", "deduct"}
    /\ lines[t] # << >>
    /\ ~Enough(t, Head(lines[t]))
    /\ lines' = [lines EXCEPT ![t] = Tail(@)]
    /\ UNCHANGED <<dbVars, pc, seen, full>>

\* "Insufficient stock": the conditional decrement matched no row.
Insufficient(t) ==
    /\ pc[t] \in {"deduct new", "deduct"}
    /\ lines[t] # << >>
    /\ ~Enough(t, Head(lines[t]))
    /\ RollbackTx(t)
    /\ Finish(t)

\* "Receive quantity exceeds outstanding transfer quantity."
ExceedsOutstanding(t) ==
    /\ pc[t] = "receive"
    /\ lines[t] # << >>
    /\ ~WithinOutstanding(t, Head(lines[t]))
    /\ RollbackTx(t)
    /\ Finish(t)

\* The transaction times out, is a deadlock's victim, its posting rule or its
\* transfer_number is refused, or the process dies.
Abort(t) ==
    /\ pc[t] # "idle"
    /\ RollbackTx(t)
    /\ Finish(t)

Serve ==
    \E t \in Tx :
        \/ Create(t)
        \/ ReadForSend(t) \/ Deduct(t) \/ Deducted(t) \/ PostFundMovement(t) \/ MarkSent(t)
        \/ ReadForReceive(t) \/ ReceiveLine(t) \/ Refresh(t) \/ Close(t)
        \/ Commit(t) \/ Insufficient(t) \/ ExceedsOutstanding(t) \/ Abort(t)

\* Not a part of the code: remembers whether requests have ever overlapped.
Watch ==
    overlapped' = (overlapped \/ \E t, u \in Tx : t # u /\ "idle" \notin {pc'[t], pc'[u]})

Next == Serve /\ Watch

Spec == Init /\ [][Next]_vars

-----------------------------------------------------------------------------
(* The tables, as anyone outside a transaction reads them. *)

TransferStatus == committed[Transfer]
StockLeft(p) == committed[Source(p)]
UnitsReceived(p) == committed[Received(p)]

NotSent == {"absent", "DRAFT"}

\* The products of a transfer leave the source together, a whole number of
\* times, and have left it exactly when the transfer is past DRAFT: no failure
\* between two deductions, and no deduction without the status that shows it,
\* is ever on the books (create and send, warehouse-transfers.service.ts:45-151).
DeductionsAreWhole ==
    \E times \in UNION {0 .. Opening[p] : p \in Product} :
        /\ \A p \in Product : StockLeft(p) = Opening[p] - times * Sent[p]
        /\ times = 0 <=> TransferStatus \in NotSent

\* A transfer shown as RECEIVED is missing nothing, however many receipts
\* raced to complete it (the refreshed read, :218-231).
ReceivedIsComplete ==
    TransferStatus = "RECEIVED" => \A p \in Product : UnitsReceived(p) >= Sent[p]

-----------------------------------------------------------------------------
(* What holds as long as requests about a transfer do not overlap: its status *)
(* is then a guard, and otherwise a stale read.                               *)

\* "Only draft transfers can be sent": the source stock goes down by what the
\* transfer sends, once (:106-121).
DeductedOnce ==
    \A p \in Product :
        StockLeft(p) = Opening[p] - (IF TransferStatus \in NotSent THEN 0 ELSE Sent[p])

DeductedOnceUnlessRaced == ~overlapped => DeductedOnce

\* No more units arrive than were sent: moving stock creates none (:193-196).
ReceivedAtMostSent ==
    ~overlapped => \A p \in Product : UnitsReceived(p) <= Sent[p]
=============================================================================
