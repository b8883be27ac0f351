--------------------- MODULE WarehouseTransfers_proofs ---------------------
(***************************************************************************)
(* Theorems of WarehouseTransfers, for any number of requests, any items,  *)
(* opening stock and receipts: what a transfer takes from its source and   *)
(* brings to its destination.                                              *)
(***************************************************************************)
EXTENDS WarehouseTransfers, ReadCommitted_proofs, FiniteSetTheorems

-----------------------------------------------------------------------------
(* Types. *)

StatusValue == {"absent", "DRAFT", "SENT", "PARTIALLY_RECEIVED", "RECEIVED"}
Statement ==
    {"idle", "deduct new", "deduct", "post", "mark", "receive", "close", "commit"}

\* The columns of each table.
Columns == [r \in Row |-> IF r = Transfer THEN StatusValue ELSE Nat]

RequestTypeOK ==
    /\ pc \in [Tx -> Statement]
    /\ lines \in [Tx -> Seq(Line)]
    /\ seen \in [Tx -> [Product -> Nat]]
    /\ full \in [Tx -> BOOLEAN]
    /\ overlapped \in BOOLEAN

TypeOK == DbTypeOK(Columns) /\ RequestTypeOK

-----------------------------------------------------------------------------
(* The inductive invariant: what each request has in hand, when the          *)
(* transaction it runs is at pc[t].                                          *)

\* The products request t has lines for.
Remaining(t) == {lines[t][i].product : i \in 1 .. Len(lines[t])}

Has(t, r) == r \in DOMAIN pending[t]

\* t takes the transfer's products out of the source, or has and will commit it.
Deducting(t) ==
    \/ pc[t] \in {"deduct new", "deduct", "post", "mark"}
    \/ pc[t] = "commit" /\ pending[t][Transfer] = "SENT"

\* t receives, or has received and will commit it.
Receiving(t) ==
    \/ pc[t] \in {"receive", "close"}
    \/ pc[t] = "commit" /\ pending[t][Transfer] \in {"PARTIALLY_RECEIVED", "RECEIVED"}

\* The lines of a request are those of its document that are left.
LinesOK(t) ==
    /\ UniqueLines(lines[t])
    /\ pc[t] \in {"deduct new", "deduct"} =>
          \A i \in 1 .. Len(lines[t]) : lines[t][i].quantity = Sent[lines[t][i].product]
    /\ pc[t] \notin {"deduct new", "deduct", "receive"} => lines[t] = << >>

\* What is left to deduct is untouched, and the rest is deducted from what the
\* lock keeps committed; nobody else touches the source.
SourceOK(t) ==
    \A p \in Product :
        IF Deducting(t) /\ p \notin Remaining(t)
        THEN Has(t, Source(p)) /\ pending[t][Source(p)] = StockLeft(p) - Sent[p]
        ELSE ~Has(t, Source(p))

\* The status a request writes follows from the one it holds the lock of or read.
StatusOK(t) ==
    /\ pc[t] = "deduct new" => Has(t, Transfer) /\ pending[t][Transfer] = "SENT"
    /\ pc[t] = "commit" => Has(t, Transfer)
    /\ Has(t, Transfer) =>
          /\ pc[t] \in {"deduct new", "commit"}
          /\ pending[t][Transfer] \in {"DRAFT", "SENT", "PARTIALLY_RECEIVED", "RECEIVED"}
          /\ pending[t][Transfer] = "DRAFT" => TransferStatus = "absent"
    /\ Receiving(t) => TransferStatus \notin NotSent

\* Receipts only add, and a request that will write RECEIVED has read that
\* everything is there.
ReceivedOK(t) ==
    /\ \A p \in Product : Sees(t, Received(p)) >= UnitsReceived(p)
    /\ \/ pc[t] = "close" /\ full[t]
       \/ pc[t] = "commit" /\ pending[t][Transfer] = "RECEIVED"
       => \A p \in Product : Sees(t, Received(p)) >= Sent[p]

\* A request that runs alone deducts only from a transfer not sent, and has
\* received no more than what it read leaves.
AloneTxOK(t) ==
    /\ Deducting(t) => TransferStatus \in NotSent
    /\ \A p \in Product : Sees(t, Received(p)) <= Sent[p]
    /\ pc[t] = "receive" =>
          \A p \in Remaining(t) : Sees(t, Received(p)) = seen[t][p]

\* Unless requests have overlapped, one runs at a time.
AloneOK ==
    ~overlapped =>
        /\ \A t, u \in Tx : pc[t] # "idle" /\ pc[u] # "idle" => t = u
        /\ \A t \in Tx : AloneTxOK(t)

TxOK(t) == LinesOK(t) /\ SourceOK(t) /\ StatusOK(t) /\ ReceivedOK(t)

IInv ==
    /\ TypeOK
    /\ \A t \in Tx : TxOK(t)
    /\ AloneOK
    /\ DeductionsAreWhole /\ ReceivedIsComplete
    /\ DeductedOnceUnlessRaced /\ ReceivedAtMostSent

-----------------------------------------------------------------------------
(* Rows and lines. *)

LEMMA RowsDiffer ==
    /\ Transfer \in Row /\ Voucher \in Row /\ Transfer # Voucher
    /\ \A p \in Product :
          /\ Source(p) \in Row /\ Received(p) \in Row
          /\ Source(p) # Transfer /\ Received(p) # Transfer
          /\ Source(p) # Voucher /\ Received(p) # Voucher
          /\ \A q \in Product :
                /\ Source(p) # Received(q)
                /\ Source(p) = Source(q) => p = q
                /\ Received(p) = Received(q) => p = q
  BY RowAssumption DEF Transfer, Voucher, Source, Received

LEMMA LineTyped ==
    ASSUME NEW line \in Line
    PROVE  line.product \in Product /\ line.quantity \in Nat /\ line.quantity > 0
  BY DEF Line

\* What is left after the first line.
LEMMA TailOfLines ==
    ASSUME NEW s \in Seq(Line), s # << >>, UniqueLines(s)
    PROVE  /\ Tail(s) \in Seq(Line) /\ UniqueLines(Tail(s)) /\ Head(s) \in Line
           /\ {Tail(s)[i].product : i \in 1 .. Len(Tail(s))}
                 = {s[i].product : i \in 1 .. Len(s)} \ {Head(s).product}
           /\ Head(s).product \in {s[i].product : i \in 1 .. Len(s)}
           /\ Head(s) = s[1] /\ 1 \in 1 .. Len(s)
           /\ \A i \in 1 .. Len(Tail(s)) : i + 1 \in 1 .. Len(s) /\ Tail(s)[i] = s[i + 1]
  <1>1. /\ Tail(s) \in Seq(Line) /\ Head(s) \in Line /\ Head(s) = s[1]
        /\ Len(s) \in Nat \ {0} /\ Len(Tail(s)) = Len(s) - 1
    OBVIOUS
  <1>2. \A i \in 1 .. Len(Tail(s)) : i + 1 \in 1 .. Len(s) /\ Tail(s)[i] = s[i + 1]
    BY <1>1
  <1>3. UniqueLines(Tail(s))
    BY <1>1, <1>2 DEF UniqueLines
  <1>4. \A i \in 2 .. Len(s) : i - 1 \in 1 .. Len(Tail(s)) /\ Tail(s)[i - 1] = s[i]
    BY <1>1
  <1>5. \A i \in 2 .. Len(s) : s[i].product # s[1].product
    BY <1>1 DEF UniqueLines
  <1>6. ASSUME NEW p
        PROVE  (\E i \in 1 .. Len(Tail(s)) : p = Tail(s)[i].product)
                  <=> (\E i \in 1 .. Len(s) : p = s[i].product) /\ p # s[1].product
    <2>1. ASSUME NEW i \in 1 .. Len(Tail(s)), p = Tail(s)[i].product
          PROVE  i + 1 \in 2 .. Len(s) /\ p = s[i + 1].product
      BY <1>1, <1>2, <2>1
    <2>2. ASSUME NEW i \in 1 .. Len(s), p = s[i].product, p # s[1].product
          PROVE  i \in 2 .. Len(s)
      BY <1>1, <2>2
    <2> QED BY <1>1, <1>4, <1>5, <2>1, <2>2
  <1> QED BY <1>1, <1>2, <1>3, <1>6

\* Every order of the items has one line for each product.
LEMMA OrdersHaveEveryItem ==
    ASSUME NEW s \in ItemOrders
    PROVE  /\ s \in Seq(Line) /\ UniqueLines(s)
           /\ \A i \in 1 .. Len(s) : s[i].quantity = Sent[s[i].product]
           /\ {s[i].product : i \in 1 .. Len(s)} = Product
  <1> DEFINE n == Cardinality(Product)
             item(p) == [product |-> p, quantity |-> Sent[p]]
             items == {item(p) : p \in Product}
             f == [p \in Product |-> item(p)]
  <1>1. n \in Nat
    BY ProductAssumption, FS_CardinalityType
  <1>2. /\ s \in [1 .. n -> items] /\ UniqueLines(s)
    BY DEF ItemOrders
  <1>3. items \subseteq Line
    BY SentAssumption DEF Line
  <1>4. s \in Seq(Line) /\ Len(s) = n
    BY <1>1, <1>2, <1>3
  <1>5. f \in Bijection(Product, items)
    BY DEF Bijection, Injection, Surjection, IsInjective
  <1>6. IsFiniteSet(items) /\ Cardinality(items) = n
    <2>1. ExistsBijection(Product, items)
      BY <1>5 DEF ExistsBijection
    <2> QED BY <2>1, ProductAssumption, FS_Bijection
  <1>7. s \in Injection(1 .. n, items)
    BY <1>2, <1>4 DEF Injection, IsInjective, UniqueLines
  <1>8. IsFiniteSet(1 .. n) /\ Cardinality(1 .. n) = n
    BY <1>1, FS_Interval
  <1>9. s \in Surjection(1 .. n, items)
    BY <1>6, <1>7, <1>8, FS_Injection
  <1>10. \A p \in Product : \E i \in 1 .. n : s[i] = item(p)
    BY <1>9 DEF Surjection
  <1>11. \A i \in 1 .. n : \E p \in Product : s[i] = item(p)
    BY <1>2
  <1>12. ASSUME NEW i \in 1 .. n
         PROVE  s[i].product \in Product /\ s[i].quantity = Sent[s[i].product]
    <2>1. PICK p \in Product : s[i] = [product |-> p, quantity |-> Sent[p]]
      BY <1>11
    <2>2. s[i].product = p /\ s[i].quantity = Sent[p]
      BY <2>1
    <2> QED BY <2>2
  <1>13. ASSUME NEW p \in Product
         PROVE  \E i \in 1 .. n : p = s[i].product
    <2>1. PICK i \in 1 .. n : s[i] = [product |-> p, quantity |-> Sent[p]]
      BY <1>10
    <2>2. s[i].product = p
      BY <2>1
    <2> QED BY <2>2
  <1> QED BY <1>2, <1>4, <1>12, <1>13

-----------------------------------------------------------------------------
(* Steps that commit nothing.                                                *)

\* A step of t leaves alone what the other requests have in hand.
OthersRest(t) ==
    \A u \in Tx : u # t =>
        /\ pc'[u] = pc[u] /\ lines'[u] = lines[u]
        /\ seen'[u] = seen[u] /\ full'[u] = full[u]
        /\ pending'[u] = pending[u]

LEMMA InitialStock == \A p \in Product : InitialRow(Source(p)) = Opening[p]
  <1> TAKE p \in Product
  <1>1. Source(p) # Transfer /\ Source(p) \in {Source(q) : q \in Product}
    BY RowsDiffer
  <1>2. (CHOOSE q \in Product : Source(p) = Source(q)) = p
    BY RowsDiffer
  <1> QED BY <1>1, <1>2 DEF InitialRow

LEMMA InitIInv == Init => IInv
  <1> SUFFICES ASSUME Init PROVE IInv
    OBVIOUS
  <1>1. /\ committed = [r \in Row |-> InitialRow(r)]
        /\ pc = [t \in Tx |-> "idle"] /\ lines = [t \in Tx |-> << >>]
        /\ seen = [t \in Tx |-> NothingSeen] /\ full = [t \in Tx |-> FALSE]
        /\ overlapped = FALSE
        /\ \A t \in Tx : DOMAIN pending[t] = {}
    BY DEF Init, DbInit, NoWrites
  <1>2. /\ TransferStatus = "absent"
        /\ \A p \in Product : StockLeft(p) = Opening[p] /\ UnitsReceived(p) = 0
    <2>1. \A p \in Product : Received(p) \notin {Source(q) : q \in Product}
      BY RowsDiffer
    <2> QED
      BY <1>1, <2>1, RowsDiffer, InitialStock
      DEF TransferStatus, StockLeft, UnitsReceived, InitialRow
  <1>3. \A r \in Row : InitialRow(r) \in Columns[r]
    <2>1. \A p \in Product : InitialRow(Source(p)) \in Nat
      BY InitialStock, OpeningAssumption
    <2>2. ASSUME NEW r \in Row, r # Transfer, r \notin {Source(p) : p \in Product}
          PROVE  InitialRow(r) = 0
      BY <2>2 DEF InitialRow
    <2>3. InitialRow(Transfer) = "absent"
      BY RowsDiffer DEF InitialRow
    <2>4. ASSUME NEW r \in Row PROVE InitialRow(r) \in Columns[r]
      <3>1. CASE r = Transfer
        BY <2>3, <3>1 DEF Columns, StatusValue
      <3>2. CASE r # Transfer /\ \E p \in Product : r = Source(p)
        BY <2>1, <3>2 DEF Columns
      <3>3. CASE r # Transfer /\ r \notin {Source(p) : p \in Product}
        BY <2>2, <3>3 DEF Columns
      <3> QED BY <3>1, <3>2, <3>3
    <2> QED BY <2>4
  <1>4. TypeOK
    <2>1. DbTypeOK(Columns)
      BY <1>3, DbInitTyped DEF Init
    <2>2. NothingSeen \in [Product -> Nat]
      BY DEF NothingSeen
    <2>3. lines \in [Tx -> Seq(Line)]
      BY <1>1
    <2>4. RequestTypeOK
      BY <1>1, <2>2, <2>3 DEF RequestTypeOK, Statement
    <2> QED BY <2>1, <2>4 DEF TypeOK
  <1>5. ASSUME NEW t \in Tx PROVE TxOK(t) /\ AloneTxOK(t)
    <2>1. pc[t] = "idle" /\ lines[t] = << >> /\ DOMAIN pending[t] = {}
      BY <1>1
    <2>2. ~Deducting(t) /\ ~Receiving(t)
      BY <2>1 DEF Deducting, Receiving
    <2>3. \A p \in Product : Sees(t, Received(p)) = 0
      BY <1>2, <2>1 DEF Sees, UnitsReceived
    <2>4. LinesOK(t)
      BY <2>1 DEF LinesOK, UniqueLines
    <2>5. SourceOK(t) /\ StatusOK(t)
      BY <2>1, <2>2 DEF SourceOK, StatusOK, Has
    <2>6. ReceivedOK(t)
      BY <1>2, <2>1, <2>3 DEF ReceivedOK
    <2>7. AloneTxOK(t)
      BY <2>1, <2>2, <2>3, SentAssumption DEF AloneTxOK
    <2> QED BY <2>4, <2>5, <2>6, <2>7 DEF TxOK
  <1>6. AloneOK
    BY <1>1, <1>5 DEF AloneOK
  <1>7. DeductionsAreWhole
    <2> SUFFICES \E times \in UNION {0 .. Opening[p] : p \in Product} :
                     /\ \A p \in Product : StockLeft(p) = Opening[p] - times * Sent[p]
                     /\ times = 0 <=> TransferStatus \in NotSent
      BY DEF DeductionsAreWhole
    <2>1. 0 \in UNION {0 .. Opening[p] : p \in Product}
      BY ProductAssumption, OpeningAssumption
    <2>2. \A p \in Product : Opening[p] = Opening[p] - 0 * Sent[p]
      BY OpeningAssumption, SentAssumption
    <2> WITNESS 0 \in UNION {0 .. Opening[p] : p \in Product}
    <2> QED BY <1>2, <2>2 DEF NotSent
  <1>8. ReceivedIsComplete /\ DeductedOnceUnlessRaced /\ ReceivedAtMostSent
    BY <1>2, SentAssumption, OpeningAssumption
    DEF ReceivedIsComplete, DeductedOnceUnlessRaced, DeductedOnce, ReceivedAtMostSent, NotSent
  <1> QED BY <1>4, <1>5, <1>6, <1>7, <1>8 DEF IInv

\* Another request keeps its part of the invariant while nothing is committed.
LEMMA RestKept ==
    ASSUME NEW t \in Tx, OthersRest(t), committed' = committed, NEW u \in Tx, u # t
    PROVE  /\ TxOK(u) => TxOK(u)'
           /\ AloneTxOK(u) => AloneTxOK(u)'
  <1>1. /\ pc'[u] = pc[u] /\ lines'[u] = lines[u] /\ seen'[u] = seen[u]
        /\ full'[u] = full[u] /\ pending'[u] = pending[u]
    BY DEF OthersRest
  <1>2. /\ Deducting(u)' = Deducting(u) /\ Receiving(u)' = Receiving(u)
        /\ Remaining(u)' = Remaining(u)
    BY <1>1 DEF Deducting, Receiving, Remaining
  <1>3. /\ \A r : Sees(u, r)' = Sees(u, r) /\ Has(u, r)' = Has(u, r)
        /\ TransferStatus' = TransferStatus
        /\ \A p : StockLeft(p)' = StockLeft(p) /\ UnitsReceived(p)' = UnitsReceived(p)
    BY <1>1 DEF Sees, Has, TransferStatus, StockLeft, UnitsReceived
  <1>4. LinesOK(u) => LinesOK(u)'
    BY <1>1 DEF LinesOK
  <1>5. SourceOK(u) => SourceOK(u)'
    BY <1>1, <1>2, <1>3 DEF SourceOK
  <1>6. StatusOK(u) => StatusOK(u)'
    BY <1>1, <1>2, <1>3 DEF StatusOK
  <1>7. ReceivedOK(u) => ReceivedOK(u)'
    BY <1>1, <1>3 DEF ReceivedOK
  <1>8. AloneTxOK(u) => AloneTxOK(u)'
    BY <1>1, <1>2, <1>3 DEF AloneTxOK
  <1> QED BY <1>4, <1>5, <1>6, <1>7, <1>8 DEF TxOK

\* Requests that have not overlapped after a step ran one at a time before and after.
LEMMA OneAtATime ==
    ASSUME AloneOK, Watch, ~overlapped', RequestTypeOK
    PROVE  /\ ~overlapped
           /\ \A t \in Tx : AloneTxOK(t)
           /\ \A t, u \in Tx : pc[t] # "idle" /\ pc[u] # "idle" => t = u
           /\ \A t, u \in Tx : pc'[t] # "idle" /\ pc'[u] # "idle" => t = u
  BY DEF AloneOK, Watch, RequestTypeOK

LEMMA WatchTyped ==
    ASSUME Watch, overlapped \in BOOLEAN
    PROVE  overlapped' \in BOOLEAN
  BY DEF Watch

\* So a step of t has only t's own part to restore.
LEMMA LocalStep ==
    ASSUME IInv, NEW t \in Tx, Watch, OthersRest(t), committed' = committed,
           TypeOK', TxOK(t)', ~overlapped' => AloneTxOK(t)'
    PROVE  IInv'
  <1>1. \A u \in Tx : TxOK(u)'
    BY RestKept DEF IInv
  <1>2. AloneOK'
    BY RestKept, OneAtATime DEF IInv, AloneOK, TypeOK
  <1>3. /\ TransferStatus' = TransferStatus
        /\ \A p : StockLeft(p)' = StockLeft(p) /\ UnitsReceived(p)' = UnitsReceived(p)
    BY DEF TransferStatus, StockLeft, UnitsReceived
  <1>4. DeductionsAreWhole' /\ ReceivedIsComplete'
    BY <1>3 DEF IInv, DeductionsAreWhole, ReceivedIsComplete
  <1>5. DeductedOnceUnlessRaced' /\ ReceivedAtMostSent'
    BY <1>3, OneAtATime
    DEF IInv, TypeOK, DeductedOnceUnlessRaced, DeductedOnce, ReceivedAtMostSent
  <1> QED BY <1>1, <1>2, <1>4, <1>5 DEF IInv

-----------------------------------------------------------------------------
(* create                                                                    *)

\* What the invariant says of one request.
LEMMA Parts ==
    ASSUME IInv, NEW t \in Tx
    PROVE  /\ DbTypeOK(Columns) /\ RequestTypeOK
           /\ LinesOK(t) /\ SourceOK(t) /\ StatusOK(t) /\ ReceivedOK(t)
           /\ pc[t] \in Statement /\ lines[t] \in Seq(Line)
           /\ seen[t] \in [Product -> Nat] /\ full[t] \in BOOLEAN
  BY DEF IInv, TypeOK, RequestTypeOK, TxOK

\* A request that has not written the transfer reads its committed status.
LEMMA StatusIsCommitted ==
    ASSUME IInv, NEW t \in Tx, pc[t] \notin {"deduct new", "commit"}
    PROVE  ~Has(t, Transfer) /\ Status(t) = TransferStatus
  BY Parts DEF StatusOK, Has, Status, Sees, TransferStatus

\* The rows that t writes hold values of their column.
LEMMA Written ==
    ASSUME IInv, NEW t \in Tx, NEW r \in Row, NEW v \in Columns[r], WriteRow(t, r, v)
    PROVE  /\ DbTypeOK(Columns)' /\ committed' = committed
           /\ Has(t, r)' /\ pending'[t][r] = v /\ Sees(t, r)' = v
           /\ \A q \in Row : q # r =>
                 /\ Has(t, q)' = Has(t, q) /\ Sees(t, q)' = Sees(t, q)
                 /\ Has(t, q) => pending'[t][q] = pending[t][q]
           /\ \A u \in Tx : u # t => pending'[u] = pending[u]
           /\ TransferStatus' = TransferStatus
           /\ \A p : StockLeft(p)' = StockLeft(p) /\ UnitsReceived(p)' = UnitsReceived(p)
  <1>1. DbTypeOK(Columns) /\ DbTypeOK(Columns)'
    BY Parts, WriteRowTyped
  <1>2. committed' = committed
    BY DEF WriteRow
  <1> HIDE DEF Columns
  <1> QED BY <1>1, <1>2, WriteRowSeen DEF Has, TransferStatus, StockLeft, UnitsReceived

LEMMA CreateKept ==
    ASSUME IInv, NEW t \in Tx, Watch, Create(t)
    PROVE  IInv'
  <1>1. PICK status \in {"DRAFT", "SENT"} :
            /\ WriteRow(t, Transfer, status)
            /\ IF status = "SENT"
               THEN /\ \E items \in ItemOrders : lines' = [lines EXCEPT ![t] = items]
                    /\ Goto(t, "deduct new")
               ELSE Goto(t, "commit") /\ lines' = lines
    BY DEF Create
  <1>2. pc[t] = "idle" /\ seen' = seen /\ full' = full
    BY DEF Create
  <1>3. ~Has(t, Transfer) /\ TransferStatus = "absent"
    BY <1>2, StatusIsCommitted DEF Create
  <1>4. status \in Columns[Transfer]
    BY RowsDiffer DEF Columns, StatusValue
  <1>5. /\ DbTypeOK(Columns)' /\ committed' = committed
        /\ Has(t, Transfer)' /\ pending'[t][Transfer] = status
        /\ \A q \in Row : q # Transfer => Has(t, q)' = Has(t, q) /\ Sees(t, q)' = Sees(t, q)
        /\ \A u \in Tx : u # t => pending'[u] = pending[u]
        /\ TransferStatus' = "absent"
        /\ \A p : UnitsReceived(p)' = UnitsReceived(p)
    BY <1>1, <1>3, <1>4, RowsDiffer, Written
  <1>6. ~Deducting(t) /\ lines[t] = << >>
    BY <1>2, Parts DEF Deducting, LinesOK
  <1>7. \A p \in Product : ~Has(t, Source(p))' /\ Sees(t, Received(p))' = Sees(t, Received(p))
    BY <1>5, <1>6, RowsDiffer, Parts DEF SourceOK
  <1>8. ASSUME ~overlapped' PROVE \A p \in Product : Sees(t, Received(p))' <= Sent[p]
    <2>1. AloneTxOK(t)
      BY <1>8, OneAtATime DEF IInv, TypeOK
    <2> QED BY <2>1, <1>7 DEF AloneTxOK
  <1>9. CASE status = "SENT"
    <2>1. PICK items \in ItemOrders : lines' = [lines EXCEPT ![t] = items]
      BY <1>1, <1>9
    <2>2. pc' = [pc EXCEPT ![t] = "deduct new"]
      BY <1>1, <1>9 DEF Goto
    <2>3. pc'[t] = "deduct new" /\ lines'[t] = items /\ OthersRest(t)
      BY <1>2, <1>5, <2>1, <2>2, Parts DEF OthersRest, RequestTypeOK
    <2>4. RequestTypeOK'
      BY <1>2, <2>1, <2>2, Parts, OrdersHaveEveryItem, WatchTyped
      DEF RequestTypeOK, Statement
    <2>5. Remaining(t)' = Product /\ LinesOK(t)'
      BY <2>3, OrdersHaveEveryItem DEF Remaining, LinesOK
    <2>6. SourceOK(t)'
      BY <1>7, <2>5 DEF SourceOK
    <2>7. StatusOK(t)'
      BY <1>5, <1>9, <2>3 DEF StatusOK, Receiving
    <2>8. ReceivedOK(t)'
      BY <1>5, <1>7, <2>3, Parts DEF ReceivedOK
    <2>9. ~overlapped' => AloneTxOK(t)'
      BY <1>5, <1>8, <2>3 DEF AloneTxOK, NotSent
    <2> QED BY <1>5, <2>3, <2>4, <2>5, <2>6, <2>7, <2>8, <2>9, LocalStep DEF TypeOK, TxOK
  <1>10. CASE status = "DRAFT"
    <2>1. lines' = lines /\ pc' = [pc EXCEPT ![t] = "commit"]
      BY <1>1, <1>10 DEF Goto
    <2>2. pc'[t] = "commit" /\ lines'[t] = << >> /\ OthersRest(t)
      BY <1>2, <1>5, <1>6, <2>1, Parts DEF OthersRest, RequestTypeOK
    <2>3. RequestTypeOK'
      BY <1>2, <2>1, Parts, WatchTyped DEF RequestTypeOK, Statement
    <2>4. ~Deducting(t)' /\ ~Receiving(t)'
      BY <1>5, <1>10, <2>2 DEF Deducting, Receiving
    <2>5. LinesOK(t)'
      BY <2>2 DEF LinesOK, UniqueLines
    <2>6. SourceOK(t)'
      BY <1>7, <2>4 DEF SourceOK
    <2>7. StatusOK(t)'
      BY <1>5, <1>10, <2>2, <2>4 DEF StatusOK
    <2>8. ReceivedOK(t)'
      BY <1>5, <1>7, <1>10, <2>2, Parts DEF ReceivedOK
    <2>9. ~overlapped' => AloneTxOK(t)'
      BY <1>8, <2>2, <2>4 DEF AloneTxOK
    <2> QED BY <1>5, <2>2, <2>3, <2>5, <2>6, <2>7, <2>8, <2>9, LocalStep DEF TypeOK, TxOK
  <1> QED BY <1>1, <1>9, <1>10

-----------------------------------------------------------------------------
(* send                                                                      *)

\* A statement that only reads.
LEMMA OnlyRead ==
    ASSUME IInv, NEW t \in Tx, UNCHANGED dbVars
    PROVE  /\ DbTypeOK(Columns)' /\ committed' = committed /\ pending' = pending
           /\ \A q : Has(t, q)' = Has(t, q) /\ Sees(t, q)' = Sees(t, q)
           /\ TransferStatus' = TransferStatus
           /\ \A p : StockLeft(p)' = StockLeft(p) /\ UnitsReceived(p)' = UnitsReceived(p)
  BY Parts DEF dbVars, DbTypeOK, Has, Sees, TransferStatus, StockLeft, UnitsReceived

\* What t alone has received before the step.
LEMMA AloneBefore ==
    ASSUME IInv, NEW t \in Tx, Watch, ~overlapped'
    PROVE  AloneTxOK(t)
  BY OneAtATime DEF IInv, TypeOK

LEMMA ReadForSendKept ==
    ASSUME IInv, NEW t \in Tx, Watch, ReadForSend(t)
    PROVE  IInv'
  <1>1. PICK items \in ItemOrders : lines' = [lines EXCEPT ![t] = items]
    BY DEF ReadForSend
  <1>2. /\ pc[t] = "idle" /\ pc' = [pc EXCEPT ![t] = "deduct"]
        /\ seen' = seen /\ full' = full
    BY DEF ReadForSend, Goto
  <1>3. ~Has(t, Transfer) /\ TransferStatus = "DRAFT"
    BY <1>2, StatusIsCommitted DEF ReadForSend, MayBeSent
  <1>4. /\ DbTypeOK(Columns)' /\ committed' = committed /\ pending' = pending
        /\ \A q : Has(t, q)' = Has(t, q) /\ Sees(t, q)' = Sees(t, q)
        /\ TransferStatus' = TransferStatus
        /\ \A p : UnitsReceived(p)' = UnitsReceived(p)
    BY OnlyRead DEF ReadForSend
  <1>5. pc'[t] = "deduct" /\ lines'[t] = items /\ OthersRest(t)
    BY <1>1, <1>2, <1>4, Parts DEF OthersRest, RequestTypeOK
  <1>6. RequestTypeOK'
    BY <1>1, <1>2, Parts, OrdersHaveEveryItem, WatchTyped DEF RequestTypeOK, Statement
  <1>7. Remaining(t)' = Product /\ LinesOK(t)'
    BY <1>5, OrdersHaveEveryItem DEF Remaining, LinesOK
  <1>8. SourceOK(t)'
    BY <1>2, <1>4, <1>7, Parts DEF SourceOK, Deducting
  <1>9. StatusOK(t)'
    BY <1>3, <1>4, <1>5 DEF StatusOK, Receiving
  <1>10. ReceivedOK(t)'
    BY <1>4, <1>5, Parts DEF ReceivedOK
  <1>11. ~overlapped' => AloneTxOK(t)'
    BY <1>3, <1>4, <1>5, AloneBefore DEF AloneTxOK, NotSent
  <1> QED
    BY <1>4, <1>5, <1>6, <1>7, <1>8, <1>9, <1>10, <1>11, LocalStep DEF TypeOK, TxOK

LEMMA DeductKept ==
    ASSUME IInv, NEW t \in Tx, Watch, Deduct(t)
    PROVE  IInv'
  <1> PICK line : line = Head(lines[t])
    OBVIOUS
  <1> PICK p : p = line.product
    OBVIOUS
  <1> PICK left : left = StockLeft(p) - Sent[p]
    OBVIOUS
  <1>1. /\ pc[t] \in {"deduct new", "deduct"} /\ lines[t] # << >>
        /\ lines' = [lines EXCEPT ![t] = Tail(@)]
        /\ pc' = pc /\ seen' = seen /\ full' = full
        /\ Sees(t, Source(p)) >= line.quantity
        /\ WriteRow(t, Source(p), Sees(t, Source(p)) - line.quantity)
    BY DEF Deduct, Enough
  <1>2. /\ lines[t] \in Seq(Line) /\ UniqueLines(lines[t])
        /\ \A i \in 1 .. Len(lines[t]) : lines[t][i].quantity = Sent[lines[t][i].product]
    BY <1>1, Parts DEF LinesOK
  <1>3. /\ Tail(lines[t]) \in Seq(Line) /\ UniqueLines(Tail(lines[t])) /\ line \in Line
        /\ {Tail(lines[t])[i].product : i \in 1 .. Len(Tail(lines[t]))}
              = Remaining(t) \ {p}
        /\ p \in Remaining(t)
        /\ line = lines[t][1] /\ 1 \in 1 .. Len(lines[t])
        /\ \A i \in 1 .. Len(Tail(lines[t])) :
              i + 1 \in 1 .. Len(lines[t]) /\ Tail(lines[t])[i] = lines[t][i + 1]
    BY <1>1, <1>2, TailOfLines DEF Remaining
  <1>4. p \in Product /\ line.quantity = Sent[p]
    BY <1>2, <1>3, LineTyped
  <1>5. ~Has(t, Source(p)) /\ Deducting(t)
    BY <1>1, <1>3, <1>4, Parts DEF SourceOK, Deducting
  <1>6. Sees(t, Source(p)) = StockLeft(p)
    BY <1>5 DEF Sees, Has, StockLeft
  <1>7. StockLeft(p) \in Nat /\ Sent[p] \in Nat /\ Source(p) \in Row
    BY <1>4, Parts, SentAssumption, RowsDiffer DEF DbTypeOK, Columns, StockLeft
  <1>8. left \in Columns[Source(p)] /\ WriteRow(t, Source(p), left)
    <2>1. Sees(t, Source(p)) >= line.quantity
          /\ WriteRow(t, Source(p), Sees(t, Source(p)) - line.quantity)
      BY <1>1
    <2>2. StockLeft(p) >= Sent[p] /\ WriteRow(t, Source(p), left)
      BY <2>1, <1>4, <1>6
    <2>3. left \in Nat
      BY <2>2, <1>7
    <2> QED BY <2>2, <2>3, <1>4, <1>7, RowsDiffer DEF Columns
  <1>9. /\ DbTypeOK(Columns)' /\ committed' = committed
        /\ Has(t, Source(p))' /\ pending'[t][Source(p)] = left
        /\ \A q \in Row : q # Source(p) =>
              /\ Has(t, q)' = Has(t, q) /\ Sees(t, q)' = Sees(t, q)
              /\ Has(t, q) => pending'[t][q] = pending[t][q]
        /\ \A u \in Tx : u # t => pending'[u] = pending[u]
        /\ TransferStatus' = TransferStatus
        /\ \A q : StockLeft(q)' = StockLeft(q) /\ UnitsReceived(q)' = UnitsReceived(q)
    BY <1>7, <1>8, Written
  <1>10. /\ pc'[t] = pc[t] /\ lines'[t] = Tail(lines[t]) /\ seen'[t] = seen[t]
         /\ full'[t] = full[t] /\ OthersRest(t)
    BY <1>1, <1>9, Parts DEF OthersRest, RequestTypeOK
  <1>11. RequestTypeOK'
    BY <1>1, <1>3, Parts, WatchTyped DEF RequestTypeOK
  <1>12. Remaining(t)' = Remaining(t) \ {p}
    BY <1>3, <1>10 DEF Remaining
  <1>13. LinesOK(t)'
    <2>1. ASSUME NEW i \in 1 .. Len(Tail(lines[t]))
          PROVE  Tail(lines[t])[i].quantity = Sent[Tail(lines[t])[i].product]
      BY <1>2, <1>3
    <2> QED BY <2>1, <1>1, <1>3, <1>10 DEF LinesOK
  <1>14. SourceOK(t)'
    <2>1. Deducting(t)'
      BY <1>1 DEF Deducting
    <2>2. ASSUME NEW q \in Product, q # p
          PROVE  IF q \notin Remaining(t)'
                 THEN Has(t, Source(q))' /\ pending'[t][Source(q)] = StockLeft(q)' - Sent[q]
                 ELSE ~Has(t, Source(q))'
      <3>1. Source(q) \in Row /\ Source(q) # Source(p)
        BY <1>4, <2>2, RowsDiffer
      <3> QED BY <2>2, <3>1, <1>5, <1>9, <1>12, Parts DEF SourceOK
    <2>3. p \notin Remaining(t)' /\ pending'[t][Source(p)] = StockLeft(p)' - Sent[p]
      BY <1>9, <1>12
    <2> QED BY <2>1, <2>2, <2>3, <1>9 DEF SourceOK
  <1>15. Has(t, Transfer)' = Has(t, Transfer) /\ (Has(t, Transfer) => pending'[t][Transfer] = pending[t][Transfer])
    BY <1>4, <1>9, RowsDiffer
  <1>16. StatusOK(t)'
    BY <1>1, <1>9, <1>10, <1>15, Parts DEF StatusOK, Receiving
  <1>17. \A q \in Product : Sees(t, Received(q))' = Sees(t, Received(q))
    BY <1>4, <1>9, RowsDiffer
  <1>18. ReceivedOK(t)'
    BY <1>1, <1>9, <1>10, <1>17, Parts DEF ReceivedOK
  <1>19. ~overlapped' => AloneTxOK(t)'
    BY <1>1, <1>5, <1>9, <1>10, <1>17, AloneBefore DEF AloneTxOK
  <1> QED
    BY <1>9, <1>10, <1>11, <1>13, <1>14, <1>16, <1>18, <1>19, LocalStep DEF TypeOK, TxOK

LEMMA DeductedKept ==
    ASSUME IInv, NEW t \in Tx, Watch, Deducted(t)
    PROVE  IInv'
  <1>1. /\ pc[t] \in {"deduct new", "deduct"} /\ lines[t] = << >>
        /\ pc' = [pc EXCEPT ![t] = IF pc[t] = "deduct" THEN "post" ELSE "commit"]
        /\ lines' = lines /\ seen' = seen /\ full' = full
    BY DEF Deducted, Goto
  <1>2. /\ DbTypeOK(Columns)' /\ committed' = committed /\ pending' = pending
        /\ \A q : Has(t, q)' = Has(t, q) /\ Sees(t, q)' = Sees(t, q)
        /\ TransferStatus' = TransferStatus
        /\ \A p : StockLeft(p)' = StockLeft(p) /\ UnitsReceived(p)' = UnitsReceived(p)
    BY OnlyRead DEF Deducted
  <1>3. /\ pc'[t] = (IF pc[t] = "deduct" THEN "post" ELSE "commit")
        /\ lines'[t] = << >> /\ OthersRest(t)
    BY <1>1, <1>2, Parts DEF OthersRest, RequestTypeOK
  <1>4. RequestTypeOK'
    BY <1>1, Parts, WatchTyped DEF RequestTypeOK, Statement
  <1>5. pc[t] = "deduct new" => Has(t, Transfer) /\ pending[t][Transfer] = "SENT"
    BY Parts DEF StatusOK
  <1>6. Deducting(t) /\ Deducting(t)' /\ ~Receiving(t)' /\ Remaining(t)' = Remaining(t)
    <2>1. CASE pc[t] = "deduct"
      <3>1. pc'[t] = "post" /\ lines'[t] = lines[t]
        BY <2>1, <1>1, <1>3
      <3> QED BY <2>1, <3>1 DEF Deducting, Receiving, Remaining
    <2>2. CASE pc[t] = "deduct new"
      <3>1. pc'[t] = "commit" /\ pending'[t][Transfer] = "SENT"
        BY <2>2, <1>2, <1>3, <1>5
      <3> QED BY <2>2, <3>1, <1>1, <1>3 DEF Deducting, Receiving, Remaining
    <2> QED BY <1>1, <2>1, <2>2
  <1>7. LinesOK(t)'
    BY <1>3 DEF LinesOK, UniqueLines
  <1>8. SourceOK(t)'
    BY <1>2, <1>6, Parts DEF SourceOK
  <1>9. /\ pc'[t] = "commit" => Has(t, Transfer)' /\ pending'[t][Transfer] = "SENT"
        /\ pc'[t] \in {"post", "commit"} /\ (Has(t, Transfer)' => pc'[t] = "commit")
    <2>1. StatusOK(t)
      BY Parts
    <2>2. CASE pc[t] = "deduct"
      BY <2>1, <2>2, <1>2, <1>3 DEF StatusOK
    <2>3. CASE pc[t] = "deduct new"
      BY <2>3, <1>2, <1>3, <1>5
    <2> QED BY <1>1, <2>2, <2>3
  <1>10. StatusOK(t)' /\ ReceivedOK(t)'
    <2>1. StatusOK(t)'
      BY <1>6, <1>9 DEF StatusOK
    <2>2. \A p \in Product : Sees(t, Received(p))' >= UnitsReceived(p)'
      BY <1>2, Parts DEF ReceivedOK
    <2> QED BY <1>9, <2>1, <2>2 DEF ReceivedOK
  <1>11. ~overlapped' => AloneTxOK(t)'
    BY <1>2, <1>3, <1>6, AloneBefore DEF AloneTxOK
  <1> QED
    BY <1>2, <1>3, <1>4, <1>7, <1>8, <1>10, <1>11, LocalStep DEF TypeOK, TxOK

LEMMA PostFundMovementKept ==
    ASSUME IInv, NEW t \in Tx, Watch, PostFundMovement(t)
    PROVE  IInv'
  <1>1. /\ pc[t] = "post" /\ pc' = [pc EXCEPT ![t] = "mark"]
        /\ lines' = lines /\ seen' = seen /\ full' = full
        /\ WriteRow(t, Voucher, 1) \/ UNCHANGED dbVars
    BY DEF PostFundMovement, Goto
  <1>2. 1 \in Columns[Voucher] /\ Voucher \in Row
    BY RowsDiffer DEF Columns
  <1>3. /\ DbTypeOK(Columns)' /\ committed' = committed
        /\ \A q \in Row : q # Voucher =>
              /\ Has(t, q)' = Has(t, q) /\ Sees(t, q)' = Sees(t, q)
              /\ Has(t, q) => pending'[t][q] = pending[t][q]
        /\ \A u \in Tx : u # t => pending'[u] = pending[u]
        /\ TransferStatus' = TransferStatus
        /\ \A p : StockLeft(p)' = StockLeft(p) /\ UnitsReceived(p)' = UnitsReceived(p)
    <2>1. CASE WriteRow(t, Voucher, 1)
      BY <1>2, <2>1, Written
    <2>2. CASE UNCHANGED dbVars
      BY <2>2, OnlyRead
    <2> QED BY <1>1, <2>1, <2>2
  <1>4. pc'[t] = "mark" /\ lines'[t] = << >> /\ OthersRest(t)
    BY <1>1, <1>3, Parts DEF OthersRest, RequestTypeOK, LinesOK
  <1>5. RequestTypeOK'
    BY <1>1, Parts, WatchTyped DEF RequestTypeOK, Statement
  <1>6. /\ Deducting(t) /\ Deducting(t)' /\ ~Receiving(t)' /\ Remaining(t)' = Remaining(t)
        /\ lines[t] = << >>
    BY <1>1, <1>4, Parts DEF Deducting, Receiving, Remaining, LinesOK
  <1>7. ~Has(t, Transfer)'
    BY <1>1, <1>3, RowsDiffer, StatusIsCommitted
  <1>8. \A p \in Product :
           /\ Has(t, Source(p))' = Has(t, Source(p))
           /\ Has(t, Source(p)) => pending'[t][Source(p)] = pending[t][Source(p)]
           /\ Sees(t, Received(p))' = Sees(t, Received(p))
    BY <1>3, RowsDiffer
  <1>9. LinesOK(t)'
    BY <1>4 DEF LinesOK, UniqueLines
  <1>10. SourceOK(t)'
    BY <1>3, <1>6, <1>8, Parts DEF SourceOK
  <1>11. StatusOK(t)' /\ ReceivedOK(t)'
    BY <1>3, <1>4, <1>6, <1>7, <1>8, Parts DEF StatusOK, ReceivedOK
  <1>12. ~overlapped' => AloneTxOK(t)'
    BY <1>3, <1>4, <1>6, <1>8, AloneBefore DEF AloneTxOK
  <1> QED
    BY <1>3, <1>4, <1>5, <1>9, <1>10, <1>11, <1>12, LocalStep DEF TypeOK, TxOK

LEMMA MarkSentKept ==
    ASSUME IInv, NEW t \in Tx, Watch, MarkSent(t)
    PROVE  IInv'
  <1>1. /\ pc[t] = "mark" /\ pc' = [pc EXCEPT ![t] = "commit"]
        /\ lines' = lines /\ seen' = seen /\ full' = full
        /\ WriteRow(t, Transfer, "SENT")
    BY DEF MarkSent, Goto
  <1>2. "SENT" \in Columns[Transfer] /\ Transfer \in Row
    BY RowsDiffer DEF Columns, StatusValue
  <1>3. /\ DbTypeOK(Columns)' /\ committed' = committed
        /\ Has(t, Transfer)' /\ pending'[t][Transfer] = "SENT"
        /\ \A q \in Row : q # Transfer =>
              /\ Has(t, q)' = Has(t, q) /\ Sees(t, q)' = Sees(t, q)
              /\ Has(t, q) => pending'[t][q] = pending[t][q]
        /\ \A u \in Tx : u # t => pending'[u] = pending[u]
        /\ TransferStatus' = TransferStatus
        /\ \A p : StockLeft(p)' = StockLeft(p) /\ UnitsReceived(p)' = UnitsReceived(p)
    BY <1>1, <1>2, Written
  <1>4. pc'[t] = "commit" /\ lines'[t] = << >> /\ OthersRest(t)
    BY <1>1, <1>3, Parts DEF OthersRest, RequestTypeOK, LinesOK
  <1>5. RequestTypeOK'
    BY <1>1, Parts, WatchTyped DEF RequestTypeOK, Statement
  <1>6. /\ Deducting(t) /\ Deducting(t)' /\ ~Receiving(t)' /\ Remaining(t)' = Remaining(t)
        /\ lines[t] = << >>
    BY <1>1, <1>3, <1>4, Parts DEF Deducting, Receiving, Remaining, LinesOK
  <1>7. \A p \in Product :
           /\ Has(t, Source(p))' = Has(t, Source(p))
           /\ Has(t, Source(p)) => pending'[t][Source(p)] = pending[t][Source(p)]
           /\ Sees(t, Received(p))' = Sees(t, Received(p))
    BY <1>3, RowsDiffer
  <1>8. LinesOK(t)'
    BY <1>4 DEF LinesOK, UniqueLines
  <1>9. SourceOK(t)'
    BY <1>3, <1>6, <1>7, Parts DEF SourceOK
  <1>10. StatusOK(t)' /\ ReceivedOK(t)'
    BY <1>3, <1>4, <1>6, <1>7, Parts DEF StatusOK, ReceivedOK
  <1>11. ~overlapped' => AloneTxOK(t)'
    BY <1>3, <1>4, <1>6, <1>7, AloneBefore DEF AloneTxOK
  <1> QED
    BY <1>3, <1>4, <1>5, <1>8, <1>9, <1>10, <1>11, LocalStep DEF TypeOK, TxOK

-----------------------------------------------------------------------------
(* receive                                                                   *)

LEMMA ReadForReceiveKept ==
    ASSUME IInv, NEW t \in Tx, Watch, ReadForReceive(t)
    PROVE  IInv'
  <1>1. PICK receipt \in Receipt : lines' = [lines EXCEPT ![t] = receipt]
    BY DEF ReadForReceive
  <1>2. /\ pc[t] = "idle" /\ pc' = [pc EXCEPT ![t] = "receive"]
        /\ seen' = [seen EXCEPT ![t] = ItemsSeen(t)] /\ full' = full
    BY DEF ReadForReceive, Goto
  <1>3. ~Has(t, Transfer) /\ TransferStatus \notin NotSent
    BY <1>2, StatusIsCommitted DEF ReadForReceive, Receivable, NotSent
  <1>4. /\ DbTypeOK(Columns)' /\ committed' = committed /\ pending' = pending
        /\ \A q : Has(t, q)' = Has(t, q) /\ Sees(t, q)' = Sees(t, q)
        /\ TransferStatus' = TransferStatus
        /\ \A p : UnitsReceived(p)' = UnitsReceived(p)
    BY OnlyRead DEF ReadForReceive
  <1>5. receipt \in Seq(Line) /\ UniqueLines(receipt)
    BY ReceiptAssumption
  <1>6. /\ ItemsSeen(t) \in [Product -> Nat]
        /\ \A p \in Product : ItemsSeen(t)[p] = Sees(t, Received(p))
    <2>1. \A p \in Product : Sees(t, Received(p)) \in Columns[Received(p)]
      BY Parts, SeesTyped, RowsDiffer
    <2> QED BY <2>1, RowsDiffer DEF ItemsSeen, Columns
  <1>7. /\ pc'[t] = "receive" /\ lines'[t] = receipt /\ seen'[t] = ItemsSeen(t)
        /\ OthersRest(t)
    BY <1>1, <1>2, <1>4, Parts DEF OthersRest, RequestTypeOK
  <1>8. RequestTypeOK'
    BY <1>1, <1>2, <1>5, <1>6, Parts, WatchTyped DEF RequestTypeOK, Statement
  <1>9. ~Deducting(t) /\ ~Deducting(t)'
    BY <1>2, <1>7 DEF Deducting
  <1>10. LinesOK(t)'
    BY <1>5, <1>7 DEF LinesOK
  <1>11. SourceOK(t)'
    BY <1>4, <1>9, Parts DEF SourceOK
  <1>12. StatusOK(t)' /\ ReceivedOK(t)'
    <2>1. \A p \in Product : Sees(t, Received(p))' >= UnitsReceived(p)'
      BY <1>4, Parts DEF ReceivedOK
    <2> QED BY <1>3, <1>4, <1>7, <2>1 DEF StatusOK, ReceivedOK
  <1>13. Remaining(t)' \subseteq Product
    <2>1. \A i \in 1 .. Len(receipt) : receipt[i] \in Line
      BY <1>5
    <2> QED BY <1>7, <2>1, LineTyped DEF Remaining
  <1>14. ~overlapped' => AloneTxOK(t)'
    BY <1>4, <1>6, <1>7, <1>9, <1>13, AloneBefore DEF AloneTxOK
  <1> QED
    BY <1>4, <1>7, <1>8, <1>10, <1>11, <1>12, <1>14, LocalStep DEF TypeOK, TxOK

LEMMA ReceiveLineKept ==
    ASSUME IInv, NEW t \in Tx, Watch, ReceiveLine(t)
    PROVE  IInv'
  <1> PICK line : line = Head(lines[t])
    OBVIOUS
  <1> PICK p : p = line.product
    OBVIOUS
  <1> PICK total : total = Sees(t, Received(p)) + line.quantity
    OBVIOUS
  <1>1. /\ pc[t] = "receive" /\ lines[t] # << >>
        /\ lines' = [lines EXCEPT ![t] = Tail(@)]
        /\ pc' = pc /\ seen' = seen /\ full' = full
        /\ line.quantity <= Sent[p] - seen[t][p]
        /\ WriteRow(t, Received(p), total)
    BY DEF ReceiveLine, WithinOutstanding
  <1>2. lines[t] \in Seq(Line) /\ UniqueLines(lines[t])
    BY Parts DEF LinesOK
  <1>3. /\ Tail(lines[t]) \in Seq(Line) /\ UniqueLines(Tail(lines[t])) /\ line \in Line
        /\ {Tail(lines[t])[i].product : i \in 1 .. Len(Tail(lines[t]))}
              = Remaining(t) \ {p}
        /\ p \in Remaining(t)
    BY <1>1, <1>2, TailOfLines DEF Remaining
  <1>4. p \in Product /\ line.quantity \in Nat
    BY <1>3, LineTyped
  <1>5. Received(p) \in Row /\ total \in Columns[Received(p)] /\ Sees(t, Received(p)) \in Nat
    <2>1. Received(p) \in Row /\ Columns[Received(p)] = Nat
      BY <1>4, RowsDiffer DEF Columns
    <2>2. Sees(t, Received(p)) \in Nat
      BY <2>1, Parts, SeesTyped
    <2> QED BY <1>4, <2>1, <2>2
  <1>6. /\ DbTypeOK(Columns)' /\ committed' = committed
        /\ Sees(t, Received(p))' = total
        /\ \A q \in Row : q # Received(p) =>
              /\ Has(t, q)' = Has(t, q) /\ Sees(t, q)' = Sees(t, q)
              /\ Has(t, q) => pending'[t][q] = pending[t][q]
        /\ \A u \in Tx : u # t => pending'[u] = pending[u]
        /\ TransferStatus' = TransferStatus
        /\ \A q : StockLeft(q)' = StockLeft(q) /\ UnitsReceived(q)' = UnitsReceived(q)
    BY <1>1, <1>5, Written
  <1>7. /\ pc'[t] = pc[t] /\ lines'[t] = Tail(lines[t]) /\ seen'[t] = seen[t]
        /\ full'[t] = full[t] /\ OthersRest(t)
    BY <1>1, <1>6, Parts DEF OthersRest, RequestTypeOK
  <1>8. RequestTypeOK'
    BY <1>1, <1>3, Parts, WatchTyped DEF RequestTypeOK
  <1>9. Remaining(t)' = Remaining(t) \ {p}
    BY <1>3, <1>7 DEF Remaining
  <1>10. ~Deducting(t) /\ ~Deducting(t)' /\ Receiving(t)
    BY <1>1 DEF Deducting, Receiving
  <1>11. LinesOK(t)'
    BY <1>1, <1>3, <1>7 DEF LinesOK
  <1>12. SourceOK(t)'
    BY <1>4, <1>6, <1>10, Parts, RowsDiffer DEF SourceOK
  <1>13. StatusOK(t)'
    BY <1>1, <1>4, <1>6, <1>10, Parts, RowsDiffer, StatusIsCommitted DEF StatusOK
  <1>14. \A q \in Product : q # p => Sees(t, Received(q))' = Sees(t, Received(q))
    BY <1>4, <1>6, RowsDiffer
  <1>15. UnitsReceived(p) \in Nat /\ Sees(t, Received(p)) >= UnitsReceived(p)
    BY <1>4, <1>5, Parts, RowsDiffer DEF ReceivedOK, DbTypeOK, Columns, UnitsReceived
  <1>16. ReceivedOK(t)'
    <2>1. total >= UnitsReceived(p)
      BY <1>4, <1>5, <1>15
    <2>2. \A q \in Product : Sees(t, Received(q))' >= UnitsReceived(q)'
      BY <1>6, <1>14, <2>1, Parts DEF ReceivedOK
    <2> QED BY <1>1, <2>2 DEF ReceivedOK
  <1>17. ASSUME ~overlapped' PROVE AloneTxOK(t)'
    <2>1. AloneTxOK(t)
      BY <1>17, AloneBefore
    <2>2. Sees(t, Received(p)) = seen[t][p]
      BY <1>1, <1>3, <2>1 DEF AloneTxOK
    <2>3. total <= Sent[p]
      BY <1>1, <1>4, <1>5, <2>2, SentAssumption
    <2>4. \A q \in Product : Sees(t, Received(q))' <= Sent[q]
      BY <1>6, <1>14, <2>1, <2>3 DEF AloneTxOK
    <2>5. \A q \in Remaining(t) : q \in Product
      <3>1. \A i \in 1 .. Len(lines[t]) : lines[t][i] \in Line
        BY <1>2
      <3> QED BY <3>1, LineTyped DEF Remaining
    <2>6. \A q \in Remaining(t)' : Sees(t, Received(q))' = seen'[t][q]
      BY <1>1, <1>7, <1>9, <1>14, <2>1, <2>5 DEF AloneTxOK
    <2> QED BY <1>10, <2>4, <2>6 DEF AloneTxOK
  <1> QED
    BY <1>6, <1>7, <1>8, <1>11, <1>12, <1>13, <1>16, <1>17, LocalStep DEF TypeOK, TxOK

LEMMA RefreshKept ==
    ASSUME IInv, NEW t \in Tx, Watch, Refresh(t)
    PROVE  IInv'
  <1>1. /\ pc[t] = "receive" /\ lines[t] = << >> /\ pc' = [pc EXCEPT ![t] = "close"]
        /\ lines' = lines /\ seen' = seen
        /\ full' = [full EXCEPT ![t] = FullyReceived(t)]
    BY DEF Refresh, Goto
  <1>2. /\ DbTypeOK(Columns)' /\ committed' = committed /\ pending' = pending
        /\ \A q : Has(t, q)' = Has(t, q) /\ Sees(t, q)' = Sees(t, q)
        /\ TransferStatus' = TransferStatus
        /\ \A p : StockLeft(p)' = StockLeft(p) /\ UnitsReceived(p)' = UnitsReceived(p)
    BY OnlyRead DEF Refresh
  <1>3. pc'[t] = "close" /\ lines'[t] = << >> /\ OthersRest(t)
    BY <1>1, <1>2, Parts DEF OthersRest, RequestTypeOK
  <1>4. full'[t] = FullyReceived(t)
    BY <1>1, Parts DEF RequestTypeOK
  <1>5. RequestTypeOK'
    <2>1. full' \in [Tx -> BOOLEAN]
      BY <1>1, Parts DEF RequestTypeOK, FullyReceived
    <2> QED BY <1>1, <2>1, Parts, WatchTyped DEF RequestTypeOK, Statement
  <1>6. ~Deducting(t) /\ ~Deducting(t)' /\ Receiving(t) /\ ~Has(t, Transfer)
    BY <1>1, <1>3, StatusIsCommitted DEF Deducting, Receiving
  <1>7. LinesOK(t)'
    BY <1>3 DEF LinesOK, UniqueLines
  <1>8. SourceOK(t)'
    BY <1>2, <1>6, Parts DEF SourceOK
  <1>9. StatusOK(t)'
    BY <1>2, <1>3, <1>6, Parts DEF StatusOK
  <1>10. ReceivedOK(t)'
    <2>1. full'[t] => \A p \in Product : Sees(t, Received(p))' >= Sent[p]
      BY <1>2, <1>4 DEF FullyReceived
    <2> QED BY <1>2, <1>3, <2>1, Parts DEF ReceivedOK
  <1>11. ~overlapped' => AloneTxOK(t)'
    BY <1>2, <1>3, <1>6, AloneBefore DEF AloneTxOK
  <1> QED
    BY <1>2, <1>3, <1>5, <1>7, <1>8, <1>9, <1>10, <1>11, LocalStep DEF TypeOK, TxOK

LEMMA CloseKept ==
    ASSUME IInv, NEW t \in Tx, Watch, Close(t)
    PROVE  IInv'
  <1> PICK status : status = StatusAfter(t)
    OBVIOUS
  <1>1. /\ pc[t] = "close" /\ pc' = [pc EXCEPT ![t] = "commit"]
        /\ lines' = lines /\ seen' = seen /\ full' = full
        /\ WriteRow(t, Transfer, status)
    BY DEF Close, Goto
  <1>2. /\ status \in {"PARTIALLY_RECEIVED", "RECEIVED"} /\ (status = "RECEIVED" => full[t])
        /\ status \in Columns[Transfer] /\ Transfer \in Row
    BY RowsDiffer DEF StatusAfter, Columns, StatusValue
  <1>3. /\ DbTypeOK(Columns)' /\ committed' = committed
        /\ Has(t, Transfer)' /\ pending'[t][Transfer] = status
        /\ \A q \in Row : q # Transfer =>
              Has(t, q)' = Has(t, q) /\ Sees(t, q)' = Sees(t, q)
        /\ \A u \in Tx : u # t => pending'[u] = pending[u]
        /\ TransferStatus' = TransferStatus
        /\ \A p : StockLeft(p)' = StockLeft(p) /\ UnitsReceived(p)' = UnitsReceived(p)
    BY <1>1, <1>2, Written
  <1>4. pc'[t] = "commit" /\ lines'[t] = << >> /\ OthersRest(t)
    BY <1>1, <1>3, Parts DEF OthersRest, RequestTypeOK, LinesOK
  <1>5. RequestTypeOK'
    BY <1>1, Parts, WatchTyped DEF RequestTypeOK, Statement
  <1>6. ~Deducting(t) /\ ~Deducting(t)' /\ Receiving(t)
    BY <1>1, <1>2, <1>3, <1>4 DEF Deducting, Receiving
  <1>7. \A p \in Product :
           Has(t, Source(p))' = Has(t, Source(p)) /\ Sees(t, Received(p))' = Sees(t, Received(p))
    BY <1>3, RowsDiffer
  <1>8. LinesOK(t)'
    BY <1>4 DEF LinesOK, UniqueLines
  <1>9. SourceOK(t)'
    BY <1>6, <1>7, Parts DEF SourceOK
  <1>10. StatusOK(t)'
    BY <1>2, <1>3, <1>4, <1>6, Parts DEF StatusOK
  <1>11. ReceivedOK(t)'
    BY <1>1, <1>2, <1>3, <1>4, <1>7, Parts DEF ReceivedOK
  <1>12. ~overlapped' => AloneTxOK(t)'
    BY <1>3, <1>4, <1>6, <1>7, AloneBefore DEF AloneTxOK
  <1> QED
    BY <1>3, <1>4, <1>5, <1>8, <1>9, <1>10, <1>11, <1>12, LocalStep DEF TypeOK, TxOK

-----------------------------------------------------------------------------
(* The end of a transaction.                                                 *)

LEMMA Finished ==
    ASSUME IInv, NEW t \in Tx, Watch, Finish(t)
    PROVE  /\ RequestTypeOK'
           /\ pc'[t] = "idle" /\ lines'[t] = << >>
           /\ (\A u \in Tx : u # t => pending'[u] = pending[u]) => OthersRest(t)
  <1>1. NothingSeen \in [Product -> Nat] /\ << >> \in Seq(Line)
    BY DEF NothingSeen
  <1>2. /\ pc' = [pc EXCEPT ![t] = "idle"] /\ lines' = [lines EXCEPT ![t] = << >>]
        /\ seen' = [seen EXCEPT ![t] = NothingSeen] /\ full' = [full EXCEPT ![t] = FALSE]
    BY DEF Finish, Goto
  <1> QED BY <1>1, <1>2, Parts, WatchTyped DEF RequestTypeOK, OthersRest, Statement

LEMMA RollbackKept ==
    ASSUME IInv, NEW t \in Tx, Watch, RollbackTx(t), Finish(t)
    PROVE  IInv'
  <1>1. DbTypeOK(Columns)'
    BY Parts, RollbackTyped
  <1>2. /\ committed' = committed /\ DOMAIN pending'[t] = {}
        /\ \A u \in Tx : u # t => pending'[u] = pending[u]
    BY Parts, RollbackSeen
  <1>3. RequestTypeOK' /\ pc'[t] = "idle" /\ lines'[t] = << >> /\ OthersRest(t)
    BY <1>2, Finished
  <1>4. /\ \A q : ~Has(t, q)'
        /\ \A p : Sees(t, Received(p))' = UnitsReceived(p) /\ UnitsReceived(p)' = UnitsReceived(p)
    BY <1>2 DEF Has, Sees, UnitsReceived
  <1>5. ~Deducting(t)' /\ ~Receiving(t)'
    BY <1>3 DEF Deducting, Receiving
  <1>6. LinesOK(t)' /\ SourceOK(t)' /\ StatusOK(t)'
    BY <1>3, <1>4, <1>5 DEF LinesOK, UniqueLines, SourceOK, StatusOK
  <1>7. ReceivedOK(t)'
    <2>1. \A p \in Product : UnitsReceived(p) >= UnitsReceived(p)
      <3>1. \A p \in Product : UnitsReceived(p) \in Nat
        BY Parts, RowsDiffer DEF DbTypeOK, Columns, UnitsReceived
      <3> QED BY <3>1
    <2> QED BY <1>3, <1>4, <2>1 DEF ReceivedOK
  <1>8. ASSUME ~overlapped' PROVE AloneTxOK(t)'
    <2>1. ~overlapped
      BY <1>8, OneAtATime DEF IInv, TypeOK
    <2> QED BY <1>3, <1>4, <1>5, <2>1 DEF IInv, ReceivedAtMostSent, AloneTxOK
  <1> QED BY <1>1, <1>2, <1>3, <1>6, <1>7, <1>8, LocalStep DEF TypeOK, TxOK

\* The rows that a commit publishes, and those it leaves.
LEMMA Committed ==
    ASSUME IInv, NEW t \in Tx, Commit(t), NEW status, status = pending[t][Transfer]
    PROVE  /\ Has(t, Transfer) /\ TransferStatus' = status
           /\ status \in {"DRAFT", "SENT", "PARTIALLY_RECEIVED", "RECEIVED"}
           /\ Deducting(t) <=> status = "SENT"
           /\ Receiving(t) <=> status \in {"PARTIALLY_RECEIVED", "RECEIVED"}
           /\ \A p \in Product :
                 StockLeft(p)' = IF status = "SENT" THEN StockLeft(p) - Sent[p] ELSE StockLeft(p)
           /\ \A p \in Product : UnitsReceived(p)' = Sees(t, Received(p))
           /\ \A u \in Tx : u # t => ~Has(u, Transfer)
  <1>1. pc[t] = "commit" /\ CommitTx(t)
    BY DEF Commit
  <1>2. Has(t, Transfer) /\ status \in {"DRAFT", "SENT", "PARTIALLY_RECEIVED", "RECEIVED"}
    BY <1>1, Parts DEF StatusOK
  <1>3. \A r \in Row : committed'[r] = Sees(t, r)
    BY <1>1, Parts, CommitSeen
  <1>4. TransferStatus' = status
    BY <1>2, <1>3, RowsDiffer DEF TransferStatus, Sees, Has
  <1>5. /\ Deducting(t) <=> status = "SENT"
        /\ Receiving(t) <=> status \in {"PARTIALLY_RECEIVED", "RECEIVED"}
    BY <1>1 DEF Deducting, Receiving
  <1>6. Remaining(t) = {}
    <2>1. lines[t] = << >>
      BY <1>1, Parts DEF LinesOK
    <2> QED BY <2>1 DEF Remaining
  <1>7. ASSUME NEW p \in Product
        PROVE  StockLeft(p)' = IF status = "SENT" THEN StockLeft(p) - Sent[p] ELSE StockLeft(p)
    <2>1. StockLeft(p)' = Sees(t, Source(p))
      BY <1>3, RowsDiffer DEF StockLeft
    <2>2. CASE status = "SENT"
      <3>1. Has(t, Source(p)) /\ pending[t][Source(p)] = StockLeft(p) - Sent[p]
        BY <2>2, <1>5, <1>6, Parts DEF SourceOK
      <3> QED BY <2>1, <2>2, <3>1 DEF Sees, Has
    <2>3. CASE status # "SENT"
      <3>1. ~Has(t, Source(p))
        BY <2>3, <1>5, Parts DEF SourceOK
      <3> QED BY <2>1, <2>3, <3>1 DEF Sees, Has, StockLeft
    <2> QED BY <2>2, <2>3
  <1>8. \A p \in Product : UnitsReceived(p)' = Sees(t, Received(p))
    BY <1>3, RowsDiffer DEF UnitsReceived
  <1>9. \A u \in Tx : u # t => ~Has(u, Transfer)
    <2>1. DbTypeOK(Columns)
      BY Parts
    <2> HIDE DEF Columns
    <2> QED BY <1>2, <2>1 DEF DbTypeOK, Has
  <1> QED BY <1>2, <1>4, <1>5, <1>7, <1>8, <1>9

LEMMA CommitKept ==
    ASSUME IInv, NEW t \in Tx, Watch, Commit(t)
    PROVE  IInv'
  <1> PICK status : status = pending[t][Transfer]
    OBVIOUS
  <1>1. pc[t] = "commit" /\ CommitTx(t) /\ Finish(t)
    BY DEF Commit
  <1>2. /\ Has(t, Transfer) /\ TransferStatus' = status
        /\ status \in {"DRAFT", "SENT", "PARTIALLY_RECEIVED", "RECEIVED"}
        /\ Deducting(t) <=> status = "SENT"
        /\ Receiving(t) <=> status \in {"PARTIALLY_RECEIVED", "RECEIVED"}
        /\ \A p \in Product :
              StockLeft(p)' = IF status = "SENT" THEN StockLeft(p) - Sent[p] ELSE StockLeft(p)
        /\ \A p \in Product : UnitsReceived(p)' = Sees(t, Received(p))
        /\ \A u \in Tx : u # t => ~Has(u, Transfer)
    BY Committed
  <1>3. DbTypeOK(Columns)'
    BY <1>1, Parts, CommitTyped
  <1>4. /\ DOMAIN pending'[t] = {}
        /\ \A u \in Tx : u # t => pending'[u] = pending[u]
        /\ \A u \in Tx, r \in Row :
              u # t /\ r \in DOMAIN pending[u] => committed'[r] = committed[r]
        /\ \A u \in Tx, r \in Row :
              u # t => Sees(u, r)' = IF r \in DOMAIN pending[u] THEN Sees(u, r) ELSE Sees(t, r)
    <2> HIDE DEF Columns
    <2> QED BY <1>1, Parts, CommitSeen
  <1>5. RequestTypeOK' /\ pc'[t] = "idle" /\ lines'[t] = << >> /\ OthersRest(t)
    BY <1>1, <1>4, Finished
  <1>6. \A p \in Product : /\ Sees(t, Received(p)) \in Nat /\ Sees(t, Received(p)) >= UnitsReceived(p)
                           /\ UnitsReceived(p) \in Nat /\ StockLeft(p) \in Nat
                           /\ StockLeft(p)' \in Nat
    <2>1. ASSUME NEW p \in Product PROVE Sees(t, Received(p)) \in Columns[Received(p)]
      BY Parts, SeesTyped, RowsDiffer
    <2>2. \A p \in Product : Columns[Received(p)] = Nat /\ Columns[Source(p)] = Nat
      BY RowsDiffer DEF Columns
    <2>3. \A p \in Product : /\ UnitsReceived(p) \in Columns[Received(p)]
                             /\ StockLeft(p) \in Columns[Source(p)]
      BY Parts, RowsDiffer DEF DbTypeOK, UnitsReceived, StockLeft
    <2>4. \A p \in Product : StockLeft(p)' \in Columns[Source(p)]
      BY <1>3, RowsDiffer DEF DbTypeOK, Columns, StockLeft
    <2> QED BY <2>1, <2>2, <2>3, <2>4, Parts DEF ReceivedOK
  <1>7. /\ status = "DRAFT" => TransferStatus = "absent"
        /\ status \in {"PARTIALLY_RECEIVED", "RECEIVED"} => TransferStatus \notin NotSent
        /\ status = "RECEIVED" => \A p \in Product : Sees(t, Received(p)) >= Sent[p]
    BY <1>1, <1>2, Parts DEF StatusOK, ReceivedOK
  <1>8. TxOK(t)'
    <2>1. ~Deducting(t)' /\ ~Receiving(t)' /\ \A q : ~Has(t, q)'
      BY <1>4, <1>5 DEF Deducting, Receiving, Has
    <2>2. \A p \in Product : Sees(t, Received(p))' = UnitsReceived(p)'
      BY <1>4 DEF Sees, UnitsReceived
    <2>3. LinesOK(t)' /\ SourceOK(t)' /\ StatusOK(t)'
      BY <1>5, <2>1 DEF LinesOK, UniqueLines, SourceOK, StatusOK
    <2>4. \A p \in Product : UnitsReceived(p)' >= UnitsReceived(p)'
      BY <1>2, <1>6
    <2>5. ReceivedOK(t)'
      BY <1>5, <2>2, <2>4 DEF ReceivedOK
    <2> QED BY <2>3, <2>5 DEF TxOK
  <1>9. ASSUME NEW u \in Tx, u # t PROVE TxOK(u)'
    <2>1. /\ pc'[u] = pc[u] /\ lines'[u] = lines[u] /\ seen'[u] = seen[u]
          /\ full'[u] = full[u] /\ pending'[u] = pending[u]
      BY <1>5, <1>9 DEF OthersRest
    <2>2. /\ Deducting(u)' = Deducting(u) /\ Receiving(u)' = Receiving(u)
          /\ Remaining(u)' = Remaining(u) /\ \A q : Has(u, q)' = Has(u, q)
      BY <2>1 DEF Deducting, Receiving, Remaining, Has
    <2>3. LinesOK(u)'
      BY <2>1, Parts DEF LinesOK
    <2>4. SourceOK(u)'
      <3>1. \A p \in Product : Has(u, Source(p)) => StockLeft(p)' = StockLeft(p)
        BY <1>4, <1>9, RowsDiffer DEF Has, StockLeft
      <3> QED BY <2>1, <2>2, <3>1, Parts DEF SourceOK
    <2>5. StatusOK(u)'
      <3>1. ~Has(u, Transfer) /\ StatusOK(u)
        BY <1>2, <1>9, Parts
      <3>2. Receiving(u) => status \notin NotSent
        BY <1>2, <1>7, <3>1 DEF StatusOK, NotSent
      <3> QED BY <1>2, <2>1, <2>2, <3>1, <3>2 DEF StatusOK
    <2>6. ReceivedOK(u)'
      <3>1. ASSUME NEW p \in Product
            PROVE  /\ Sees(u, Received(p))' >= UnitsReceived(p)'
                   /\ Sees(u, Received(p)) >= Sent[p] => Sees(u, Received(p))' >= Sent[p]
        <4>1. Received(p) \in Row /\ Sees(u, Received(p)) >= UnitsReceived(p)
          BY Parts, RowsDiffer DEF ReceivedOK
        <4>2. CASE Has(u, Received(p))
          <5>1. Sees(u, Received(p))' = Sees(u, Received(p)) /\ UnitsReceived(p)' = UnitsReceived(p)
            BY <1>4, <1>9, <4>1, <4>2 DEF Has, UnitsReceived
          <5> QED BY <4>1, <5>1
        <4>3. CASE ~Has(u, Received(p))
          <5>1. /\ Sees(u, Received(p))' = Sees(t, Received(p))
                /\ Sees(u, Received(p)) = UnitsReceived(p)
            BY <1>4, <1>9, <4>1, <4>3 DEF Has, Sees, UnitsReceived
          <5>2. /\ Sees(t, Received(p)) \in Nat /\ UnitsReceived(p) \in Nat /\ Sent[p] \in Nat
                /\ Sees(t, Received(p)) >= UnitsReceived(p)
                /\ UnitsReceived(p)' = Sees(t, Received(p))
            BY <1>2, <1>6, SentAssumption
          <5> QED BY <5>1, <5>2
        <4> QED BY <4>2, <4>3
      <3>2. ~(pc[u] = "commit" /\ pending[u][Transfer] = "RECEIVED")
        BY <1>2, <1>9, Parts DEF StatusOK
      <3> QED BY <2>1, <3>1, <3>2, Parts DEF ReceivedOK
    <2> QED BY <2>3, <2>4, <2>5, <2>6 DEF TxOK
  <1>10. AloneOK'
    <2> SUFFICES ASSUME ~overlapped'
                 PROVE  /\ \A u, v \in Tx : pc'[u] # "idle" /\ pc'[v] # "idle" => u = v
                        /\ \A u \in Tx : AloneTxOK(u)'
      BY DEF AloneOK
    <2>1. /\ \A u \in Tx : AloneTxOK(u)
          /\ \A u, v \in Tx : pc[u] # "idle" /\ pc[v] # "idle" => u = v
          /\ \A u, v \in Tx : pc'[u] # "idle" /\ pc'[v] # "idle" => u = v
      BY OneAtATime DEF IInv, TypeOK
    <2>2. ASSUME NEW u \in Tx PROVE AloneTxOK(u)'
      <3>1. pc'[u] = "idle"
        BY <1>1, <1>5, <2>1 DEF OthersRest
      <3>2. \A p \in Product : Sees(u, Received(p))' <= Sent[p]
        <4>1. CASE u = t
          BY <1>2, <1>4, <2>1, <4>1 DEF Sees, UnitsReceived, AloneTxOK
        <4>2. CASE u # t
          BY <1>4, <2>1, <4>2, RowsDiffer DEF AloneTxOK
        <4> QED BY <4>1, <4>2
      <3> QED BY <3>1, <3>2 DEF AloneTxOK, Deducting
    <2> QED BY <2>1, <2>2
  <1>11. DeductionsAreWhole'
    <2>1. PICK times \in UNION {0 .. Opening[p] : p \in Product} :
              /\ \A p \in Product : StockLeft(p) = Opening[p] - times * Sent[p]
              /\ times = 0 <=> TransferStatus \in NotSent
      BY DEF IInv, DeductionsAreWhole
    <2>2. times \in Nat
      BY <2>1, OpeningAssumption
    <2>3. CASE status = "SENT"
      <3>1. ASSUME NEW p \in Product
            PROVE  /\ StockLeft(p)' = Opening[p] - (times + 1) * Sent[p]
                   /\ times + 1 \in 0 .. Opening[p]
        <4>1. /\ Opening[p] \in Nat /\ Sent[p] \in Nat /\ Sent[p] >= 1
              /\ StockLeft(p) = Opening[p] - times * Sent[p]
              /\ StockLeft(p)' = StockLeft(p) - Sent[p] /\ StockLeft(p)' \in Nat
          BY <1>2, <1>6, <2>1, <2>3, OpeningAssumption, SentAssumption
        <4>2. (times + 1) * Sent[p] = times * Sent[p] + Sent[p] /\ times * Sent[p] \in Nat
          BY <2>2, <4>1
        <4>3. StockLeft(p)' = Opening[p] - (times + 1) * Sent[p]
          BY <4>1, <4>2
        <4>4. \A m, k \in Nat : k >= 1 => m * k >= m
          OBVIOUS
        <4>5. (times + 1) * Sent[p] >= times + 1 /\ (times + 1) * Sent[p] \in Nat
          BY <2>2, <4>1, <4>4
        <4> QED BY <2>2, <4>1, <4>3, <4>5
      <3>2. times + 1 \in UNION {0 .. Opening[p] : p \in Product}
        BY <3>1, ProductAssumption
      <3>3. times + 1 # 0 /\ TransferStatus' \notin NotSent
        BY <1>2, <2>2, <2>3 DEF NotSent
      <3> QED BY <3>1, <3>2, <3>3 DEF DeductionsAreWhole
    <2>4. CASE status # "SENT"
      <3>1. TransferStatus' \in NotSent <=> TransferStatus \in NotSent
        BY <1>2, <1>7, <2>4 DEF NotSent
      <3>2. \A p \in Product : StockLeft(p)' = Opening[p] - times * Sent[p]
        BY <1>2, <2>1, <2>4
      <3> QED BY <2>1, <3>1, <3>2 DEF DeductionsAreWhole
    <2> QED BY <2>3, <2>4
  <1>12. ReceivedIsComplete'
    BY <1>2, <1>7 DEF ReceivedIsComplete
  <1>13. DeductedOnceUnlessRaced'
    <2> SUFFICES ASSUME ~overlapped', NEW p \in Product
                 PROVE  StockLeft(p)'
                           = Opening[p] - (IF TransferStatus' \in NotSent THEN 0 ELSE Sent[p])
      BY DEF DeductedOnceUnlessRaced, DeductedOnce
    <2>1. ~overlapped /\ AloneTxOK(t)
      BY OneAtATime DEF IInv, TypeOK
    <2>2. StockLeft(p) = Opening[p] - (IF TransferStatus \in NotSent THEN 0 ELSE Sent[p])
      BY <2>1 DEF IInv, DeductedOnceUnlessRaced, DeductedOnce
    <2>3. CASE status = "SENT"
      <3>1. TransferStatus \in NotSent /\ TransferStatus' \notin NotSent
        BY <1>2, <2>1, <2>3 DEF AloneTxOK, NotSent
      <3> QED BY <1>2, <2>2, <2>3, <3>1, OpeningAssumption, SentAssumption
    <2>4. CASE status # "SENT"
      <3>1. TransferStatus' \in NotSent <=> TransferStatus \in NotSent
        BY <1>2, <1>7, <2>4 DEF NotSent
      <3> QED BY <1>2, <2>2, <2>4, <3>1
    <2> QED BY <2>3, <2>4
  <1>14. ReceivedAtMostSent'
    BY <1>2, OneAtATime DEF IInv, TypeOK, ReceivedAtMostSent, AloneTxOK
  <1>15. \A u \in Tx : TxOK(u)'
    BY <1>8, <1>9
  <1>16. TypeOK'
    BY <1>3, <1>5 DEF TypeOK
  <1> QED BY <1>10, <1>11, <1>12, <1>13, <1>14, <1>15, <1>16 DEF IInv

-----------------------------------------------------------------------------
(* Every behaviour.                                                          *)

LEMMA StutterKept == IInv /\ UNCHANGED vars => IInv'
  <1> SUFFICES ASSUME IInv, UNCHANGED vars PROVE IInv'
    OBVIOUS
  <1>1. /\ committed' = committed /\ pending' = pending /\ holder' = holder /\ pc' = pc
        /\ lines' = lines /\ seen' = seen /\ full' = full /\ overlapped' = overlapped
    BY DEF vars
  <1>2. TypeOK'
    BY <1>1 DEF IInv, TypeOK, DbTypeOK, RequestTypeOK
  <1>3. ASSUME NEW u \in Tx
        PROVE  TxOK(u)' /\ (AloneTxOK(u) => AloneTxOK(u)')
    <2>1. /\ Deducting(u)' = Deducting(u) /\ Receiving(u)' = Receiving(u)
          /\ Remaining(u)' = Remaining(u)
      BY <1>1 DEF Deducting, Receiving, Remaining
    <2>2. /\ \A r : Sees(u, r)' = Sees(u, r) /\ Has(u, r)' = Has(u, r)
          /\ TransferStatus' = TransferStatus
          /\ \A p : StockLeft(p)' = StockLeft(p) /\ UnitsReceived(p)' = UnitsReceived(p)
      BY <1>1 DEF Sees, Has, TransferStatus, StockLeft, UnitsReceived
    <2>3. LinesOK(u)' /\ SourceOK(u)' /\ StatusOK(u)' /\ ReceivedOK(u)'
      <3>1. LinesOK(u)' /\ SourceOK(u)'
        BY <1>1, <2>1, <2>2, Parts DEF LinesOK, SourceOK
      <3>2. StatusOK(u)' /\ ReceivedOK(u)'
        BY <1>1, <2>1, <2>2, Parts DEF StatusOK, ReceivedOK
      <3> QED BY <3>1, <3>2
    <2>4. AloneTxOK(u) => AloneTxOK(u)'
      BY <1>1, <2>1, <2>2 DEF AloneTxOK
    <2> QED BY <2>3, <2>4 DEF TxOK
  <1>4. AloneOK'
    BY <1>1, <1>3 DEF IInv, AloneOK
  <1>5. /\ DeductionsAreWhole' /\ ReceivedIsComplete'
        /\ DeductedOnceUnlessRaced' /\ ReceivedAtMostSent'
    BY <1>1
    DEF IInv, DeductionsAreWhole, ReceivedIsComplete, DeductedOnceUnlessRaced, DeductedOnce,
        ReceivedAtMostSent, TransferStatus, StockLeft, UnitsReceived
  <1> QED BY <1>2, <1>3, <1>4, <1>5 DEF IInv

LEMMA NextKept == IInv /\ Next => IInv'
  <1> SUFFICES ASSUME IInv, Serve, Watch PROVE IInv'
    BY DEF Next
  <1>1. PICK t \in Tx :
            \/ Create(t)
            \/ ReadForSend(t) \/ Deduct(t) \/ Deducted(t) \/ PostFundMovement(t) \/ MarkSent(t)
            \/ ReadForReceive(t) \/ ReceiveLine(t) \/ Refresh(t) \/ Close(t)
            \/ Commit(t) \/ Insufficient(t) \/ ExceedsOutstanding(t) \/ Abort(t)
    BY DEF Serve
  <1>2. CASE Create(t)
    BY <1>2, CreateKept
  <1>3. CASE ReadForSend(t)
    BY <1>3, ReadForSendKept
  <1>4. CASE Deduct(t)
    BY <1>4, DeductKept
  <1>5. CASE Deducted(t)
    BY <1>5, DeductedKept
  <1>6. CASE PostFundMovement(t)
    BY <1>6, PostFundMovementKept
  <1>7. CASE MarkSent(t)
    BY <1>7, MarkSentKept
  <1>8. CASE ReadForReceive(t)
    BY <1>8, ReadForReceiveKept
  <1>9. CASE ReceiveLine(t)
    BY <1>9, ReceiveLineKept
  <1>10. CASE Refresh(t)
    BY <1>10, RefreshKept
  <1>11. CASE Close(t)
    BY <1>11, CloseKept
  <1>12. CASE Commit(t)
    BY <1>12, CommitKept
  <1>13. CASE Insufficient(t)
    BY <1>13, RollbackKept DEF Insufficient
  <1>14. CASE ExceedsOutstanding(t)
    BY <1>14, RollbackKept DEF ExceedsOutstanding
  <1>15. CASE Abort(t)
    BY <1>15, RollbackKept DEF Abort
  <1> QED
    BY <1>1, <1>2, <1>3, <1>4, <1>5, <1>6, <1>7, <1>8, <1>9, <1>10, <1>11, <1>12, <1>13,
       <1>14, <1>15

\* The rows and the requests' locals keep their types, and what each request
\* has in hand is what its place in the code says.
THEOREM SpecIInv == Spec => []IInv
  <1>1. IInv /\ [Next]_vars => IInv'
    BY NextKept, StutterKept
  <1> QED BY InitIInv, <1>1, PTL DEF Spec

\* Whatever fails or races between two deductions, the source stock is short of
\* a whole number of the transfer's sets of products, and of none exactly while
\* the transfer is not past DRAFT (create and send).
THEOREM DeductionsStayWhole == Spec => []DeductionsAreWhole
  <1>1. IInv => DeductionsAreWhole
    BY DEF IInv
  <1> QED BY SpecIInv, <1>1, PTL

\* However many receipts race to complete a transfer, it is RECEIVED only when
\* every unit sent is there (receive's refreshed read).
THEOREM ReceivedMeansComplete == Spec => []ReceivedIsComplete
  <1>1. IInv => ReceivedIsComplete
    BY DEF IInv
  <1> QED BY SpecIInv, <1>1, PTL

\* Until two requests overlap, the status is a guard that works: the source is
\* deducted once, by send or by the create that sends.
THEOREM OneDeduction == Spec => []DeductedOnceUnlessRaced
  <1>1. IInv => DeductedOnceUnlessRaced
    BY DEF IInv
  <1> QED BY SpecIInv, <1>1, PTL

\* Until two requests overlap, receipts never add up to more than was sent.
THEOREM NothingIsCreated == Spec => []ReceivedAtMostSent
  <1>1. IInv => ReceivedAtMostSent
    BY DEF IInv
  <1> QED BY SpecIInv, <1>1, PTL
=============================================================================
