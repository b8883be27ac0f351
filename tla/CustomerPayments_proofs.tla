---------------------- MODULE CustomerPayments_proofs ----------------------
(***************************************************************************)
(* Theorems of CustomerPayments, for any number of requests, payments,     *)
(* customers and amounts: vouchers and payments agree, and the due         *)
(* balances follow from the payments.                                      *)
(***************************************************************************)
EXTENDS CustomerPayments, ReadCommitted_proofs

-----------------------------------------------------------------------------
(* Types. *)

EventValue ==
    {NoEvent} \cup
        {e \in [status : {"pending", "skipped", "posted"},
                voucher : {NoNumber} \cup VoucherNumber, id : Tx] :
            e.status = "posted" <=> e.voucher # NoNumber}

VoucherValue == {NoVoucher} \cup [source : Source, amount : Amount]

AnyAmount == Amount \cup {NoPayment}

\* The columns of each table.
Columns ==
    [r \in Row |->
        IF r = Sequence THEN Nat
        ELSE IF r \in {Event(s) : s \in Source} THEN EventValue
        ELSE IF r \in {Number(n) : n \in VoucherNumber} THEN VoucherValue
        ELSE IF r \in {Customer(c) : c \in Buyer} THEN Int
        ELSE AnyAmount]

Statement ==
    {"idle", "insert", "customer", "void", "delete", "voided", "balance", "post",
     "rule", "increment", "voucher", "commit", "retry"} \cup Done

RequestTypeOK ==
    /\ pc \in [Tx -> Statement]
    /\ source \in [Tx -> Source]
    /\ amount \in [Tx -> AnyAmount]
    /\ found \in [Tx -> EventValue]
    /\ number \in [Tx -> Nat]
    /\ old \in [Tx -> AnyAmount]
    /\ due \in [Tx -> Int]

TypeOK == DbTypeOK(Columns) /\ RequestTypeOK

-----------------------------------------------------------------------------
(* The inductive invariant.  What is committed agrees because what each     *)
(* request will commit agrees, seen with its eyes; and that stays so while  *)
(* others commit, because of the locks and because a payment that is being  *)
(* recorded is nobody else's business yet.                                  *)

Has(t, r) == r \in DOMAIN pending[t]
MyPayment(t) == Payment(source[t])
MyEvent(t) == Event(source[t])

\* The statements of a request that has taken the old voucher back, and those
\* of one that has written its payment.
Late == {"balance", "post", "rule", "increment", "voucher", "commit"}
Writing == Late \cup {"voided"}

\* v is a voucher of the document s, or none.
IsVoucherOf(v, s) == v = NoVoucher \/ v.source = s

\* A request writes the rows of its own document, and no other's voucher.
RowsOK(t) ==
    /\ pc[t] \notin Writing => DOMAIN pending[t] = {}
    /\ DOMAIN pending[t] \subseteq {MyPayment(t), MyEvent(t), Payer(t), Sequence}
                                      \cup {Number(n) : n \in VoucherNumber}
    /\ \A n \in VoucherNumber :
          Has(t, Number(n)) => /\ IsVoucherOf(committed[Number(n)], source[t])
                               /\ IsVoucherOf(pending[t][Number(n)], source[t])

\* The event a request has found is gone, or has the voucher it had: an event
\* gets its voucher in the transaction that creates it, or never.
FoundOK(t) ==
    pc[t] \in {"delete", "retry"} =>
        /\ found[t].id \in Tx /\ pc[found[t].id] = "committed"
        /\ EventOf(source[t]).id = found[t].id => EventOf(source[t]).voucher = found[t].voucher
        /\ pc[t] = "retry" => found[t].voucher = NoNumber

\* What the request sees of its document's vouchers, and what it has done.
ViewOK(t) ==
    pc[t] \in Writing =>
        /\ Has(t, MyEvent(t)) \/ Paid(source[t]) = NoPayment
        /\ \A n \in VoucherNumber :
              LET v == Sees(t, Number(n))
              IN  v # NoVoucher /\ v.source = source[t] => SeenEvent(t).voucher = n
        /\ pc[t] = "voided" => ~Has(t, MyPayment(t))
        /\ pc[t] \in {"voided", "balance", "post"} => SeenEvent(t) = NoEvent
        /\ pc[t] \in {"rule", "increment", "voucher"} =>
              /\ Has(t, MyEvent(t))
              /\ SeenEvent(t) = [status |-> "pending", voucher |-> NoNumber, id |-> t]
        /\ pc[t] \in Late => Has(t, MyPayment(t)) /\ SeenPayment(t) = amount[t]
        /\ pc[t] \in Late \ {"balance", "commit"} => amount[t] \in Amount
        /\ pc[t] = "commit" =>
              LET e == SeenEvent(t)
              IN  /\ amount[t] = NoPayment <=> e = NoEvent
                  /\ e.id \in {NoTx, t}
                  /\ e.voucher # NoNumber =>
                        Sees(t, Number(e.voucher)) = [source |-> source[t], amount |-> amount[t]]

\* A payment that is not on the books yet is that of one request.
FreshOK(t) ==
    /\ pc[t] = "insert" => Paid(source[t]) = NoPayment /\ amount[t] \in Amount
    /\ pc[t] \in Late \cup {"insert"} /\ Paid(source[t]) = NoPayment =>
          \A u \in Tx : u # t /\ source[u] = source[t] => pc[u] = "idle"

TxOK(t) == RowsOK(t) /\ FoundOK(t) /\ ViewOK(t) /\ FreshOK(t)

\* Payments on the books have been recorded by a request, and so have events.
RecordedOK ==
    \A s \in Source :
        /\ Paid(s) # NoPayment => \E u \in Tx : source[u] = s /\ pc[u] # "idle"
        /\ EventOf(s).id \in Tx => pc[EventOf(s).id] = "committed"

IInv ==
    /\ TypeOK
    /\ \A t \in Tx : TxOK(t)
    /\ RecordedOK
    /\ VouchersMatchPayments

-----------------------------------------------------------------------------
(* Rows. *)

LEMMA RowsDiffer ==
    /\ Sequence \in Row
    /\ \A s \in Source :
          /\ Event(s) \in Row /\ Payment(s) \in Row
          /\ Event(s) # Sequence /\ Payment(s) # Sequence
          /\ Customer(CustomerOf[s]) \in Row /\ CustomerOf[s] \in Buyer
          /\ \A q \in Source :
                /\ Event(s) # Payment(q)
                /\ Event(s) = Event(q) => s = q
                /\ Payment(s) = Payment(q) => s = q
          /\ \A n \in VoucherNumber : Event(s) # Number(n) /\ Payment(s) # Number(n)
          /\ \A c : Event(s) # Customer(c) /\ Payment(s) # Customer(c)
    /\ \A n \in VoucherNumber :
          /\ Number(n) \in Row /\ Number(n) # Sequence
          /\ \A m : Number(n) = Number(m) => n = m
          /\ \A c : Number(n) # Customer(c)
    /\ \A c \in Buyer :
          /\ Customer(c) \in Row /\ Customer(c) # Sequence
          /\ \A d : Customer(c) = Customer(d) => c = d
  <1>1. \A s \in Source : CustomerOf[s] \in Buyer
    BY AmountAssumption
  <1>2. \A s \in Source : Event(s) \in Row /\ Payment(s) \in Row
    BY RowAssumption DEF PostingRows
  <1>3. \A n \in VoucherNumber : Number(n) \in Row
    BY RowAssumption DEF PostingRows
  <1>4. Sequence \in Row /\ \A c \in Buyer : Customer(c) \in Row
    BY RowAssumption DEF PostingRows
  <1> QED
    BY <1>1, <1>2, <1>3, <1>4 DEF Sequence, Event, Number, Customer, Payment

LEMMA ColumnsAre ==
    /\ Columns[Sequence] = Nat
    /\ \A s \in Source : Columns[Event(s)] = EventValue /\ Columns[Payment(s)] = AnyAmount
    /\ \A n \in VoucherNumber : Columns[Number(n)] = VoucherValue
    /\ \A c \in Buyer : Columns[Customer(c)] = Int
  <1>1. Columns[Sequence] = Nat
    BY RowsDiffer DEF Columns
  <1>2. \A s \in Source : Columns[Event(s)] = EventValue
    BY RowsDiffer DEF Columns
  <1>3. \A s \in Source : Columns[Payment(s)] = AnyAmount
    BY RowsDiffer DEF Columns
  <1>4. \A n \in VoucherNumber : Columns[Number(n)] = VoucherValue
    BY RowsDiffer DEF Columns
  <1>5. \A c \in Buyer : Columns[Customer(c)] = Int
    BY RowsDiffer DEF Columns
  <1> QED BY <1>1, <1>2, <1>3, <1>4, <1>5

\* What an event's columns say of each other.
LEMMA EventShape ==
    ASSUME NEW e \in EventValue
    PROVE  /\ e.id = NoTx <=> e = NoEvent
           /\ e.status = "none" <=> e = NoEvent
           /\ e.status = "posted" <=> e.voucher # NoNumber
           /\ e.voucher # NoNumber => e.voucher \in VoucherNumber
           /\ e.id # NoTx => e.id \in Tx
           /\ e # NoEvent =>
                e = [status |-> e.status, voucher |-> e.voucher, id |-> e.id]
  BY NoTxAssumption DEF EventValue, NoEvent, NoNumber

LEMMA NumbersAreNotNone ==
    NoNumber \notin VoucherNumber /\ VoucherNumber \subseteq Nat
  BY NumberAssumption DEF NoNumber, VoucherNumber

\* What each part of the database holds.
LEMMA CellsTyped ==
    ASSUME TypeOK
    PROVE  /\ \A s \in Source : EventOf(s) \in EventValue /\ Paid(s) \in AnyAmount
           /\ \A n \in VoucherNumber : VoucherAt(n) \in VoucherValue
           /\ \A t \in Tx : /\ source[t] \in Source
                            /\ \A s \in Source : Sees(t, Event(s)) \in EventValue
                                                 /\ Sees(t, Payment(s)) \in AnyAmount
                            /\ \A n \in VoucherNumber : Sees(t, Number(n)) \in VoucherValue
                            /\ \A c \in Buyer : Sees(t, Customer(c)) \in Int
                            /\ Sees(t, Sequence) \in Nat
  <1>1. DbTypeOK(Columns) /\ source \in [Tx -> Source]
    BY DEF TypeOK, RequestTypeOK
  <1>2. \A r \in Row : committed[r] \in Columns[r]
    BY <1>1 DEF DbTypeOK
  <1>3. \A t \in Tx, r \in Row : Sees(t, r) \in Columns[r]
    BY <1>1, SeesTyped
  <1>4. /\ \A s \in Source : EventOf(s) \in EventValue /\ Paid(s) \in AnyAmount
        /\ \A n \in VoucherNumber : VoucherAt(n) \in VoucherValue
    BY <1>2, RowsDiffer, ColumnsAre DEF EventOf, Paid, VoucherAt
  <1>5. ASSUME NEW t \in Tx
        PROVE  /\ \A s \in Source : Sees(t, Event(s)) \in EventValue
                                    /\ Sees(t, Payment(s)) \in AnyAmount
               /\ \A n \in VoucherNumber : Sees(t, Number(n)) \in VoucherValue
               /\ \A c \in Buyer : Sees(t, Customer(c)) \in Int
               /\ Sees(t, Sequence) \in Nat
    BY <1>3, RowsDiffer, ColumnsAre
  <1> QED BY <1>1, <1>4, <1>5

-----------------------------------------------------------------------------
(* A step of one request that commits nothing.                               *)

\* Nothing of the others changes, and no request goes back to idle.
OnlyOf(t) ==
    /\ \A u \in Tx : u # t => /\ pc'[u] = pc[u] /\ pending'[u] = pending[u]
                              /\ amount'[u] = amount[u] /\ found'[u] = found[u]
    /\ source' = source
    /\ pc[t] \notin Done /\ pc'[t] # "idle"

\* A request that begins is about a payment on the books, or begins alone.
Begins(t) ==
    pc[t] = "idle" =>
        \/ Paid(source[t]) # NoPayment
        \/ \A u \in Tx : source[u] = source[t] => pc[u] = "idle"

LEMMA OthersKeepTxOK ==
    ASSUME IInv, NEW t \in Tx, OnlyOf(t), Begins(t), committed' = committed,
           NEW u \in Tx, u # t
    PROVE  TxOK(u)'
  <1>1. /\ pc'[u] = pc[u] /\ pending'[u] = pending[u] /\ amount'[u] = amount[u]
        /\ found'[u] = found[u] /\ source' = source
        /\ pc[t] \notin Done /\ pc'[t] # "idle"
    BY DEF OnlyOf
  <1>2. \A r : Sees(u, r)' = Sees(u, r) /\ Has(u, r)' = Has(u, r)
    BY <1>1 DEF Sees, Has
  <1>3. TxOK(u)
    BY DEF IInv
  <1>4. RowsOK(u)'
    BY <1>1, <1>2, <1>3 DEF TxOK, RowsOK, MyPayment, MyEvent, Payer, Has
  <1>5. FoundOK(u)'
    <2>1. \A v \in Tx : pc[v] = "committed" => pc'[v] = "committed"
      BY <1>1 DEF OnlyOf, Done
    <2> QED BY <1>1, <1>3, <2>1 DEF TxOK, FoundOK, EventOf
  <1>6. ViewOK(u)'
    BY <1>1, <1>2, <1>3
       DEF TxOK, ViewOK, SeenEvent, SeenPayment, MyEvent, MyPayment, Paid
  <1>7. FreshOK(u)'
    <2>1. ASSUME pc[u] \in Late \cup {"insert"}, Paid(source[u]) = NoPayment,
                 source[t] = source[u]
          PROVE  FALSE
      <3>1. pc[t] = "idle" /\ pc[u] # "idle"
        BY <1>3, <2>1 DEF TxOK, FreshOK, Late
      <3> QED BY <2>1, <3>1 DEF Begins
    <2>2. \A v \in Tx : v # t => pc'[v] = pc[v]
      BY DEF OnlyOf
    <2> QED BY <1>1, <1>3, <2>1, <2>2 DEF TxOK, FreshOK, Paid
  <1> QED BY <1>4, <1>5, <1>6, <1>7 DEF TxOK

LEMMA QuietStep ==
    ASSUME IInv, NEW t \in Tx, OnlyOf(t), Begins(t), committed' = committed,
           TypeOK', TxOK(t)'
    PROVE  IInv'
  <1>1. \A u \in Tx : TxOK(u)'
    BY OthersKeepTxOK
  <1>2. VouchersMatchPayments'
    BY DEF IInv, VouchersMatchPayments, Paid, EventOf, VoucherAt
  <1>3. RecordedOK'
    <2>1. /\ \A u \in Tx : pc[u] # "idle" => pc'[u] # "idle"
          /\ \A v \in Tx : pc[v] = "committed" => pc'[v] = "committed"
          /\ source' = source
      BY DEF OnlyOf, Done
    <2> QED BY <2>1 DEF IInv, RecordedOK, Paid, EventOf
  <1> QED BY <1>1, <1>2, <1>3 DEF IInv

-----------------------------------------------------------------------------
(* Steps that write nothing.                                                 *)

\* A request that holds nothing and has nothing to remember.
LEMMA RestingTxOK ==
    ASSUME NEW t \in Tx, DOMAIN pending'[t] = {},
           pc'[t] \notin Writing \cup {"insert", "delete", "retry"}
    PROVE  TxOK(t)'
  BY DEF TxOK, RowsOK, FoundOK, ViewOK, FreshOK, Has, Writing, Late

LEMMA NothingWritten ==
    ASSUME IInv, UNCHANGED dbVars
    PROVE  /\ DbTypeOK(Columns)' /\ committed' = committed /\ pending' = pending
           /\ \A u, r : Sees(u, r)' = Sees(u, r) /\ Has(u, r)' = Has(u, r)
  BY DEF IInv, TypeOK, DbTypeOK, dbVars, Sees, Has

\* A payment that is not on the books has neither event nor voucher.
LEMMA NoTraceOf ==
    ASSUME IInv, NEW s \in Source, Paid(s) = NoPayment
    PROVE  /\ EventOf(s) = NoEvent
           /\ \A n \in VoucherNumber : VoucherAt(n) # NoVoucher => VoucherAt(n).source # s
  <1>1. EventOf(s) = NoEvent
    BY DEF IInv, VouchersMatchPayments
  <1>2. EventOf(s).voucher = NoNumber
    BY <1>1 DEF NoEvent
  <1>3. ASSUME NEW n \in VoucherNumber, VoucherAt(n) # NoVoucher, VoucherAt(n).source = s
        PROVE  FALSE
    <2>1. EventOf(s).voucher = n
      BY <1>3 DEF IInv, VouchersMatchPayments
    <2> QED BY <1>2, <2>1, NumbersAreNotNone
  <1> QED BY <1>1, <1>3

LEMMA FailIInv ==
    ASSUME IInv, NEW t \in Tx, NEW outcome \in Done, Fail(t, outcome),
           UNCHANGED <<old, due>>, pc[t] \notin Done, pc[t] # "idle"
    PROVE  IInv' /\ committed' = committed
  <1>1. /\ committed' = committed /\ DOMAIN pending'[t] = {}
        /\ \A u \in Tx : u # t => pending'[u] = pending[u]
    BY RollbackSeen DEF Fail, IInv, TypeOK
  <1>2. DbTypeOK(Columns)'
    BY RollbackTyped DEF Fail, IInv, TypeOK
  <1>3. RequestTypeOK /\ pc' = [pc EXCEPT ![t] = outcome] /\ UNCHANGED locals
    BY DEF Fail, Goto, IInv, TypeOK
  <1>4. pc'[t] = outcome /\ \A u \in Tx : u # t => pc'[u] = pc[u]
    BY <1>3 DEF RequestTypeOK
  <1>5. OnlyOf(t) /\ Begins(t)
    BY <1>1, <1>3, <1>4 DEF OnlyOf, Begins, locals, Done
  <1>6. TypeOK'
    BY <1>2, <1>3 DEF RequestTypeOK, TypeOK, locals, Statement
  <1>7. TxOK(t)'
    BY <1>1, <1>4, RestingTxOK DEF Done, Writing, Late
  <1> QED BY <1>1, <1>5, <1>6, <1>7, QuietStep

LEMMA ReadForRecordIInv ==
    ASSUME IInv, NEW t \in Tx, ReadForRecord(t)
    PROVE  IInv'
  <1>1. /\ pc[t] = "idle"
        /\ \A u \in Tx : source[u] = source[t] => pc[u] = "idle"
        /\ pc' = [pc EXCEPT ![t] = "insert"]
        /\ UNCHANGED <<dbVars, source, found, number, ruleActive, old>>
        /\ due' = [due EXCEPT ![t] = Sees(t, Payer(t))]
    BY DEF ReadForRecord, Goto
  <1>2. PICK a \in Amount : amount' = [amount EXCEPT ![t] = a]
    BY DEF ReadForRecord
  <1>3. /\ DbTypeOK(Columns)' /\ committed' = committed /\ pending' = pending
        /\ RequestTypeOK /\ source[t] \in Source
    BY <1>1, NothingWritten DEF IInv, TypeOK, RequestTypeOK
  <1>4. /\ pc'[t] = "insert" /\ amount'[t] = a /\ source' = source
        /\ \A u \in Tx : u # t => pc'[u] = pc[u] /\ amount'[u] = amount[u]
    BY <1>1, <1>2, <1>3 DEF RequestTypeOK
  <1>5. OnlyOf(t) /\ Begins(t)
    BY <1>1, <1>3, <1>4 DEF OnlyOf, Begins, Done
  <1>6. TypeOK'
    <2>1. Sees(t, Payer(t)) \in Int
      BY <1>3, CellsTyped, RowsDiffer DEF IInv, Payer
    <2> QED BY <1>1, <1>2, <1>3, <2>1 DEF RequestTypeOK, TypeOK, Statement, AnyAmount
  <1>7. Paid(source[t]) = NoPayment
    BY <1>1, <1>3 DEF IInv, RecordedOK
  <1>8. DOMAIN pending[t] = {}
    BY <1>1 DEF IInv, TxOK, RowsOK, Writing, Late
  <1>9. TxOK(t)'
    BY <1>1, <1>3, <1>4, <1>7, <1>8
       DEF TxOK, RowsOK, FoundOK, ViewOK, FreshOK, Has, Writing, Late, Paid
  <1> QED BY <1>3, <1>5, <1>6, <1>9, QuietStep

LEMMA ReadForChangeIInv ==
    ASSUME IInv, NEW t \in Tx, ReadForChange(t)
    PROVE  IInv'
  <1>1. /\ pc[t] = "idle" /\ SeenPayment(t) # NoPayment
        /\ pc' = [pc EXCEPT ![t] = "customer"]
        /\ UNCHANGED <<dbVars, source, found, number, ruleActive, due>>
        /\ old' = [old EXCEPT ![t] = SeenPayment(t)]
    BY DEF ReadForChange, Goto
  <1>2. PICK a \in AnyAmount : amount' = [amount EXCEPT ![t] = a]
    BY DEF ReadForChange, AnyAmount
  <1>3. /\ DbTypeOK(Columns)' /\ committed' = committed /\ pending' = pending
        /\ RequestTypeOK /\ source[t] \in Source
    BY <1>1, NothingWritten DEF IInv, TypeOK, RequestTypeOK
  <1>4. /\ pc'[t] = "customer" /\ source' = source
        /\ \A u \in Tx : u # t => pc'[u] = pc[u] /\ amount'[u] = amount[u]
    BY <1>1, <1>2, <1>3 DEF RequestTypeOK
  <1>5. DOMAIN pending[t] = {}
    BY <1>1 DEF IInv, TxOK, RowsOK, Writing, Late
  <1>6. OnlyOf(t) /\ Begins(t)
    BY <1>1, <1>3, <1>4, <1>5 DEF OnlyOf, Begins, Done, SeenPayment, Sees, Paid
  <1>7. TypeOK'
    <2>1. SeenPayment(t) \in AnyAmount
      BY <1>3, CellsTyped DEF IInv, SeenPayment
    <2> QED BY <1>1, <1>2, <1>3, <2>1 DEF RequestTypeOK, TypeOK, Statement
  <1>8. TxOK(t)'
    BY <1>3, <1>4, <1>5, RestingTxOK DEF Writing, Late
  <1> QED BY <1>3, <1>6, <1>7, <1>8, QuietStep

LEMMA ReadCustomerIInv ==
    ASSUME IInv, NEW t \in Tx, ReadCustomer(t)
    PROVE  IInv'
  <1>1. /\ pc[t] = "customer" /\ pc' = [pc EXCEPT ![t] = "void"]
        /\ UNCHANGED <<dbVars, locals, old>>
        /\ due' = [due EXCEPT ![t] = Sees(t, Payer(t))]
    BY DEF ReadCustomer, Goto
  <1>2. /\ DbTypeOK(Columns)' /\ committed' = committed /\ pending' = pending
        /\ RequestTypeOK /\ source[t] \in Source
    BY <1>1, NothingWritten DEF IInv, TypeOK, RequestTypeOK
  <1>3. pc'[t] = "void" /\ \A u \in Tx : u # t => pc'[u] = pc[u]
    BY <1>1, <1>2 DEF RequestTypeOK
  <1>4. DOMAIN pending[t] = {}
    BY <1>1 DEF IInv, TxOK, RowsOK, Writing, Late
  <1>5. OnlyOf(t) /\ Begins(t)
    BY <1>1, <1>2, <1>3 DEF OnlyOf, Begins, Done, locals
  <1>6. TypeOK'
    <2>1. Sees(t, Payer(t)) \in Int
      BY <1>2, CellsTyped, RowsDiffer DEF IInv, Payer
    <2> QED BY <1>1, <1>2, <2>1 DEF RequestTypeOK, TypeOK, Statement, locals
  <1>7. TxOK(t)'
    BY <1>2, <1>3, <1>4, RestingTxOK DEF Writing, Late
  <1> QED BY <1>2, <1>5, <1>6, <1>7, QuietStep

LEMMA FindPostedIInv ==
    ASSUME IInv, NEW t \in Tx, FindPosted(t), UNCHANGED <<old, due>>
    PROVE  IInv'
  <1> PICK e : e = SeenEvent(t)
    OBVIOUS
  <1>1. /\ pc[t] = "void" /\ UNCHANGED <<dbVars, source, amount, number, ruleActive>>
        /\ IF e = NoEvent
           THEN pc' = [pc EXCEPT ![t] = "voided"] /\ found' = found
           ELSE pc' = [pc EXCEPT ![t] = "delete"] /\ found' = [found EXCEPT ![t] = e]
    BY DEF FindPosted, Goto
  <1>2. /\ DbTypeOK(Columns)' /\ committed' = committed /\ pending' = pending
        /\ RequestTypeOK /\ source[t] \in Source
        /\ \A u, r : Sees(u, r)' = Sees(u, r) /\ Has(u, r)' = Has(u, r)
    BY <1>1, NothingWritten DEF IInv, TypeOK, RequestTypeOK
  <1>3. DOMAIN pending[t] = {}
    BY <1>1 DEF IInv, TxOK, RowsOK, Writing, Late
  <1>4. e = EventOf(source[t]) /\ e \in EventValue
    BY <1>2, <1>3, CellsTyped DEF IInv, SeenEvent, Sees, EventOf
  <1>5. /\ pc'[t] = IF e = NoEvent THEN "voided" ELSE "delete"
        /\ \A u \in Tx : u # t => pc'[u] = pc[u] /\ found'[u] = found[u]
    BY <1>1, <1>2 DEF RequestTypeOK
  <1>6. OnlyOf(t) /\ Begins(t)
    BY <1>1, <1>2, <1>5 DEF OnlyOf, Begins, Done
  <1>7. TypeOK'
    BY <1>1, <1>2, <1>4 DEF RequestTypeOK, TypeOK, Statement
  <1>8. TxOK(t)'
    <2>1. CASE e = NoEvent
      <3>1. Paid(source[t]) = NoPayment
        BY <1>2, <1>4, <2>1 DEF IInv, VouchersMatchPayments
      <3>2. \A n \in VoucherNumber : VoucherAt(n) # NoVoucher => VoucherAt(n).source # source[t]
        BY <1>2, <3>1, NoTraceOf
      <3>3. \A n \in VoucherNumber : Sees(t, Number(n)) = VoucherAt(n)
        BY <1>3 DEF Sees, VoucherAt
      <3>4. pc'[t] = "voided" /\ source' = source
        BY <1>1, <1>5, <2>1
      <3>5. RowsOK(t)'
        BY <1>2, <1>3 DEF RowsOK, Has
      <3>6. ViewOK(t)'
        BY <1>2, <1>3, <2>1, <3>1, <3>2, <3>3, <3>4
           DEF ViewOK, Has, SeenEvent, MyPayment, Paid, Late
      <3> QED BY <3>4, <3>5, <3>6 DEF TxOK, FoundOK, FreshOK, Late
    <2>2. CASE e # NoEvent
      <3>1. pc'[t] = "delete" /\ found'[t] = e /\ source' = source
        BY <1>1, <1>2, <1>5, <2>2 DEF RequestTypeOK
      <3>2. e.id \in Tx
        BY <1>4, <2>2, EventShape
      <3>3. pc[e.id] = "committed"
        BY <1>2, <1>4, <3>2 DEF IInv, RecordedOK
      <3>4. e.id # t
        BY <1>1, <3>3
      <3>5. pc'[e.id] = "committed"
        BY <1>5, <3>2, <3>3, <3>4
      <3>6. FoundOK(t)'
        BY <1>2, <1>4, <3>1, <3>2, <3>5 DEF FoundOK, EventOf
      <3> QED BY <1>2, <1>3, <3>1, <3>6
              DEF TxOK, RowsOK, ViewOK, FreshOK, Has, Writing, Late
    <2> QED BY <2>1, <2>2
  <1> QED BY <1>2, <1>6, <1>7, <1>8, QuietStep

LEMMA ReadForRetryIInv ==
    ASSUME IInv, NEW t \in Tx, ReadForRetry(t), UNCHANGED <<old, due>>
    PROVE  IInv'
  <1> PICK e : e = SeenEvent(t)
    OBVIOUS
  <1>1. /\ pc[t] = "idle" /\ UNCHANGED <<dbVars, source, amount, number, ruleActive>>
        /\ e.status \notin {"none", "posted"}
        /\ pc' = [pc EXCEPT ![t] = "retry"] /\ found' = [found EXCEPT ![t] = e]
    BY DEF ReadForRetry, Goto
  <1>2. /\ DbTypeOK(Columns)' /\ committed' = committed /\ pending' = pending
        /\ RequestTypeOK /\ source[t] \in Source
        /\ \A u, r : Has(u, r)' = Has(u, r)
    BY <1>1, NothingWritten DEF IInv, TypeOK, RequestTypeOK
  <1>3. DOMAIN pending[t] = {}
    BY <1>1 DEF IInv, TxOK, RowsOK, Writing, Late
  <1>4. e = EventOf(source[t]) /\ e \in EventValue
    BY <1>2, <1>3, CellsTyped DEF IInv, SeenEvent, Sees, EventOf
  <1>5. e # NoEvent /\ e.voucher = NoNumber /\ e.id \in Tx
    BY <1>1, <1>4, EventShape
  <1>6. Paid(source[t]) # NoPayment
    BY <1>2, <1>4, <1>5 DEF IInv, VouchersMatchPayments
  <1>7. /\ pc'[t] = "retry" /\ found'[t] = e /\ source' = source
        /\ \A u \in Tx : u # t => pc'[u] = pc[u] /\ found'[u] = found[u]
    BY <1>1, <1>2 DEF RequestTypeOK
  <1>8. OnlyOf(t) /\ Begins(t)
    BY <1>1, <1>2, <1>6, <1>7 DEF OnlyOf, Begins, Done
  <1>9. TypeOK'
    BY <1>1, <1>2, <1>4 DEF RequestTypeOK, TypeOK, Statement
  <1>10. TxOK(t)'
    <2>1. pc[e.id] = "committed"
      BY <1>2, <1>4, <1>5 DEF IInv, RecordedOK
    <2>2. pc'[e.id] = "committed"
      BY <1>1, <1>5, <1>7, <2>1
    <2>3. FoundOK(t)'
      BY <1>2, <1>4, <1>5, <1>7, <2>2 DEF FoundOK, EventOf
    <2> QED BY <1>2, <1>3, <1>7, <2>3
            DEF TxOK, RowsOK, ViewOK, FreshOK, Has, Writing, Late
  <1> QED BY <1>2, <1>8, <1>9, <1>10, QuietStep

-----------------------------------------------------------------------------
(* Statements that write one row.                                            *)

\* The parts of the invariant that a write of t leaves to be shown for t.
LEMMA WriteStep ==
    ASSUME IInv, NEW t \in Tx, NEW r \in Row, NEW v \in Columns[r], WriteRow(t, r, v),
           pc[t] \in Writing \cup {"insert", "delete"},
           NEW statement \in Writing, Goto(t, statement), UNCHANGED <<locals, old, due>>
    PROVE  /\ TypeOK' /\ OnlyOf(t) /\ Begins(t) /\ committed' = committed
           /\ pc'[t] = statement
           /\ source' = source /\ amount' = amount
           /\ Has(t, r)' /\ Sees(t, r)' = v /\ pending'[t][r] = v
           /\ DOMAIN pending'[t] = DOMAIN pending[t] \cup {r}
           /\ \A q \in Row : q # r => Sees(t, q)' = Sees(t, q)
           /\ \A q : q # r => Has(t, q)' = Has(t, q)
           /\ \A q \in DOMAIN pending[t] : q # r => pending'[t][q] = pending[t][q]
  <1>1. DbTypeOK(Columns)' /\ RequestTypeOK
    BY WriteRowTyped DEF IInv, TypeOK
  <1>2. /\ committed' = committed
        /\ DOMAIN pending'[t] = DOMAIN pending[t] \cup {r}
        /\ pending'[t][r] = v
        /\ \A q \in DOMAIN pending[t] : q # r => pending'[t][q] = pending[t][q]
        /\ Sees(t, r)' = v
        /\ \A q \in Row : q # r => Sees(t, q)' = Sees(t, q)
        /\ \A u \in Tx : u # t => pending'[u] = pending[u]
    BY WriteRowSeen DEF IInv, TypeOK
  <1>3. pc'[t] = statement /\ \A u \in Tx : u # t => pc'[u] = pc[u]
    BY <1>1 DEF Goto, RequestTypeOK
  <1>4. OnlyOf(t)
    BY <1>2, <1>3 DEF OnlyOf, locals, Done, Writing, Late
  <1>5. Begins(t)
    BY DEF Begins, Writing, Late
  <1>6. TypeOK'
    BY <1>1 DEF TypeOK, RequestTypeOK, Goto, locals, Statement, Writing, Late
  <1>7. Has(t, r)' /\ \A q : q # r => Has(t, q)' = Has(t, q)
    BY <1>2 DEF Has
  <1> QED BY <1>2, <1>3, <1>4, <1>5, <1>6, <1>7 DEF locals

\* Writing one of its own rows that is not a voucher, t still writes its own.
LEMMA WriteRowsOK ==
    ASSUME IInv, NEW t \in Tx, RowsOK(t), NEW r \in {MyPayment(t), MyEvent(t), Payer(t), Sequence},
           committed' = committed, source' = source, source[t] \in Source,
           pc'[t] \in Writing, DOMAIN pending'[t] = DOMAIN pending[t] \cup {r},
           \A q \in DOMAIN pending[t] : q # r => pending'[t][q] = pending[t][q]
    PROVE  RowsOK(t)'
  <1>1. \A n \in VoucherNumber : Number(n) # r
    BY RowsDiffer DEF MyPayment, MyEvent, Payer
  <1>2. /\ MyPayment(t)' = MyPayment(t) /\ MyEvent(t)' = MyEvent(t) /\ Payer(t)' = Payer(t)
        /\ source'[t] = source[t]
    BY DEF MyPayment, MyEvent, Payer
  <1>3. DOMAIN pending'[t] \subseteq {MyPayment(t), MyEvent(t), Payer(t), Sequence}
                                        \cup {Number(n) : n \in VoucherNumber}
    BY DEF RowsOK
  <1>4. ASSUME NEW n \in VoucherNumber, Has(t, Number(n))'
        PROVE  /\ IsVoucherOf(committed[Number(n)], source[t])
               /\ IsVoucherOf(pending'[t][Number(n)], source[t])
    <2>1. Has(t, Number(n)) /\ pending'[t][Number(n)] = pending[t][Number(n)]
      BY <1>1, <1>4 DEF Has
    <2> QED BY <2>1 DEF RowsOK
  <1> QED BY <1>2, <1>3, <1>4 DEF RowsOK

LEMMA InsertPaymentIInv ==
    ASSUME IInv, NEW t \in Tx, InsertPayment(t)
    PROVE  IInv'
  <1> PICK s, P : s = source[t] /\ P = Payment(s)
    OBVIOUS
  <1>1. /\ pc[t] = "insert" /\ WriteRow(t, P, amount[t])
        /\ Goto(t, "balance") /\ UNCHANGED <<locals, old, due>>
    BY DEF InsertPayment
  <1>2. /\ s \in Source /\ P \in Row /\ Columns[P] = AnyAmount
        /\ TxOK(t) /\ Paid(s) = NoPayment /\ amount[t] \in Amount
        /\ \A u \in Tx : u # t /\ source[u] = s => pc[u] = "idle"
        /\ DOMAIN pending[t] = {}
    BY <1>1, RowsDiffer, ColumnsAre
       DEF IInv, TypeOK, RequestTypeOK, TxOK, FreshOK, RowsOK, Writing, Late
  <1>3. /\ TypeOK' /\ OnlyOf(t) /\ Begins(t) /\ committed' = committed
        /\ pc'[t] = "balance" /\ source' = source /\ amount' = amount
        /\ Has(t, P)' /\ Sees(t, P)' = amount[t] /\ pending'[t][P] = amount[t]
        /\ DOMAIN pending'[t] = DOMAIN pending[t] \cup {P}
        /\ \A q \in Row : q # P => Sees(t, q)' = Sees(t, q)
        /\ \A q \in DOMAIN pending[t] : q # P => pending'[t][q] = pending[t][q]
    BY <1>1, <1>2, WriteStep DEF AnyAmount, Writing, Late
  <1>4. RowsOK(t)'
    BY <1>2, <1>3, WriteRowsOK DEF MyPayment, TxOK, Writing, Late
  <1>5. /\ \A n \in VoucherNumber : Sees(t, Number(n))' = VoucherAt(n)
        /\ Sees(t, Event(s))' = EventOf(s)
    BY <1>2, <1>3, RowsDiffer DEF Sees, VoucherAt, EventOf
  <1>6. /\ EventOf(s) = NoEvent
        /\ \A n \in VoucherNumber : VoucherAt(n) # NoVoucher => VoucherAt(n).source # s
    BY <1>2, NoTraceOf
  <1>7. ViewOK(t)'
    BY <1>2, <1>3, <1>5, <1>6 DEF ViewOK, SeenEvent, SeenPayment, MyPayment, Paid, Late
  <1>8. FreshOK(t)'
    <2>1. \A u \in Tx : u # t /\ source[u] = s => pc'[u] = "idle"
      BY <1>2, <1>3 DEF OnlyOf
    <2> QED BY <1>2, <1>3, <2>1 DEF FreshOK
  <1>9. TxOK(t)'
    BY <1>3, <1>4, <1>7, <1>8 DEF TxOK, FoundOK
  <1> QED BY <1>3, <1>9, QuietStep

LEMMA ChangePaymentIInv ==
    ASSUME IInv, NEW t \in Tx, ChangePayment(t)
    PROVE  IInv'
  <1> PICK s, P : s = source[t] /\ P = Payment(s)
    OBVIOUS
  <1>1. /\ pc[t] = "voided" /\ Sees(t, P) # NoPayment /\ WriteRow(t, P, amount[t])
        /\ Goto(t, "balance") /\ UNCHANGED <<locals, old, due>>
    BY DEF ChangePayment, SeenPayment
  <1>2. /\ s \in Source /\ P \in Row /\ Columns[P] = AnyAmount /\ amount[t] \in AnyAmount
        /\ TxOK(t)
    BY <1>1, RowsDiffer, ColumnsAre DEF IInv, TypeOK, RequestTypeOK
  <1>3. /\ TypeOK' /\ OnlyOf(t) /\ Begins(t) /\ committed' = committed
        /\ pc'[t] = "balance" /\ source' = source /\ amount' = amount
        /\ Has(t, P)' /\ Sees(t, P)' = amount[t] /\ pending'[t][P] = amount[t]
        /\ DOMAIN pending'[t] = DOMAIN pending[t] \cup {P}
        /\ \A q \in Row : q # P => Sees(t, q)' = Sees(t, q)
        /\ \A q : q # P => Has(t, q)' = Has(t, q)
        /\ \A q \in DOMAIN pending[t] : q # P => pending'[t][q] = pending[t][q]
    BY <1>1, <1>2, WriteStep DEF Writing, Late
  <1>4. RowsOK(t)'
    BY <1>2, <1>3, WriteRowsOK DEF MyPayment, TxOK, Writing, Late
  <1>5. /\ \A n \in VoucherNumber : Sees(t, Number(n))' = Sees(t, Number(n))
        /\ Sees(t, Event(s))' = Sees(t, Event(s)) /\ Has(t, Event(s))' = Has(t, Event(s))
    BY <1>2, <1>3, RowsDiffer
  <1>6. /\ Has(t, Event(s)) \/ Paid(s) = NoPayment
        /\ \A n \in VoucherNumber :
              LET v == Sees(t, Number(n))
              IN  v # NoVoucher /\ v.source = s => SeenEvent(t).voucher = n
        /\ Sees(t, Event(s)) = NoEvent /\ ~Has(t, P)
    BY <1>1, <1>2 DEF TxOK, ViewOK, MyEvent, MyPayment, SeenEvent, Writing
  <1>7. Paid(s) # NoPayment
    BY <1>1, <1>6 DEF Sees, Has, Paid
  <1>8. ViewOK(t)'
    BY <1>3, <1>5, <1>6 DEF ViewOK, SeenEvent, SeenPayment, MyPayment, MyEvent, Paid, Late
  <1>9. FreshOK(t)'
    BY <1>3, <1>7 DEF FreshOK, Paid
  <1>10. TxOK(t)'
    BY <1>3, <1>4, <1>8, <1>9 DEF TxOK, FoundOK
  <1> QED BY <1>3, <1>10, QuietStep

\* A step of t past its payment, which leaves what it sees of its payment, its
\* event and the vouchers, and does not begin or end anything.
LEMMA StaysFresh ==
    ASSUME NEW t \in Tx, FreshOK(t), OnlyOf(t), committed' = committed,
           pc[t] \in Late, pc'[t] \in Late
    PROVE  FreshOK(t)' /\ FoundOK(t)'
  <1>1. \A u \in Tx : u # t => pc'[u] = pc[u]
    BY DEF OnlyOf
  <1> QED BY <1>1 DEF FreshOK, FoundOK, OnlyOf, Paid, Late

LEMMA WriteBalanceIInv ==
    ASSUME IInv, NEW t \in Tx, WriteBalance(t)
    PROVE  IInv'
  <1> PICK s, r, statement : /\ s = source[t] /\ r = Payer(t)
                             /\ statement = IF amount[t] = NoPayment THEN "commit" ELSE "post"
    OBVIOUS
  <1>1. /\ pc[t] = "balance" /\ WriteRow(t, r, Balance(t))
        /\ Goto(t, statement) /\ UNCHANGED <<locals, old, due>>
    BY DEF WriteBalance
  <1>2. /\ s \in Source /\ r \in Row /\ Columns[r] = Int /\ TxOK(t) /\ amount[t] \in AnyAmount
        /\ old[t] \in AnyAmount /\ due[t] \in Int
    BY RowsDiffer, ColumnsAre DEF IInv, TypeOK, RequestTypeOK, Payer
  <1>3. Balance(t) \in Int /\ statement \in {"commit", "post"}
    <2>1. AnyAmount \subseteq Int
      BY AmountAssumption DEF AnyAmount, NoPayment
    <2>2. old[t] \in Int /\ amount[t] \in Int /\ due[t] \in Int
      BY <1>2, <2>1
    <2>3. Balance(t) \in Int
      BY <2>2 DEF Balance
    <2>4. statement \in {"commit", "post"}
      OBVIOUS
    <2> QED BY <2>3, <2>4
  <1>4. /\ TypeOK' /\ OnlyOf(t) /\ Begins(t) /\ committed' = committed
        /\ pc'[t] = statement /\ source' = source /\ amount' = amount
        /\ DOMAIN pending'[t] = DOMAIN pending[t] \cup {r}
        /\ \A q \in Row : q # r => Sees(t, q)' = Sees(t, q)
        /\ \A q : q # r => Has(t, q)' = Has(t, q)
        /\ \A q \in DOMAIN pending[t] : q # r => pending'[t][q] = pending[t][q]
    BY <1>1, <1>2, <1>3, WriteStep DEF Writing, Late
  <1>5. RowsOK(t)'
    BY <1>2, <1>3, <1>4, WriteRowsOK DEF TxOK, Writing, Late
  <1>6. /\ \A n \in VoucherNumber : Sees(t, Number(n))' = Sees(t, Number(n))
        /\ Sees(t, Event(s))' = Sees(t, Event(s)) /\ Has(t, Event(s))' = Has(t, Event(s))
        /\ Sees(t, Payment(s))' = Sees(t, Payment(s)) /\ Has(t, Payment(s))' = Has(t, Payment(s))
    BY <1>2, <1>4, RowsDiffer DEF Payer
  <1>7. /\ Has(t, Event(s)) \/ Paid(s) = NoPayment
        /\ \A n \in VoucherNumber :
              LET v == Sees(t, Number(n))
              IN  v # NoVoucher /\ v.source = s => SeenEvent(t).voucher = n
        /\ Sees(t, Event(s)) = NoEvent
        /\ Has(t, Payment(s)) /\ Sees(t, Payment(s)) = amount[t]
    BY <1>1, <1>2 DEF TxOK, ViewOK, MyEvent, MyPayment, SeenEvent, SeenPayment, Writing, Late
  <1>8. ViewOK(t)'
    BY <1>2, <1>3, <1>4, <1>6, <1>7
       DEF ViewOK, SeenEvent, SeenPayment, MyPayment, MyEvent, Paid, Late, NoEvent, AnyAmount
  <1>9. TxOK(t)'
    BY <1>1, <1>2, <1>3, <1>4, <1>5, <1>8, StaysFresh DEF TxOK, Late
  <1> QED BY <1>4, <1>9, QuietStep

-----------------------------------------------------------------------------
(* autoPostFromRules                                                         *)

\* Here the document has no event yet, so it gets one of its own: the branch
\* that returns a posted event, and the one that takes up an old one, are not
\* reached from a customer's payment.
LEMMA TakeEventIInv ==
    ASSUME IInv, NEW t \in Tx, TakeEvent(t), UNCHANGED <<old, due>>
    PROVE  IInv'
  <1> PICK s, r, e : /\ s = source[t] /\ r = Event(s)
                     /\ e = [status |-> "pending", voucher |-> NoNumber, id |-> t]
    OBVIOUS
  <1>1. /\ s \in Source /\ r \in Row /\ Columns[r] = EventValue /\ TxOK(t)
        /\ pc[t] = "post"
    BY RowsDiffer, ColumnsAre DEF IInv, TypeOK, RequestTypeOK, TakeEvent
  <1>2. /\ Has(t, r) \/ Paid(s) = NoPayment
        /\ \A n \in VoucherNumber :
              LET v == Sees(t, Number(n))
              IN  v # NoVoucher /\ v.source = s => SeenEvent(t).voucher = n
        /\ Sees(t, r) = NoEvent
        /\ Has(t, Payment(s)) /\ Sees(t, Payment(s)) = amount[t]
        /\ amount[t] \in Amount
    BY <1>1 DEF TxOK, ViewOK, MyEvent, MyPayment, SeenEvent, SeenPayment, Writing, Late
  <1>3. /\ WriteRow(t, r, e) /\ Goto(t, "rule") /\ UNCHANGED <<locals, old, due>>
    <2>1. SeenEvent(t) = NoEvent
      BY <1>2 DEF SeenEvent
    <2>2. SeenEvent(t).status # "posted"
      BY <2>1 DEF NoEvent
    <2>3. [SeenEvent(t) EXCEPT !.status = "pending", !.id = IF @ = NoTx THEN t ELSE @] = e
      <3> PICK x : x = SeenEvent(t)
        OBVIOUS
      <3>1. x = [status |-> "none", voucher |-> NoNumber, id |-> NoTx]
        BY <2>1 DEF NoEvent
      <3>2. [x EXCEPT !.status = "pending", !.id = t] = e
        <4> PICK w : w = [x EXCEPT !.status = "pending", !.id = t]
          OBVIOUS
        <4>1. w.status = "pending" /\ w.id = t /\ w.voucher = NoNumber
          BY <3>1
        <4>2. x \in [status : {"none", "pending"}, voucher : {NoNumber}, id : {NoTx, t}]
          BY <3>1
        <4>3. w \in [status : {"none", "pending"}, voucher : {NoNumber}, id : {NoTx, t}]
          BY <4>2
        <4> QED BY <4>1, <4>3
      <3>3. (IF x.id = NoTx THEN t ELSE x.id) = t
        BY <3>1
      <3>4. [x EXCEPT !.status = "pending", !.id = IF x.id = NoTx THEN t ELSE x.id] = e
        BY <3>2, <3>3
      <3> QED BY <3>4
    <2> QED BY <2>2, <2>3 DEF TakeEvent
  <1>4. e \in EventValue
    BY DEF EventValue, NoNumber
  <1>5. /\ TypeOK' /\ OnlyOf(t) /\ Begins(t) /\ committed' = committed
        /\ pc'[t] = "rule" /\ source' = source /\ amount' = amount
        /\ Has(t, r)' /\ Sees(t, r)' = e
        /\ DOMAIN pending'[t] = DOMAIN pending[t] \cup {r}
        /\ \A q \in Row : q # r => Sees(t, q)' = Sees(t, q)
        /\ \A q : q # r => Has(t, q)' = Has(t, q)
        /\ \A q \in DOMAIN pending[t] : q # r => pending'[t][q] = pending[t][q]
    BY <1>1, <1>3, <1>4, WriteStep DEF Writing, Late
  <1>6. RowsOK(t)'
    BY <1>1, <1>5, WriteRowsOK DEF MyEvent, TxOK, Writing, Late
  <1>7. /\ \A n \in VoucherNumber : Sees(t, Number(n))' = Sees(t, Number(n))
        /\ Sees(t, Payment(s))' = Sees(t, Payment(s)) /\ Has(t, Payment(s))' = Has(t, Payment(s))
    BY <1>1, <1>5, RowsDiffer
  <1>8. \A n \in VoucherNumber : Sees(t, Number(n)) = NoVoucher \/ Sees(t, Number(n)).source # s
    <2>1. SeenEvent(t).voucher = NoNumber
      BY <1>2 DEF SeenEvent, NoEvent
    <2> QED BY <1>2, <2>1, NumbersAreNotNone
  <1>9. ViewOK(t)'
    BY <1>2, <1>5, <1>7, <1>8 DEF ViewOK, SeenEvent, SeenPayment, MyPayment, MyEvent, Late
  <1>10. TxOK(t)'
    BY <1>1, <1>5, <1>6, <1>9, StaysFresh DEF TxOK, Late
  <1> QED BY <1>5, <1>10, QuietStep

LEMMA SkipPostingIInv ==
    ASSUME IInv, NEW t \in Tx, SkipPosting(t), UNCHANGED <<old, due>>
    PROVE  IInv'
  <1> PICK s, r, e : /\ s = source[t] /\ r = Event(s)
                     /\ e = [status |-> "skipped", voucher |-> NoNumber, id |-> t]
    OBVIOUS
  <1>1. /\ s \in Source /\ r \in Row /\ Columns[r] = EventValue /\ TxOK(t)
        /\ pc[t] = "rule"
    BY RowsDiffer, ColumnsAre DEF IInv, TypeOK, RequestTypeOK, SkipPosting
  <1>2. /\ \A n \in VoucherNumber :
              LET v == Sees(t, Number(n))
              IN  v # NoVoucher /\ v.source = s => SeenEvent(t).voucher = n
        /\ Sees(t, r) = [status |-> "pending", voucher |-> NoNumber, id |-> t]
        /\ Has(t, Payment(s)) /\ Sees(t, Payment(s)) = amount[t]
        /\ amount[t] \in Amount
    BY <1>1 DEF TxOK, ViewOK, MyEvent, MyPayment, SeenEvent, SeenPayment, Writing, Late
  <1>3. /\ WriteRow(t, r, e) /\ Goto(t, "commit") /\ UNCHANGED <<locals, old, due>>
    <2>1. [SeenEvent(t) EXCEPT !.status = "skipped"] = e
      BY <1>2 DEF SeenEvent
    <2> QED BY <2>1 DEF SkipPosting
  <1>4. e \in EventValue
    BY DEF EventValue, NoNumber
  <1>5. /\ TypeOK' /\ OnlyOf(t) /\ Begins(t) /\ committed' = committed
        /\ pc'[t] = "commit" /\ source' = source /\ amount' = amount
        /\ Has(t, r)' /\ Sees(t, r)' = e
        /\ DOMAIN pending'[t] = DOMAIN pending[t] \cup {r}
        /\ \A q \in Row : q # r => Sees(t, q)' = Sees(t, q)
        /\ \A q : q # r => Has(t, q)' = Has(t, q)
        /\ \A q \in DOMAIN pending[t] : q # r => pending'[t][q] = pending[t][q]
    BY <1>1, <1>3, <1>4, WriteStep DEF Writing, Late
  <1>6. RowsOK(t)'
    BY <1>1, <1>5, WriteRowsOK DEF MyEvent, TxOK, Writing, Late
  <1>7. /\ \A n \in VoucherNumber : Sees(t, Number(n))' = Sees(t, Number(n))
        /\ Sees(t, Payment(s))' = Sees(t, Payment(s)) /\ Has(t, Payment(s))' = Has(t, Payment(s))
    BY <1>1, <1>5, RowsDiffer
  <1>8. \A n \in VoucherNumber : Sees(t, Number(n)) = NoVoucher \/ Sees(t, Number(n)).source # s
    <2>1. SeenEvent(t).voucher = NoNumber
      BY <1>2 DEF SeenEvent
    <2> QED BY <1>2, <2>1, NumbersAreNotNone
  <1>9. e # NoEvent /\ amount[t] # NoPayment
    BY <1>2, AmountAssumption DEF NoEvent, NoPayment
  <1>10. ViewOK(t)'
    BY <1>2, <1>5, <1>7, <1>8, <1>9
       DEF ViewOK, SeenEvent, SeenPayment, MyPayment, MyEvent, Late
  <1>11. TxOK(t)'
    BY <1>1, <1>5, <1>6, <1>10, StaysFresh DEF TxOK, Late
  <1> QED BY <1>5, <1>11, QuietStep

LEMMA ReadNumberIInv ==
    ASSUME IInv, NEW t \in Tx, ReadNumber(t), UNCHANGED <<old, due>>
    PROVE  IInv'
  <1>1. /\ pc[t] = "rule" /\ pc' = [pc EXCEPT ![t] = "increment"]
        /\ number' = [number EXCEPT ![t] = Sees(t, Sequence)]
        /\ UNCHANGED <<dbVars, source, amount, found, ruleActive>>
    BY DEF ReadNumber, Goto
  <1>2. /\ DbTypeOK(Columns)' /\ committed' = committed /\ pending' = pending
        /\ RequestTypeOK /\ TxOK(t) /\ Sees(t, Sequence) \in Nat
        /\ \A r : Sees(t, r)' = Sees(t, r) /\ Has(t, r)' = Has(t, r)
    BY <1>1, NothingWritten, CellsTyped DEF IInv, TypeOK
  <1>3. pc'[t] = "increment" /\ \A u \in Tx : u # t => pc'[u] = pc[u]
    BY <1>1, <1>2 DEF RequestTypeOK
  <1>4. OnlyOf(t) /\ Begins(t)
    BY <1>1, <1>2, <1>3 DEF OnlyOf, Begins, Done
  <1>5. TypeOK'
    BY <1>1, <1>2 DEF TypeOK, RequestTypeOK, Statement
  <1>6. RowsOK(t)'
    BY <1>1, <1>2, <1>3 DEF TxOK, RowsOK, Has, MyPayment, MyEvent, Payer, Writing, Late
  <1>7. ViewOK(t)'
    BY <1>1, <1>2, <1>3
       DEF TxOK, ViewOK, SeenEvent, SeenPayment, MyPayment, MyEvent, Paid, Writing, Late
  <1>8. TxOK(t)'
    BY <1>1, <1>2, <1>3, <1>4, <1>6, <1>7, StaysFresh DEF TxOK, Late
  <1> QED BY <1>2, <1>4, <1>5, <1>8, QuietStep

LEMMA IncrementSequenceIInv ==
    ASSUME IInv, NEW t \in Tx, IncrementSequence(t), UNCHANGED <<old, due>>
    PROVE  IInv'
  <1> PICK s, r, v : s = source[t] /\ r = Sequence /\ v = Sees(t, Sequence) + 1
    OBVIOUS
  <1>1. /\ pc[t] = "increment" /\ WriteRow(t, r, v)
        /\ Goto(t, "voucher") /\ UNCHANGED <<locals, old, due>>
    BY DEF IncrementSequence
  <1>2. /\ s \in Source /\ r \in Row /\ v \in Columns[r] /\ TxOK(t)
    BY RowsDiffer, ColumnsAre, CellsTyped DEF IInv, TypeOK, RequestTypeOK
  <1>3. /\ TypeOK' /\ OnlyOf(t) /\ Begins(t) /\ committed' = committed
        /\ pc'[t] = "voucher" /\ source' = source /\ amount' = amount
        /\ DOMAIN pending'[t] = DOMAIN pending[t] \cup {r}
        /\ \A q \in Row : q # r => Sees(t, q)' = Sees(t, q)
        /\ \A q : q # r => Has(t, q)' = Has(t, q)
        /\ \A q \in DOMAIN pending[t] : q # r => pending'[t][q] = pending[t][q]
    BY <1>1, <1>2, WriteStep DEF Writing, Late
  <1>4. RowsOK(t)'
    BY <1>2, <1>3, WriteRowsOK DEF TxOK, Writing, Late
  <1>5. /\ \A n \in VoucherNumber : Sees(t, Number(n))' = Sees(t, Number(n))
        /\ Sees(t, Event(s))' = Sees(t, Event(s)) /\ Has(t, Event(s))' = Has(t, Event(s))
        /\ Sees(t, Payment(s))' = Sees(t, Payment(s)) /\ Has(t, Payment(s))' = Has(t, Payment(s))
    BY <1>2, <1>3, RowsDiffer
  <1>6. ViewOK(t)'
    BY <1>1, <1>2, <1>3, <1>5
       DEF TxOK, ViewOK, SeenEvent, SeenPayment, MyPayment, MyEvent, Paid, Writing, Late
  <1>7. TxOK(t)'
    BY <1>1, <1>2, <1>3, <1>4, <1>6, StaysFresh DEF TxOK, Late
  <1> QED BY <1>3, <1>7, QuietStep

-----------------------------------------------------------------------------
(* Statements that write vouchers and their events.                          *)

\* WriteStep, for several rows.
LEMMA WriteManyStep ==
    ASSUME IInv, NEW t \in Tx, NEW values, DOMAIN values \subseteq Row,
           \A r \in DOMAIN values : values[r] \in Columns[r], WriteRows(t, values),
           pc[t] \in Writing \cup {"delete"},
           NEW statement \in Writing, Goto(t, statement), UNCHANGED <<locals, old, due>>
    PROVE  /\ TypeOK' /\ OnlyOf(t) /\ Begins(t) /\ committed' = committed
           /\ pc'[t] = statement
           /\ source' = source /\ amount' = amount
           /\ \A r \in DOMAIN values :
                 Has(t, r)' /\ Sees(t, r)' = values[r] /\ pending'[t][r] = values[r]
           /\ DOMAIN pending'[t] = DOMAIN pending[t] \cup DOMAIN values
           /\ \A q \in Row : q \notin DOMAIN values => Sees(t, q)' = Sees(t, q)
           /\ \A q : q \notin DOMAIN values => Has(t, q)' = Has(t, q)
           /\ \A q \in DOMAIN pending[t] :
                 q \notin DOMAIN values => pending'[t][q] = pending[t][q]
  <1>1. DbTypeOK(Columns)' /\ RequestTypeOK
    BY WriteRowsTyped DEF IInv, TypeOK
  <1>2. /\ committed' = committed
        /\ DOMAIN pending'[t] = DOMAIN pending[t] \cup DOMAIN values
        /\ \A r \in DOMAIN values : pending'[t][r] = values[r] /\ Sees(t, r)' = values[r]
        /\ \A q \in DOMAIN pending[t] :
              q \notin DOMAIN values => pending'[t][q] = pending[t][q]
        /\ \A q \in Row : q \notin DOMAIN values => Sees(t, q)' = Sees(t, q)
        /\ \A u \in Tx : u # t => pending'[u] = pending[u]
    BY WriteRowsSeen DEF IInv, TypeOK
  <1>3. pc'[t] = statement /\ \A u \in Tx : u # t => pc'[u] = pc[u]
    BY <1>1 DEF Goto, RequestTypeOK
  <1>4. OnlyOf(t)
    BY <1>2, <1>3 DEF OnlyOf, locals, Done, Writing, Late
  <1>5. Begins(t)
    BY DEF Begins, Writing, Late
  <1>6. TypeOK'
    BY <1>1 DEF TypeOK, RequestTypeOK, Goto, locals, Statement, Writing, Late
  <1>7. (\A r \in DOMAIN values : Has(t, r)')
        /\ \A q : q \notin DOMAIN values => Has(t, q)' = Has(t, q)
    BY <1>2 DEF Has
  <1> QED BY <1>2, <1>3, <1>4, <1>5, <1>6, <1>7 DEF locals

LEMMA InsertVoucherIInv ==
    ASSUME IInv, NEW t \in Tx, InsertVoucher(t), UNCHANGED <<old, due>>
    PROVE  IInv'
  <1> PICK s, n, E, N, e, v :
          /\ s = source[t] /\ n = number[t] /\ E = Event(s) /\ N = Number(n)
          /\ e = [status |-> "posted", voucher |-> n, id |-> t]
          /\ v = [source |-> s, amount |-> amount[t]]
    OBVIOUS
  <1>0. PICK values : values = [r \in {N, E} |-> IF r = E THEN e ELSE v]
    OBVIOUS
  <1>1. /\ s \in Source /\ n \in VoucherNumber /\ TxOK(t) /\ pc[t] = "voucher"
        /\ Sees(t, N) = NoVoucher
    BY DEF IInv, TypeOK, RequestTypeOK, InsertVoucher, NumberFree
  <1>2. /\ \A m \in VoucherNumber :
              LET w == Sees(t, Number(m))
              IN  w # NoVoucher /\ w.source = s => SeenEvent(t).voucher = m
        /\ Has(t, E)
        /\ SeenEvent(t) = [status |-> "pending", voucher |-> NoNumber, id |-> t]
        /\ Has(t, Payment(s)) /\ Sees(t, Payment(s)) = amount[t]
        /\ amount[t] \in Amount
    BY <1>1 DEF TxOK, ViewOK, MyEvent, MyPayment, SeenEvent, SeenPayment, Writing, Late
  <1>3. /\ E \in Row /\ N \in Row /\ E # N /\ Payment(s) \notin {E, N} /\ Payment(s) \in Row
        /\ Columns[E] = EventValue /\ Columns[N] = VoucherValue
        /\ \A m \in VoucherNumber : Number(m) \in Row /\ Number(m) # E
                                    /\ (Number(m) = N => m = n)
    BY <1>1, RowsDiffer, ColumnsAre
  <1>4. WriteRows(t, values) /\ Goto(t, "commit") /\ UNCHANGED <<locals, old, due>>
    <2>1. [SeenEvent(t) EXCEPT !.status = "posted", !.voucher = number[t]] = e
      <3> PICK x, w : x = SeenEvent(t) /\ w = [x EXCEPT !.status = "posted", !.voucher = n]
        OBVIOUS
      <3>1. x = [status |-> "pending", voucher |-> NoNumber, id |-> t]
        BY <1>2
      <3>2. w.status = "posted" /\ w.id = t /\ w.voucher = n
        BY <3>1
      <3>3. x \in [status : {"pending", "posted"}, voucher : {NoNumber, n}, id : {t}]
        BY <3>1
      <3>4. w \in [status : {"pending", "posted"}, voucher : {NoNumber, n}, id : {t}]
        BY <3>3
      <3> QED BY <3>2, <3>4
    <2> QED BY <1>0, <2>1 DEF InsertVoucher
  <1>5. e \in EventValue /\ v \in VoucherValue
    BY <1>1, <1>2, NumbersAreNotNone DEF EventValue, VoucherValue
  <1>6. /\ DOMAIN values = {N, E} /\ values[E] = e /\ values[N] = v
        /\ \A r \in DOMAIN values : values[r] \in Columns[r]
    BY <1>0, <1>3, <1>5
  <1>7. /\ TypeOK' /\ OnlyOf(t) /\ Begins(t) /\ committed' = committed
        /\ pc'[t] = "commit" /\ source' = source /\ amount' = amount
        /\ Has(t, E)' /\ Sees(t, E)' = e /\ Sees(t, N)' = v /\ pending'[t][N] = v
        /\ DOMAIN pending'[t] = DOMAIN pending[t] \cup {N, E}
        /\ \A q \in Row : q \notin {N, E} => Sees(t, q)' = Sees(t, q)
        /\ \A q : q \notin {N, E} => Has(t, q)' = Has(t, q)
        /\ \A q \in DOMAIN pending[t] : q \notin {N, E} => pending'[t][q] = pending[t][q]
    <2>1. pc[t] \in Writing \cup {"delete"} /\ "commit" \in Writing
      BY <1>1 DEF Writing, Late
    <2>2. DOMAIN values \subseteq Row
      BY <1>3, <1>6
    <2>3. /\ TypeOK' /\ OnlyOf(t) /\ Begins(t) /\ committed' = committed
          /\ pc'[t] = "commit" /\ source' = source /\ amount' = amount
          /\ \A r \in DOMAIN values :
                Has(t, r)' /\ Sees(t, r)' = values[r] /\ pending'[t][r] = values[r]
          /\ DOMAIN pending'[t] = DOMAIN pending[t] \cup DOMAIN values
          /\ \A q \in Row : q \notin DOMAIN values => Sees(t, q)' = Sees(t, q)
          /\ \A q : q \notin DOMAIN values => Has(t, q)' = Has(t, q)
          /\ \A q \in DOMAIN pending[t] :
                q \notin DOMAIN values => pending'[t][q] = pending[t][q]
      BY <1>4, <1>6, <2>1, <2>2, WriteManyStep
    <2> QED BY <1>6, <2>3
  <1>8. RowsOK(t)'
    <2>1. DOMAIN pending'[t] \subseteq {MyPayment(t), MyEvent(t), Payer(t), Sequence}
                                          \cup {Number(m) : m \in VoucherNumber}
      BY <1>1, <1>7 DEF TxOK, RowsOK, MyEvent
    <2>2. ASSUME NEW m \in VoucherNumber, Has(t, Number(m))'
          PROVE  /\ IsVoucherOf(committed[Number(m)], s)
                 /\ IsVoucherOf(pending'[t][Number(m)], s)
      <3>1. CASE m = n
        <4>1. IsVoucherOf(v, s)
          BY DEF IsVoucherOf
        <4>2. IsVoucherOf(committed[N], s)
          BY <1>1 DEF TxOK, RowsOK, Has, Sees, IsVoucherOf
        <4> QED BY <1>7, <3>1, <4>1, <4>2
      <3>2. CASE m # n
        <4>1. Number(m) \notin {N, E}
          BY <1>3, <3>2
        <4>2. Has(t, Number(m)) /\ pending'[t][Number(m)] = pending[t][Number(m)]
          BY <1>7, <2>2, <4>1 DEF Has
        <4> QED BY <1>1, <4>2 DEF TxOK, RowsOK
      <3> QED BY <3>1, <3>2
    <2> QED BY <1>7, <2>1, <2>2 DEF RowsOK, MyPayment, MyEvent, Payer, Writing, Late
  <1>9. ASSUME NEW m \in VoucherNumber, Sees(t, Number(m))' # NoVoucher,
               Sees(t, Number(m))'.source = s
        PROVE  m = n
    <2>1. SUFFICES ASSUME m # n PROVE FALSE
      OBVIOUS
    <2>2. Sees(t, Number(m))' = Sees(t, Number(m))
      BY <1>3, <1>7, <2>1
    <2>3. SeenEvent(t).voucher = m
      BY <1>2, <1>9, <2>2
    <2> QED BY <1>2, <2>3, NumbersAreNotNone
  <1>10. e # NoEvent /\ amount[t] # NoPayment
    BY <1>2, AmountAssumption DEF NoEvent, NoPayment
  <1>11. ViewOK(t)'
    BY <1>1, <1>2, <1>3, <1>7, <1>9, <1>10
       DEF ViewOK, SeenEvent, SeenPayment, MyPayment, MyEvent, Late
  <1>12. TxOK(t)'
    BY <1>1, <1>7, <1>8, <1>11, StaysFresh DEF TxOK, Late
  <1> QED BY <1>7, <1>12, QuietStep

LEMMA DeletePostedIInv ==
    ASSUME IInv, NEW t \in Tx, DeletePosted(t), UNCHANGED <<old, due>>
    PROVE  IInv'
  <1> PICK s, E, n : s = source[t] /\ E = Event(s) /\ n = found[t].voucher
    OBVIOUS
  <1>0. PICK values : values = [r \in EventRows(t) |-> IF r = E THEN NoEvent ELSE NoVoucher]
    OBVIOUS
  <1>1. /\ s \in Source /\ TxOK(t) /\ pc[t] = "delete" /\ found[t] \in EventValue
        /\ SeenEvent(t).id = found[t].id
        /\ WriteRows(t, values) /\ Goto(t, "voided") /\ UNCHANGED <<locals, old, due>>
    BY <1>0 DEF IInv, TypeOK, RequestTypeOK, DeletePosted, StillThere
  <1>2. DOMAIN pending[t] = {}
    BY <1>1 DEF TxOK, RowsOK, Writing, Late
  <1>3. EventOf(s).voucher = n
    <2>1. SeenEvent(t) = EventOf(s)
      BY <1>2 DEF SeenEvent, Sees, EventOf
    <2> QED BY <1>1, <2>1 DEF TxOK, FoundOK
  <1>4. n = NoNumber \/ n \in VoucherNumber
    BY <1>1, EventShape
  <1>5. /\ E \in Row /\ Payment(s) \in Row
        /\ Columns[E] = EventValue
        /\ \A m \in VoucherNumber : Number(m) \in Row /\ Number(m) # E /\ Number(m) # Payment(s)
                                    /\ Columns[Number(m)] = VoucherValue
        /\ Payment(s) # E
        /\ \A m \in VoucherNumber : \A k : Number(m) = Number(k) => m = k
    BY <1>1, RowsDiffer, ColumnsAre
  <1>6. /\ DOMAIN values = {E} \cup {Number(m) : m \in {n} \ {NoNumber}}
        /\ \A r \in DOMAIN values : values[r] = IF r = E THEN NoEvent ELSE NoVoucher
    BY <1>0 DEF EventRows
  <1>7. /\ DOMAIN values \subseteq Row
        /\ \A r \in DOMAIN values : values[r] \in Columns[r]
        /\ E \in DOMAIN values
        /\ \A m \in VoucherNumber : Number(m) \in DOMAIN values <=> m = n
        /\ Payment(s) \notin DOMAIN values
    <2>1. NoEvent \in EventValue /\ NoVoucher \in VoucherValue
      BY DEF EventValue, VoucherValue
    <2>2. \A m \in VoucherNumber : Number(m) \in DOMAIN values <=> m = n
      BY <1>5, <1>6, NumbersAreNotNone
    <2> QED BY <1>4, <1>5, <1>6, <2>1, <2>2
  <1>8. /\ TypeOK' /\ OnlyOf(t) /\ Begins(t) /\ committed' = committed
        /\ pc'[t] = "voided" /\ source' = source /\ amount' = amount
        /\ \A r \in DOMAIN values :
              Has(t, r)' /\ Sees(t, r)' = values[r] /\ pending'[t][r] = values[r]
        /\ DOMAIN pending'[t] = DOMAIN values
        /\ \A q \in Row : q \notin DOMAIN values => Sees(t, q)' = Sees(t, q)
        /\ \A q : q \notin DOMAIN values => Has(t, q)' = Has(t, q)
    <2>1. pc[t] \in Writing \cup {"delete"} /\ "voided" \in Writing
      BY <1>1 DEF Writing, Late
    <2>2. /\ TypeOK' /\ OnlyOf(t) /\ Begins(t) /\ committed' = committed
          /\ pc'[t] = "voided" /\ source' = source /\ amount' = amount
          /\ \A r \in DOMAIN values :
                Has(t, r)' /\ Sees(t, r)' = values[r] /\ pending'[t][r] = values[r]
          /\ DOMAIN pending'[t] = DOMAIN pending[t] \cup DOMAIN values
          /\ \A q \in Row : q \notin DOMAIN values => Sees(t, q)' = Sees(t, q)
          /\ \A q : q \notin DOMAIN values => Has(t, q)' = Has(t, q)
      BY <1>1, <1>7, <2>1, WriteManyStep
    <2> QED BY <1>2, <2>2
  <1>9. \A m \in VoucherNumber : VoucherAt(m) # NoVoucher /\ VoucherAt(m).source = s => m = n
    BY <1>3 DEF IInv, VouchersMatchPayments
  <1>10. RowsOK(t)'
    <2>1. DOMAIN values \subseteq {E} \cup {Number(m) : m \in VoucherNumber}
      BY <1>4, <1>6
    <2>2. ASSUME NEW m \in VoucherNumber, Number(m) \in DOMAIN values
          PROVE  /\ IsVoucherOf(committed[Number(m)], s)
                 /\ IsVoucherOf(pending'[t][Number(m)], s)
      <3>1. m = n
        BY <1>7, <2>2
      <3>2. VoucherAt(n).source = s
        <4>1. EventOf(s).voucher = n /\ n # NoNumber
          BY <1>3, <3>1, NumbersAreNotNone
        <4>2. VoucherAt(n) = [source |-> s, amount |-> Paid(s)]
          BY <1>1, <4>1 DEF IInv, VouchersMatchPayments
        <4> QED BY <4>2
      <3>3. pending'[t][Number(m)] = NoVoucher
        BY <1>5, <1>6, <1>8, <2>2
      <3> QED BY <3>1, <3>2, <3>3 DEF IsVoucherOf, VoucherAt
    <2> QED BY <1>8, <2>1, <2>2 DEF RowsOK, Has, MyEvent, Writing
  <1>11. \A m \in VoucherNumber :
            Sees(t, Number(m))' = NoVoucher \/ Sees(t, Number(m))'.source # s
    <2> TAKE m \in VoucherNumber
    <2>1. CASE m = n
      BY <1>5, <1>6, <1>7, <1>8, <2>1
    <2>2. CASE m # n
      <3>1. Sees(t, Number(m))' = VoucherAt(m)
        BY <1>2, <1>5, <1>7, <1>8, <2>2 DEF Sees, VoucherAt
      <3> QED BY <1>9, <2>2, <3>1
    <2> QED BY <2>1, <2>2
  <1>12. Sees(t, E)' = NoEvent /\ Has(t, E)' /\ ~Has(t, Payment(s))'
    BY <1>2, <1>6, <1>7, <1>8 DEF Has
  <1>13. ViewOK(t)'
    BY <1>8, <1>11, <1>12 DEF ViewOK, SeenEvent, MyPayment, MyEvent, Late
  <1>14. TxOK(t)'
    BY <1>8, <1>10, <1>13 DEF TxOK, FoundOK, FreshOK, Late
  <1> QED BY <1>8, <1>14, QuietStep

-----------------------------------------------------------------------------
(* Commits.                                                                  *)

\* While t is past its payment, nobody else has begun to write for the same one.
LEMMA AloneAmongWriters ==
    ASSUME IInv, NEW t \in Tx, pc[t] \in Late, NEW u \in Tx, u # t, source[u] = source[t],
           pc[u] \in Writing \cup {"insert"}
    PROVE  FALSE
  <1>1. TxOK(t) /\ TxOK(u) /\ DbTypeOK(Columns)
    BY DEF IInv, TypeOK
  <1>2. Has(t, MyEvent(t)) \/ Paid(source[t]) = NoPayment
    BY <1>1 DEF TxOK, ViewOK, Writing
  <1>3. pc[u] # "idle" /\ pc[t] # "idle"
    BY DEF Writing, Late
  <1>4. Paid(source[t]) # NoPayment
    BY <1>1, <1>3 DEF TxOK, FreshOK
  <1>5. pc[u] \in Writing
    BY <1>1, <1>4 DEF TxOK, FreshOK
  <1>6. Has(u, MyEvent(u))
    BY <1>1, <1>4, <1>5 DEF TxOK, ViewOK
  <1> QED BY <1>1, <1>2, <1>4, <1>6 DEF DbTypeOK, Has, MyEvent

LEMMA CommitIInv ==
    ASSUME IInv, NEW t \in Tx, Commit(t)
    PROVE  IInv'
  <1> PICK s, e : s = source[t] /\ e = SeenEvent(t)
    OBVIOUS
  <1>1. /\ s \in Source /\ TxOK(t) /\ pc[t] = "commit" /\ DbTypeOK(Columns) /\ RequestTypeOK
        /\ CommitTx(t) /\ pc' = [pc EXCEPT ![t] = "committed"]
        /\ UNCHANGED <<locals, old, due>> /\ source' = source
    BY DEF IInv, TypeOK, RequestTypeOK, Commit, Goto, locals
  <1>2. /\ \A r \in Row : committed'[r] = Sees(t, r)
        /\ DOMAIN pending'[t] = {}
        /\ \A u \in Tx : u # t => pending'[u] = pending[u]
        /\ \A u \in Tx, r \in Row :
              u # t /\ r \in DOMAIN pending[u] => committed'[r] = committed[r]
        /\ \A u \in Tx, r \in Row :
              u # t => Sees(u, r)' = IF r \in DOMAIN pending[u] THEN Sees(u, r) ELSE Sees(t, r)
    BY <1>1, CommitSeen
  <1>3. pc'[t] = "committed" /\ \A u \in Tx : u # t => pc'[u] = pc[u]
    BY <1>1 DEF RequestTypeOK
  <1>4. TypeOK'
    <2>1. DbTypeOK(Columns)'
      BY <1>1, CommitTyped
    <2>2. RequestTypeOK'
      BY <1>1 DEF RequestTypeOK, Statement, Done, locals
    <2> QED BY <2>1, <2>2 DEF TypeOK
  <1>5. /\ \A n \in VoucherNumber :
              LET v == Sees(t, Number(n))
              IN  v # NoVoucher /\ v.source = s => e.voucher = n
        /\ Sees(t, Payment(s)) = amount[t]
        /\ amount[t] = NoPayment <=> e = NoEvent
        /\ e.id \in {NoTx, t}
        /\ e.voucher # NoNumber =>
              Sees(t, Number(e.voucher)) = [source |-> s, amount |-> amount[t]]
    BY <1>1 DEF TxOK, ViewOK, SeenPayment, Writing, Late
  <1>6. e \in EventValue
    BY <1>1, CellsTyped DEF IInv, SeenEvent
  <1>7. Paid(s)' = amount[t] /\ EventOf(s)' = e
    BY <1>1, <1>2, <1>5, RowsDiffer DEF Paid, EventOf, SeenEvent
  <1>8. ASSUME NEW q \in Source, q # s
        PROVE  Paid(q)' = Paid(q) /\ EventOf(q)' = EventOf(q)
    <2>1. ~Has(t, Payment(q)) /\ ~Has(t, Event(q))
      BY <1>1, <1>8, RowsDiffer DEF TxOK, RowsOK, Has, MyPayment, MyEvent, Payer
    <2> QED BY <1>2, <2>1, RowsDiffer DEF Paid, EventOf, Sees, Has
  <1>9. ASSUME NEW n \in VoucherNumber
        PROVE  /\ VoucherAt(n)' = Sees(t, Number(n))
               /\ \/ VoucherAt(n)' = VoucherAt(n)
                  \/ Has(t, Number(n)) /\ IsVoucherOf(VoucherAt(n), s) /\ IsVoucherOf(VoucherAt(n)', s)
    <2>1. VoucherAt(n)' = Sees(t, Number(n))
      BY <1>2, RowsDiffer DEF VoucherAt
    <2>2. CASE Has(t, Number(n))
      BY <1>1, <2>1, <2>2 DEF TxOK, RowsOK, Sees, Has, VoucherAt
    <2>3. CASE ~Has(t, Number(n))
      BY <2>1, <2>3 DEF Sees, Has, VoucherAt
    <2> QED BY <2>1, <2>2, <2>3
  <1>10. \A v \in Tx : pc[v] = "committed" => pc'[v] = "committed"
    BY <1>3
  <1>11. RecordedOK'
    <2> SUFFICES ASSUME NEW q \in Source, NEW x, x = committed'[Event(q)]
                 PROVE  /\ Paid(q)' # NoPayment => \E u \in Tx : source[u] = q /\ pc'[u] # "idle"
                        /\ x.id \in Tx => pc'[x.id] = "committed"
      BY <1>1 DEF RecordedOK, EventOf
    <2>1. CASE q = s
      <3>1. x = e
        BY <1>7, <2>1 DEF EventOf
      <3> QED BY <1>3, <1>5, <2>1, <3>1, NoTxAssumption
    <2>2. CASE q # s
      <3>1. \A u \in Tx : pc[u] # "idle" => pc'[u] # "idle"
        BY <1>1, <1>3
      <3>2. x = EventOf(q)
        BY <1>8, <2>2 DEF EventOf
      <3> QED BY <1>8, <1>10, <2>2, <3>1, <3>2 DEF IInv, RecordedOK
    <2> QED BY <2>1, <2>2
  <1>12. VouchersMatchPayments'
    <2>1. ASSUME NEW q \in Source, NEW x, x = committed'[Event(q)]
          PROVE  /\ committed'[Payment(q)] = NoPayment <=> x = NoEvent
                 /\ x.status = "posted" <=> x.voucher # NoNumber
                 /\ x.voucher # NoNumber
                       => committed'[Number(x.voucher)]
                             = [source |-> q, amount |-> committed'[Payment(q)]]
      <3>1. CASE q = s
        <4>1. x = e /\ committed'[Payment(q)] = amount[t]
          BY <1>7, <2>1, <3>1 DEF Paid, EventOf
        <4>2. /\ e.status = "posted" <=> e.voucher # NoNumber
              /\ e.voucher # NoNumber => e.voucher \in VoucherNumber
          BY <1>6, EventShape
        <4>3. e.voucher # NoNumber => committed'[Number(e.voucher)] = Sees(t, Number(e.voucher))
          BY <1>9, <4>2 DEF VoucherAt
        <4> QED BY <1>5, <3>1, <4>1, <4>2, <4>3
      <3>2. CASE q # s
        <4> PICK n : n = x.voucher
          OBVIOUS
        <4>1. EventOf(q) = x /\ committed'[Payment(q)] = Paid(q)
          BY <1>8, <2>1, <3>2 DEF EventOf, Paid
        <4>2. /\ Paid(q) = NoPayment <=> x = NoEvent
              /\ x.status = "posted" <=> n # NoNumber
              /\ n # NoNumber => VoucherAt(n) = [source |-> q, amount |-> Paid(q)]
          BY <4>1 DEF IInv, VouchersMatchPayments
        <4>3. ASSUME n # NoNumber PROVE VoucherAt(n)' = VoucherAt(n)
          <5>1. n \in VoucherNumber
            BY <4>1, <4>3, CellsTyped, EventShape DEF IInv
          <5>2. x # NoEvent
            BY <4>3 DEF NoEvent
          <5>3. VoucherAt(n).source = q /\ VoucherAt(n).amount # 0
            BY <4>2, <4>3, <5>2 DEF NoPayment
          <5>4. VoucherAt(n) # NoVoucher
            BY <5>3 DEF NoVoucher
          <5> QED BY <1>9, <3>2, <5>1, <5>3, <5>4 DEF IsVoucherOf
        <4> QED BY <4>1, <4>2, <4>3 DEF VoucherAt
      <3> QED BY <3>1, <3>2
    <2>2. ASSUME NEW n \in VoucherNumber, NEW v, v = committed'[Number(n)], v # NoVoucher
          PROVE  committed'[Event(v.source)].voucher = n
      <3>1. v = VoucherAt(n)' /\ v = Sees(t, Number(n))
        BY <1>9, <2>2 DEF VoucherAt
      <3>2. CASE v.source = s
        BY <1>5, <1>7, <2>2, <3>1, <3>2 DEF EventOf
      <3>3. CASE v.source # s
        <4>1. v = VoucherAt(n)
          BY <1>9, <2>2, <3>1, <3>3 DEF IsVoucherOf
        <4>2. v.source \in Source
          BY <2>2, <4>1, CellsTyped DEF IInv, VoucherValue
        <4>3. committed'[Event(v.source)] = EventOf(v.source)
          BY <1>8, <3>3, <4>2 DEF EventOf
        <4>4. EventOf(v.source).voucher = n
          BY <2>2, <4>1 DEF IInv, VouchersMatchPayments
        <4> QED BY <4>3, <4>4
      <3> QED BY <3>2, <3>3
    <2> QED BY <2>1, <2>2 DEF VouchersMatchPayments, Paid, EventOf, VoucherAt
  <1>13. TxOK(t)'
    BY <1>2, <1>3, RestingTxOK DEF Writing, Late
  <1>14. ASSUME NEW u \in Tx, u # t
         PROVE  TxOK(u)'
    <2> PICK q : q = source[u]
      OBVIOUS
    <2>1. /\ pc'[u] = pc[u] /\ pending'[u] = pending[u] /\ amount'[u] = amount[u]
          /\ found'[u] = found[u] /\ TxOK(u) /\ q \in Source
          /\ \A r : Has(u, r)' = Has(u, r)
      BY <1>1, <1>2, <1>3, <1>14 DEF IInv, RequestTypeOK, locals, Has
    <2>2. pc[u] \in Writing \cup {"insert"} => q # s
      BY <1>1, <1>14, AloneAmongWriters DEF Late
    <2>3. RowsOK(u)'
      <3>1. \A n \in VoucherNumber : Has(u, Number(n)) => committed'[Number(n)] = committed[Number(n)]
        BY <1>2, <1>14, RowsDiffer DEF Has
      <3> QED BY <1>1, <2>1, <3>1 DEF TxOK, RowsOK, Has, MyPayment, MyEvent, Payer
    <2>4. FoundOK(u)'
      <3> SUFFICES ASSUME pc[u] \in {"delete", "retry"}
                   PROVE  FoundOK(u)'
        BY <2>1 DEF FoundOK
      <3>1. /\ found[u].id \in Tx /\ pc[found[u].id] = "committed"
            /\ EventOf(q).id = found[u].id => EventOf(q).voucher = found[u].voucher
            /\ pc[u] = "retry" => found[u].voucher = NoNumber
        BY <2>1 DEF TxOK, FoundOK
      <3>2. found[u].id # t /\ found[u].id # NoTx
        BY <1>1, <3>1, NoTxAssumption
      <3>3. EventOf(q)'.id = found[u].id => EventOf(q)'.voucher = found[u].voucher
        <4>1. CASE q = s
          BY <1>5, <1>7, <3>2, <4>1
        <4>2. CASE q # s
          BY <1>8, <2>1, <3>1, <4>2
        <4> QED BY <4>1, <4>2
      <3> QED BY <1>1, <1>10, <2>1, <3>1, <3>3 DEF FoundOK
    <2>5. ViewOK(u)'
      <3> SUFFICES ASSUME pc[u] \in Writing
                   PROVE  ViewOK(u)'
        BY <2>1 DEF ViewOK
      <3>1. q # s
        BY <2>2
      <3>2. Paid(q)' = Paid(q)
        BY <1>8, <2>1, <3>1
      <3>3. Sees(u, Event(q))' = Sees(u, Event(q)) /\ Sees(u, Payment(q))' = Sees(u, Payment(q))
        <4>1. ~Has(t, Payment(q)) /\ ~Has(t, Event(q))
          BY <1>1, <2>1, <3>1, RowsDiffer DEF TxOK, RowsOK, Has, MyPayment, MyEvent, Payer
        <4> QED BY <1>2, <1>14, <2>1, <4>1, RowsDiffer DEF Sees, Has
      <3>4. ASSUME NEW n \in VoucherNumber
            PROVE  \/ Sees(u, Number(n))' = Sees(u, Number(n))
                   \/ IsVoucherOf(Sees(u, Number(n)), s) /\ IsVoucherOf(Sees(u, Number(n))', s)
        <4>1. CASE Has(u, Number(n))
          BY <1>2, <1>14, <4>1, RowsDiffer DEF Has
        <4>2. CASE ~Has(u, Number(n))
          <5>1. Sees(u, Number(n))' = VoucherAt(n)' /\ Sees(u, Number(n)) = VoucherAt(n)
            BY <1>2, <1>9, <1>14, <4>2, RowsDiffer DEF Has, Sees, VoucherAt
          <5> QED BY <1>9, <5>1
        <4> QED BY <4>1, <4>2
      <3>5. ASSUME NEW n \in VoucherNumber, Sees(u, Number(n))' # NoVoucher,
                   Sees(u, Number(n))'.source = q
            PROVE  SeenEvent(u).voucher = n
        <4>1. Sees(u, Number(n))' = Sees(u, Number(n))
          BY <3>1, <3>4, <3>5 DEF IsVoucherOf
        <4> QED BY <2>1, <3>5, <4>1 DEF TxOK, ViewOK
      <3>6. ASSUME pc[u] = "commit", SeenEvent(u).voucher # NoNumber
            PROVE  \A n : n = SeenEvent(u).voucher
                      => Sees(u, Number(n))' = [source |-> q, amount |-> amount[u]]
        <4> TAKE n
        <4> HAVE n = SeenEvent(u).voucher
        <4>1. /\ Sees(u, Number(n)) = [source |-> q, amount |-> amount[u]]
              /\ amount[u] = NoPayment <=> SeenEvent(u) = NoEvent
          BY <2>1, <3>6 DEF TxOK, ViewOK
        <4>2. n \in VoucherNumber
          BY <2>1, <3>6, CellsTyped, EventShape DEF IInv, SeenEvent
        <4>3. SeenEvent(u) # NoEvent
          BY <3>6 DEF NoEvent
        <4>4. Sees(u, Number(n)).source = q /\ Sees(u, Number(n)).amount # 0
          BY <4>1, <4>3 DEF NoPayment
        <4>5. ~IsVoucherOf(Sees(u, Number(n)), s)
          BY <3>1, <4>4 DEF IsVoucherOf, NoVoucher
        <4>6. Sees(u, Number(n))' = Sees(u, Number(n))
          BY <3>4, <4>2, <4>5
        <4> QED BY <4>1, <4>6
      <3>7. SeenEvent(u)' = SeenEvent(u) /\ SeenPayment(u)' = SeenPayment(u)
        BY <1>1, <3>3 DEF SeenEvent, SeenPayment
      <3>8. MyEvent(u)' = MyEvent(u) /\ MyPayment(u)' = MyPayment(u)
        BY <1>1 DEF MyEvent, MyPayment
      <3>9. ViewOK(u)
        BY <2>1 DEF TxOK
      <3> HIDE DEF MyEvent, MyPayment
      <3> QED BY <1>1, <2>1, <3>2, <3>5, <3>6, <3>7, <3>8, <3>9 DEF ViewOK
    <2>6. FreshOK(u)'
      <3> SUFFICES ASSUME pc[u] \in Late \cup {"insert"}
                   PROVE  FreshOK(u)'
        BY <2>1 DEF FreshOK
      <3>1. q # s /\ Paid(q)' = Paid(q)
        BY <1>8, <2>1, <2>2 DEF Writing
      <3> QED BY <1>1, <1>3, <2>1, <3>1 DEF TxOK, FreshOK
    <2> QED BY <2>3, <2>4, <2>5, <2>6 DEF TxOK
  <1> QED BY <1>4, <1>11, <1>12, <1>13, <1>14 DEF IInv

LEMMA UpdateForRetryIInv ==
    ASSUME IInv, NEW t \in Tx, UpdateForRetry(t), UNCHANGED <<old, due>>
    PROVE  IInv'
  <1> PICK s, E, e : s = source[t] /\ E = Event(s) /\ e = EventOf(s)
    OBVIOUS
  <1>1. /\ s \in Source /\ TxOK(t) /\ pc[t] = "retry" /\ DbTypeOK(Columns) /\ RequestTypeOK
        /\ UNCHANGED <<locals, old, due>>
    BY DEF IInv, TypeOK, RequestTypeOK, UpdateForRetry
  <1>2. DOMAIN pending[t] = {}
    BY <1>1 DEF TxOK, RowsOK, Writing, Late
  <1>3. SeenEvent(t) = e
    BY <1>2 DEF SeenEvent, Sees, EventOf
  <1>4. CASE ~StillThere(t)
    <2>1. pc' = [pc EXCEPT ![t] = "failed"] /\ UNCHANGED dbVars
      BY <1>4 DEF UpdateForRetry, Goto
    <2>2. /\ DbTypeOK(Columns)' /\ committed' = committed /\ pending' = pending
      BY <2>1, NothingWritten
    <2>3. pc'[t] = "failed" /\ \A u \in Tx : u # t => pc'[u] = pc[u]
      BY <1>1, <2>1 DEF RequestTypeOK
    <2>4. OnlyOf(t) /\ Begins(t)
      BY <1>1, <2>2, <2>3 DEF OnlyOf, Begins, Done, locals
    <2>5. TypeOK'
      BY <1>1, <2>1, <2>2 DEF TypeOK, RequestTypeOK, Statement, Done, locals
    <2>6. TxOK(t)'
      BY <1>2, <2>2, <2>3, RestingTxOK DEF Writing, Late
    <2> QED BY <2>2, <2>4, <2>5, <2>6, QuietStep
  <1>5. CASE StillThere(t)
    <2> PICK x : x = [e EXCEPT !.status = "pending"]
      OBVIOUS
    <2>1. PICK values : values = [r \in {E} |-> x]
      OBVIOUS
    <2>2. Autocommit(values) /\ pc' = [pc EXCEPT ![t] = "committed"]
      <3>1. [r \in {Event(source[t])} |-> [committed[r] EXCEPT !.status = "pending"]] = values
        BY <2>1 DEF EventOf
      <3> QED BY <1>5, <3>1 DEF UpdateForRetry, Goto
    <2>3. e \in EventValue /\ e.id \in Tx /\ e.voucher = NoNumber
      <3>1. e \in EventValue
        BY <1>1, CellsTyped DEF IInv
      <3>2. e.id = found[t].id
        BY <1>3, <1>5 DEF StillThere
      <3>3. /\ found[t].id \in Tx
            /\ EventOf(s).id = found[t].id => EventOf(s).voucher = found[t].voucher
            /\ found[t].voucher = NoNumber
        BY <1>1 DEF TxOK, FoundOK
      <3> QED BY <3>1, <3>2, <3>3
    <2>4. e # NoEvent
      BY <2>3, EventShape, NoTxAssumption
    <2>5. /\ x \in EventValue /\ x.id = e.id /\ x.voucher = NoNumber /\ x # NoEvent
          /\ x.status # "posted"
      <3>1. e \in [status : {"pending", "skipped", "posted"},
                   voucher : {NoNumber} \cup VoucherNumber, id : Tx]
        BY <2>3, <2>4 DEF EventValue
      <3>2. x.status = "pending" /\ x.voucher = NoNumber /\ x.id = e.id
        BY <2>3, <3>1
      <3>3. x \in [status : {"pending", "skipped", "posted"},
                   voucher : {NoNumber} \cup VoucherNumber, id : Tx]
        BY <3>1
      <3> QED BY <2>3, <3>2, <3>3, NoTxAssumption DEF EventValue, NoEvent
    <2>6. /\ E \in Row /\ Columns[E] = EventValue
          /\ \A q \in Source : Payment(q) # E /\ (Event(q) = E => q = s)
                               /\ Payment(q) \in Row /\ Event(q) \in Row
          /\ \A n \in VoucherNumber : Number(n) # E /\ Number(n) \in Row
      BY <1>1, RowsDiffer, ColumnsAre
    <2>7. /\ DOMAIN values = {E} /\ values[E] = x
          /\ \A r \in DOMAIN values : values[r] \in Columns[r]
      BY <2>1, <2>5, <2>6
    <2>8. /\ pending' = pending
          /\ committed'[E] = x
          /\ \A r \in Row : r # E => committed'[r] = committed[r]
          /\ \A u \in Tx : ~Has(u, E)
          /\ \A u \in Tx, r \in Row : r # E => Sees(u, r)' = Sees(u, r)
      <3>1. /\ pending' = pending
            /\ \A r \in Row : committed'[r] = IF r \in DOMAIN values THEN values[r] ELSE committed[r]
            /\ \A u \in Tx : DOMAIN pending[u] \cap DOMAIN values = {}
            /\ \A u \in Tx, r \in Row :
                  Sees(u, r)' = IF r \in DOMAIN values THEN values[r] ELSE Sees(u, r)
        BY <1>1, <2>2, <2>6, <2>7, AutocommitSeen
      <3> QED BY <2>6, <2>7, <3>1 DEF Has
    <2>9. DbTypeOK(Columns)'
      BY <1>1, <2>2, <2>6, <2>7, AutocommitTyped
    <2>10. pc'[t] = "committed" /\ \A u \in Tx : u # t => pc'[u] = pc[u]
      BY <1>1, <2>2 DEF RequestTypeOK
    <2>11. TypeOK'
      BY <1>1, <2>2, <2>9 DEF TypeOK, RequestTypeOK, Statement, Done, locals
    <2>12. /\ \A q \in Source : Paid(q)' = Paid(q)
           /\ \A q \in Source : q # s => EventOf(q)' = EventOf(q)
           /\ EventOf(s)' = x
           /\ \A n \in VoucherNumber : VoucherAt(n)' = VoucherAt(n)
      BY <2>6, <2>8 DEF Paid, EventOf, VoucherAt
    <2>13. Paid(s) # NoPayment
      BY <1>1, <2>4 DEF IInv, VouchersMatchPayments
    <2>14. VouchersMatchPayments'
      <3>1. ASSUME NEW q \in Source, NEW y, y = committed'[Event(q)]
            PROVE  /\ committed'[Payment(q)] = NoPayment <=> y = NoEvent
                   /\ y.status = "posted" <=> y.voucher # NoNumber
                   /\ y.voucher # NoNumber
                         => committed'[Number(y.voucher)]
                               = [source |-> q, amount |-> committed'[Payment(q)]]
        <4>1. CASE q = s
          BY <2>5, <2>6, <2>8, <2>13, <3>1, <4>1 DEF Paid
        <4>2. CASE q # s
          <5>1. y = EventOf(q) /\ committed'[Payment(q)] = Paid(q)
            BY <2>12, <3>1, <4>2 DEF EventOf, Paid
          <5>2. y.voucher # NoNumber => y.voucher \in VoucherNumber
            BY <5>1, CellsTyped, EventShape DEF IInv
          <5>3. y.voucher # NoNumber => committed'[Number(y.voucher)] = VoucherAt(y.voucher)
            BY <2>12, <5>2 DEF VoucherAt
          <5> QED BY <5>1, <5>3 DEF IInv, VouchersMatchPayments
        <4> QED BY <4>1, <4>2
      <3>2. ASSUME NEW n \in VoucherNumber, NEW v, v = committed'[Number(n)], v # NoVoucher
            PROVE  committed'[Event(v.source)].voucher = n
        <4>1. v = VoucherAt(n)
          BY <2>12, <3>2 DEF VoucherAt
        <4>2. v.source \in Source
          BY <3>2, <4>1, CellsTyped DEF IInv, VoucherValue
        <4>3. EventOf(v.source).voucher = n
          BY <3>2, <4>1 DEF IInv, VouchersMatchPayments
        <4>4. v.source # s
          BY <2>3, <3>2, <4>3, NumbersAreNotNone
        <4> QED BY <2>12, <4>2, <4>3, <4>4 DEF EventOf
      <3> QED BY <3>1, <3>2 DEF VouchersMatchPayments, Paid, EventOf, VoucherAt
    <2>15. \A v \in Tx : pc[v] = "committed" => pc'[v] = "committed"
      BY <2>10
    <2>16. RecordedOK'
      <3> SUFFICES ASSUME NEW q \in Source, NEW y, y = committed'[Event(q)]
                   PROVE  /\ Paid(q)' # NoPayment => \E u \in Tx : source[u] = q /\ pc'[u] # "idle"
                          /\ y.id \in Tx => pc'[y.id] = "committed"
        BY <1>1 DEF RecordedOK, EventOf, locals
      <3>1. \A u \in Tx : pc[u] # "idle" => pc'[u] # "idle"
        BY <1>1, <2>10
      <3>2. y.id = EventOf(q).id
        BY <2>5, <2>12 DEF EventOf
      <3>3. Paid(q)' = Paid(q)
        BY <2>12
      <3> QED BY <2>15, <3>1, <3>2, <3>3 DEF IInv, RecordedOK
    <2>17. TxOK(t)'
      BY <1>2, <2>8, <2>10, RestingTxOK DEF Writing, Late
    <2>18. ASSUME NEW u \in Tx, u # t
           PROVE  TxOK(u)'
      <3> PICK q : q = source[u]
        OBVIOUS
      <3>1. /\ pc'[u] = pc[u] /\ pending'[u] = pending[u] /\ amount' = amount
            /\ found' = found /\ TxOK(u) /\ q \in Source /\ source' = source
            /\ \A r : Has(u, r)' = Has(u, r)
        BY <1>1, <2>8, <2>10, <2>18 DEF IInv, RequestTypeOK, locals, Has
      <3>2. RowsOK(u)'
        <4>1. \A n \in VoucherNumber : committed'[Number(n)] = committed[Number(n)]
          BY <2>6, <2>8
        <4> QED BY <3>1, <4>1 DEF TxOK, RowsOK, Has, MyPayment, MyEvent, Payer
      <3>3. FoundOK(u)'
        <4>1. EventOf(q)'.id = EventOf(q).id /\ EventOf(q)'.voucher = EventOf(q).voucher
          BY <2>3, <2>5, <2>12, <3>1
        <4> QED BY <2>15, <3>1, <4>1 DEF TxOK, FoundOK
      <3>4. ViewOK(u)'
        <4> SUFFICES ASSUME pc[u] \in Writing
                     PROVE  ViewOK(u)'
          BY <3>1 DEF ViewOK
        <4>1. q # s
          BY <2>8, <2>13, <3>1 DEF TxOK, ViewOK, MyEvent
        <4>2. /\ Sees(u, Event(q))' = Sees(u, Event(q)) /\ Sees(u, Payment(q))' = Sees(u, Payment(q))
              /\ \A n \in VoucherNumber : Sees(u, Number(n))' = Sees(u, Number(n))
              /\ Paid(q)' = Paid(q)
          BY <2>6, <2>8, <2>12, <3>1, <4>1
        <4>3. SeenEvent(u)' = SeenEvent(u) /\ SeenPayment(u)' = SeenPayment(u)
              /\ MyEvent(u)' = MyEvent(u) /\ MyPayment(u)' = MyPayment(u)
          BY <3>1, <4>2 DEF SeenEvent, SeenPayment, MyEvent, MyPayment
        <4>4. \A n : n = SeenEvent(u).voucher /\ n # NoNumber
                        => Sees(u, Number(n))' = Sees(u, Number(n))
          BY <3>1, <4>2, CellsTyped, EventShape DEF IInv, SeenEvent
        <4>5. ViewOK(u)
          BY <3>1 DEF TxOK
        <4> QED BY <3>1, <4>2, <4>3, <4>4, <4>5 DEF ViewOK
      <3>5. FreshOK(u)'
        <4>1. Paid(q)' = Paid(q)
          BY <2>12, <3>1
        <4> QED BY <1>1, <2>10, <3>1, <4>1 DEF TxOK, FreshOK
      <3> QED BY <3>2, <3>3, <3>4, <3>5 DEF TxOK
    <2> QED BY <2>11, <2>14, <2>16, <2>17, <2>18 DEF IInv
  <1> QED BY <1>4, <1>5

-----------------------------------------------------------------------------
LEMMA InitIInv == Init => IInv
  <1> SUFFICES ASSUME Init PROVE IInv
    OBVIOUS
  <1> DEFINE initial == [r \in Row |-> InitialRow(r)]
  <1>1. /\ initial[Sequence] = 1
        /\ \A s \in Source : initial[Event(s)] = NoEvent /\ initial[Payment(s)] = NoPayment
        /\ \A n \in VoucherNumber : initial[Number(n)] = NoVoucher
        /\ \A c \in Buyer : initial[Customer(c)] = OpeningDue
    <2>1. \A s \in Source : Event(s) \in PostingRows /\ Payment(s) \notin PostingRows
                            /\ Payment(s) \notin {Customer(c) : c \in Buyer}
      BY RowsDiffer DEF PostingRows
    <2>2. Sequence \in PostingRows /\ \A n \in VoucherNumber : Number(n) \in PostingRows
      BY DEF PostingRows
    <2>3. \A c \in Buyer : Customer(c) \notin PostingRows
      BY RowsDiffer DEF PostingRows
    <2>4. Sequence \notin {Customer(c) : c \in Buyer}
          /\ (\A s \in Source : Event(s) \notin {Customer(c) : c \in Buyer})
          /\ (\A n \in VoucherNumber : Number(n) \notin {Customer(c) : c \in Buyer})
      BY RowsDiffer
    <2>5. initial[Sequence] = 1
      BY <2>2, <2>4, RowsDiffer DEF InitialRow, PostingInitialRow
    <2>6. \A s \in Source : initial[Event(s)] = NoEvent
      BY <2>1, <2>4, RowsDiffer DEF InitialRow, PostingInitialRow
    <2>7. \A s \in Source : initial[Payment(s)] = NoPayment
      BY <2>1, RowsDiffer DEF InitialRow
    <2>8. \A n \in VoucherNumber : initial[Number(n)] = NoVoucher
      BY <2>2, <2>4, RowsDiffer DEF InitialRow, PostingInitialRow
    <2>9. \A c \in Buyer : initial[Customer(c)] = OpeningDue
      BY <2>3, RowsDiffer DEF InitialRow
    <2> QED BY <2>5, <2>6, <2>7, <2>8, <2>9
  <1>2. \A r \in Row : initial[r] \in Columns[r]
    <2>1. NoEvent \in EventValue /\ NoVoucher \in VoucherValue /\ NoPayment \in AnyAmount
      BY DEF EventValue, VoucherValue, AnyAmount
    <2>2. Row = {Sequence} \cup {Event(s) : s \in Source} \cup {Number(n) : n \in VoucherNumber}
                   \cup {Customer(c) : c \in Buyer} \cup {Payment(s) : s \in Source}
      BY RowAssumption DEF PostingRows
    <2> HIDE DEF initial
    <2> QED BY <1>1, <2>1, <2>2, ColumnsAre, AmountAssumption
  <1>3. DbTypeOK(Columns)
    BY <1>2, DbInitTyped DEF Init
  <1>4. RequestTypeOK
    <2>1. NoEvent \in EventValue /\ NoPayment \in AnyAmount /\ NoPayment = 0
      BY DEF EventValue, AnyAmount, NoPayment
    <2> QED BY <2>1 DEF Init, PostingInit, RequestTypeOK, Statement, NoNumber
  <1>5. \A t \in Tx : pc[t] = "idle" /\ DOMAIN pending[t] = {}
    BY DEF Init, PostingInit, DbInit, NoWrites
  <1>6. \A t \in Tx : TxOK(t)
    BY <1>5 DEF TxOK, RowsOK, FoundOK, ViewOK, FreshOK, Has, Writing, Late
  <1>7. /\ \A s \in Source : EventOf(s) = NoEvent /\ Paid(s) = NoPayment
        /\ \A n \in VoucherNumber : VoucherAt(n) = NoVoucher
    BY <1>1 DEF Init, DbInit, EventOf, Paid, VoucherAt
  <1>8. VouchersMatchPayments
    BY <1>7 DEF VouchersMatchPayments, NoEvent
  <1>9. RecordedOK
    BY <1>7, NoTxAssumption DEF RecordedOK, NoEvent
  <1> QED BY <1>3, <1>4, <1>6, <1>8, <1>9 DEF IInv, TypeOK

LEMMA UnchangedIInv ==
    ASSUME IInv, UNCHANGED <<dbVars, pc, source, amount, found, number, old, due>>
    PROVE  IInv'
  <1>1. TypeOK'
    BY DEF IInv, TypeOK, RequestTypeOK, DbTypeOK, dbVars
  <1>2. \A t : Sees(t, Event(source[t]))' = Sees(t, Event(source[t]))
               /\ Sees(t, Payment(source[t]))' = Sees(t, Payment(source[t]))
    BY DEF Sees, dbVars
  <1>3. \A t, r : Sees(t, r)' = Sees(t, r)
    BY DEF Sees, dbVars
  <1>4. \A t \in Tx : TxOK(t)'
    BY <1>2, <1>3 DEF IInv, TxOK, RowsOK, FoundOK, ViewOK, FreshOK, Has, MyEvent, MyPayment, Payer,
       SeenEvent, SeenPayment, Paid, EventOf, dbVars
  <1>5. RecordedOK' /\ VouchersMatchPayments'
    BY DEF IInv, RecordedOK, VouchersMatchPayments, Paid, EventOf, VoucherAt, dbVars
  <1> QED BY <1>1, <1>4, <1>5 DEF IInv

LEMMA NextIInv ==
    ASSUME IInv, [Next]_vars
    PROVE  IInv'
  <1>1. CASE UNCHANGED vars
    BY <1>1, UnchangedIInv DEF vars, postingVars, dbVars
  <1>2. CASE SwitchRule /\ UNCHANGED <<old, due>>
    BY <1>2, UnchangedIInv DEF SwitchRule
  <1>3. ASSUME NEW t \in Tx, PaymentGone(t) \/ Abort(t)
        PROVE  IInv'
    <2>1. Fail(t, "failed") /\ UNCHANGED <<old, due>> /\ pc[t] \notin Done /\ pc[t] # "idle"
      BY <1>3 DEF PaymentGone, Abort, Done
    <2> QED BY <2>1, FailIInv DEF Done
  <1>4. ASSUME NEW t \in Tx, NumberTaken(t) \/ DeletedMeanwhile(t), UNCHANGED <<old, due>>
        PROVE  IInv'
    <2>1. /\ Fail(t, "number_taken") \/ Fail(t, "failed")
          /\ pc[t] \notin Done /\ pc[t] # "idle"
      BY <1>4 DEF NumberTaken, DeletedMeanwhile, Done
    <2> QED BY <1>4, <2>1, FailIInv DEF Done
  <1>5. ASSUME NEW t \in Tx, PostingStep(t), UNCHANGED <<old, due>>
        PROVE  IInv'
    BY <1>4, <1>5, TakeEventIInv, SkipPostingIInv, ReadNumberIInv, IncrementSequenceIInv,
       InsertVoucherIInv, FindPostedIInv, DeletePostedIInv, UpdateForRetryIInv DEF PostingStep
  <1> QED BY <1>1, <1>2, <1>3, <1>5, ReadForRecordIInv, InsertPaymentIInv, ReadForChangeIInv,
             ReadCustomerIInv, ChangePaymentIInv, WriteBalanceIInv, CommitIInv, ReadForRetryIInv
          DEF Next, Serve

THEOREM SpecIInv == Spec => []IInv
  <1>1. IInv /\ [Next]_vars => IInv'
    BY NextIInv
  <1> QED BY <1>1, InitIInv, PTL DEF Spec

\* However many requests record, correct, delete and retry payments at once,
\* no voucher is orphaned, doubled or left at an old amount (customers.service.ts:
\* 530-589, posting.utils.ts:126-314).
THEOREM VouchersAgree == Spec => []VouchersMatchPayments
  <1>1. IInv => VouchersMatchPayments
    BY DEF IInv
  <1> QED BY <1>1, SpecIInv, PTL

-----------------------------------------------------------------------------
(* The due balances, as long as requests do not overlap.  The one request     *)
(* that runs has read what is still committed, and writes what follows.       *)

Running(t) == pc[t] \notin {"idle"} \cup Done

\* The statements of a request that has read the balance.
Counting == {"insert", "void", "delete"} \cup Writing

AccountOK(t) ==
    /\ pc[t] = "idle" => old[t] = NoPayment
    /\ pc[t] \in Counting => due[t] = committed[Payer(t)]
    /\ pc[t] \in Counting \cup {"customer"} => old[t] = Paid(source[t])
    /\ pc[t] \in Late \ {"balance"} => Has(t, Payer(t)) /\ pending[t][Payer(t)] = Balance(t)

DueOK == \A c \in Buyer : DueBalance(c) = OpeningDue - PaidBy(c)

AloneInv ==
    ~overlapped =>
        /\ \A t, u \in Tx : Running(t) /\ Running(u) => t = u
        /\ \A t \in Tx : AccountOK(t)
        /\ DueOK

\* The payments of a customer, and their amounts when the tables are as in f.
PaymentsOf(c) == {s \in Source : CustomerOf[s] = c}
Column(f, c) == [s \in PaymentsOf(c) |-> f[Payment(s)]]

\* PaidBy is a sum over the rows of the table, at any time.
LEMMA PaidByIsTotal ==
    ASSUME NEW f, NEW c
    PROVE  /\ committed = f => PaidBy(c) = Total(Column(f, c), PaymentsOf(c))
           /\ committed' = f => PaidBy(c)' = Total(Column(f, c), PaymentsOf(c))
  <1> DEFINE g == Column(f, c)
             S == PaymentsOf(c)
             PaidAdds(k) == k = [s \in SUBSET S |->
                  IF s = {} THEN 0 ELSE f[Payment(Chosen(s))] + k[Without(s)]]
  <1>1. IsFiniteSet(S)
    BY AmountAssumption, FS_Subset DEF PaymentsOf
  <1>2. \A x \in S : g[x] = f[Payment(x)]
    BY DEF Column
  <1>3. committed = f => PaidBy(c) = (CHOOSE k : PaidAdds(k))[S]
    BY DEF PaidBy, Paid, PaymentsOf, MapThenSumSet, MapThenFoldSet, Chosen, Without
  <1>4. committed' = f => PaidBy(c)' = (CHOOSE k : PaidAdds(k))[S]
    BY DEF PaidBy, Paid, PaymentsOf, MapThenSumSet, MapThenFoldSet, Chosen, Without
  <1> HIDE DEF g, S
  <1>5. PICK h : Adds(h, g, S)
    BY <1>1, AddsExists
  <1>6. \A k : Adds(k, g, S) => k[S] = h[S]
    BY <1>1, <1>5, AddsAgree
  <1>7. ASSUME NEW s \in SUBSET S, s # {}
        PROVE  g[Chosen(s)] = f[Payment(Chosen(s))]
    BY <1>2, <1>7, ChosenIsIn
  <1>8. \A k : PaidAdds(k) <=> Adds(k, g, S)
    BY <1>7 DEF Adds
  <1> HIDE DEF PaidAdds
  <1>9. (CHOOSE k : PaidAdds(k))[S] = h[S]
    BY <1>5, <1>6, <1>8
  <1> QED BY <1>1, <1>3, <1>4, <1>5, <1>9, TotalUnfolds DEF g, S

\* A table of payments that differs in the payment s: the sums do by as much.
LEMMA PaidByChanges ==
    ASSUME TypeOK, TypeOK', NEW s \in Source, NEW c,
           \A q \in Source : q # s => Paid(q)' = Paid(q)
    PROVE  /\ PaidBy(c) \in Int
           /\ PaidBy(c)' = PaidBy(c) + (IF CustomerOf[s] = c THEN Paid(s)' - Paid(s) ELSE 0)
  <1> PICK f, g : f = committed /\ g = committed'
    OBVIOUS
  <1> DEFINE S == PaymentsOf(c)
             F == Column(f, c)
             G == Column(g, c)
  <1>1. IsFiniteSet(S)
    BY AmountAssumption, FS_Subset DEF PaymentsOf
  <1>2. \A q \in Source : f[Payment(q)] = Paid(q) /\ g[Payment(q)] = Paid(q)'
    BY DEF Paid
  <1>3. \A q \in Source : f[Payment(q)] \in Int /\ g[Payment(q)] \in Int
    <2>1. \A q \in Source : Paid(q) \in AnyAmount
      BY CellsTyped
    <2>2. \A q \in Source : committed'[Payment(q)] \in AnyAmount
      <3>1. \A r \in Row : committed'[r] \in Columns[r]
        BY DEF TypeOK, DbTypeOK
      <3> QED BY <3>1, RowsDiffer, ColumnsAre
    <2>3. AnyAmount \subseteq Int
      BY AmountAssumption DEF AnyAmount, NoPayment
    <2> QED BY <2>1, <2>2, <2>3 DEF Paid
  <1>4. /\ F \in [S -> Int] /\ G \in [S -> Int]
        /\ \A q \in S : F[q] = f[Payment(q)] /\ G[q] = g[Payment(q)]
    BY <1>3 DEF Column, PaymentsOf
  <1>5. PaidBy(c) = Total(F, S) /\ PaidBy(c)' = Total(G, S)
    BY PaidByIsTotal
  <1>6. \A q \in S : q # s => G[q] = F[q]
    BY <1>2, <1>4 DEF PaymentsOf
  <1>7. s \in S <=> CustomerOf[s] = c
    BY DEF PaymentsOf
  <1> HIDE DEF F, G, S
  <1>8. Total(F, S) \in Int
    BY <1>1, <1>4, TotalTyped
  <1>9. CASE s \in S
    <2>1. Total(G, S) = Total(F, S) - F[s] + G[s]
      BY <1>1, <1>4, <1>6, <1>9, TotalChanges
    <2>2. F[s] = Paid(s) /\ G[s] = Paid(s)' /\ F[s] \in Int /\ G[s] \in Int
      BY <1>2, <1>3, <1>4, <1>9
    <2> QED BY <1>5, <1>7, <1>8, <1>9, <2>1, <2>2
  <1>10. CASE s \notin S
    <2>1. F = G
      BY <1>4, <1>6, <1>10
    <2> QED BY <1>5, <1>7, <1>8, <1>10, <2>1
  <1> QED BY <1>9, <1>10

\* While no payment changes, no sum does.
LEMMA PaidByStays ==
    ASSUME NEW c, committed' = committed
    PROVE  PaidBy(c)' = PaidBy(c)
  <1> PICK f : f = committed
    OBVIOUS
  <1> QED BY PaidByIsTotal

\* A step of t that writes no payment and no balance.
AccountsStay ==
    /\ \A s \in Source : Paid(s)' = Paid(s)
    /\ \A c \in Buyer : DueBalance(c)' = DueBalance(c)

KeepsWork(t) ==
    /\ source' = source
    /\ \A u \in Tx : u # t => /\ pc'[u] = pc[u] /\ pending'[u] = pending[u]
                              /\ amount'[u] = amount[u] /\ old'[u] = old[u] /\ due'[u] = due[u]

LEMMA NothingCommitted ==
    ASSUME committed' = committed
    PROVE  AccountsStay
  BY DEF AccountsStay, Paid, DueBalance

LEMMA AccountStep ==
    ASSUME IInv, TypeOK', AloneInv, Watch, NEW t \in Tx, AccountsStay, KeepsWork(t),
           ~overlapped => AccountOK(t)'
    PROVE  AloneInv'
  <1> SUFFICES ASSUME ~overlapped'
               PROVE  /\ \A u, v \in Tx : Running(u)' /\ Running(v)' => u = v
                      /\ \A u \in Tx : AccountOK(u)'
                      /\ DueOK'
    BY DEF AloneInv
  <1>1. ~overlapped
    BY DEF Watch
  <1>2. \A u, v \in Tx : Running(u)' /\ Running(v)' => u = v
    BY DEF Watch, Running
  <1>3. ASSUME NEW u \in Tx PROVE AccountOK(u)'
    <2>1. CASE u = t
      BY <1>1, <2>1
    <2>2. CASE u # t
      <3>1. /\ source'[u] = source[u] /\ source[u] \in Source
            /\ Payer(u)' = Payer(u) /\ CustomerOf[source[u]] \in Buyer
        BY RowsDiffer DEF KeepsWork, IInv, TypeOK, RequestTypeOK, Payer
      <3>2. /\ committed'[Payer(u)] = committed[Payer(u)] /\ Paid(source[u])' = Paid(source[u])
        BY <3>1 DEF AccountsStay, DueBalance, Payer
      <3>3. /\ pc'[u] = pc[u] /\ pending'[u] = pending[u] /\ old'[u] = old[u]
            /\ due'[u] = due[u] /\ Balance(u)' = Balance(u)
        BY <2>2 DEF KeepsWork, Balance
      <3>4. AccountOK(u)
        BY <1>1 DEF AloneInv
      <3> QED BY <3>1, <3>2, <3>3, <3>4 DEF AccountOK, Has, Paid
    <2> QED BY <2>1, <2>2
  <1>4. DueOK'
    <2>1. PICK s \in Source : s = source[t]
      BY DEF IInv, TypeOK, RequestTypeOK
    <2>2. \A c : PaidBy(c)' = PaidBy(c) + 0 /\ PaidBy(c) \in Int
      <3>1. \A q \in Source : q # s => Paid(q)' = Paid(q)
        BY DEF AccountsStay
      <3>2. TypeOK
        BY DEF IInv
      <3>3. Paid(s)' = Paid(s) /\ Paid(s) \in Int
        <4>1. Paid(s) \in AnyAmount
          BY <3>2, CellsTyped
        <4>2. AnyAmount \subseteq Int
          BY AmountAssumption DEF AnyAmount, NoPayment
        <4>3. Paid(s)' = Paid(s)
          BY DEF AccountsStay
        <4> QED BY <4>1, <4>2, <4>3
      <3>4. \A c : /\ PaidBy(c) \in Int
                   /\ PaidBy(c)' = PaidBy(c) + (IF CustomerOf[s] = c THEN Paid(s)' - Paid(s) ELSE 0)
        BY <3>1, <3>2, PaidByChanges
      <3> QED BY <3>3, <3>4
    <2>3. DueOK
      BY <1>1 DEF AloneInv
    <2> QED BY <2>2, <2>3 DEF AccountsStay, DueOK
  <1> QED BY <1>2, <1>3, <1>4

\* A statement of t that leaves its payment and its balance as they are.
LEMMA QuietAccount ==
    ASSUME IInv, TypeOK', AloneInv, Watch, NEW t \in Tx, AccountsStay, KeepsWork(t),
           UNCHANGED <<old, due>>, pc'[t] # "idle",
           pc'[t] \in Counting => pc[t] \in Counting /\ amount'[t] = amount[t],
           pc'[t] \in Late \ {"balance"} =>
              /\ Has(t, Payer(t)) => Has(t, Payer(t))' /\ pending'[t][Payer(t)] = pending[t][Payer(t)]
              /\ pc[t] \in Late \ {"balance"},
           pc'[t] # "customer"
    PROVE  AloneInv'
  <1> SUFFICES ASSUME ~overlapped PROVE AccountOK(t)'
    BY AccountStep
  <1>1. AccountOK(t)
    BY DEF AloneInv
  <1>2. /\ source'[t] = source[t] /\ source[t] \in Source
        /\ Payer(t)' = Payer(t) /\ CustomerOf[source[t]] \in Buyer
    BY RowsDiffer DEF KeepsWork, IInv, TypeOK, RequestTypeOK, Payer
  <1>3. committed'[Payer(t)] = committed[Payer(t)] /\ Paid(source[t])' = Paid(source[t])
    BY <1>2 DEF AccountsStay, DueBalance, Payer
  <1>4. pc'[t] \in Late \ {"balance"} => Balance(t)' = Balance(t)
    BY DEF Balance, Counting, Writing
  <1>5. pc'[t] \in Late \ {"balance"} => Has(t, Payer(t))' /\ pending'[t][Payer(t)] = Balance(t)'
    BY <1>1, <1>4, <1>2 DEF AccountOK, Has
  <1> QED BY <1>1, <1>2, <1>3, <1>5 DEF AccountOK, Has, Paid

LEMMA FailAccount ==
    ASSUME IInv, IInv', AloneInv, Watch, NEW t \in Tx, NEW outcome \in Done,
           Fail(t, outcome), UNCHANGED <<old, due>>
    PROVE  AloneInv'
  <1>1. committed' = committed /\ \A u \in Tx : u # t => pending'[u] = pending[u]
    BY RollbackSeen DEF Fail, IInv, TypeOK
  <1>2. pc'[t] = outcome /\ \A u \in Tx : u # t => pc'[u] = pc[u]
    BY DEF Fail, Goto, IInv, TypeOK, RequestTypeOK
  <1>3. KeepsWork(t)
    BY <1>1, <1>2 DEF KeepsWork, Fail, locals
  <1>4. AccountOK(t)'
    BY <1>2 DEF AccountOK, Counting, Writing, Late, Done
  <1> QED BY <1>1, <1>3, <1>4, NothingCommitted, AccountStep DEF IInv

LEMMA ReadForRecordAccount ==
    ASSUME IInv, IInv', AloneInv, Watch, NEW t \in Tx, ReadForRecord(t)
    PROVE  AloneInv'
  <1>1. /\ pc[t] = "idle" /\ pc'[t] = "insert" /\ source[t] \in Source
        /\ \A u \in Tx : source[u] = source[t] => pc[u] = "idle"
        /\ committed' = committed /\ pending' = pending /\ old' = old /\ source' = source
        /\ due'[t] = Sees(t, Payer(t))
        /\ \A u \in Tx : u # t => pc'[u] = pc[u] /\ amount'[u] = amount[u] /\ due'[u] = due[u]
    BY DEF ReadForRecord, Goto, IInv, TypeOK, RequestTypeOK, dbVars
  <1>2. DOMAIN pending[t] = {}
    BY <1>1 DEF IInv, TxOK, RowsOK, Writing, Late
  <1>3. Paid(source[t]) = NoPayment
    BY <1>1 DEF IInv, RecordedOK
  <1>4. KeepsWork(t)
    BY <1>1 DEF KeepsWork
  <1>5. ASSUME ~overlapped PROVE AccountOK(t)'
    <2>1. old[t] = NoPayment
      BY <1>1, <1>5 DEF AloneInv, AccountOK
    <2> QED BY <1>1, <1>2, <1>3, <2>1
            DEF AccountOK, Payer, Sees, Paid, Counting, Writing, Late
  <1> QED BY <1>1, <1>4, <1>5, NothingCommitted, AccountStep DEF IInv

LEMMA ReadForChangeAccount ==
    ASSUME IInv, IInv', AloneInv, Watch, NEW t \in Tx, ReadForChange(t)
    PROVE  AloneInv'
  <1>1. /\ pc[t] = "idle" /\ pc'[t] = "customer"
        /\ committed' = committed /\ pending' = pending /\ due' = due /\ source' = source
        /\ old'[t] = SeenPayment(t)
        /\ \A u \in Tx : u # t => pc'[u] = pc[u] /\ amount'[u] = amount[u] /\ old'[u] = old[u]
    BY DEF ReadForChange, Goto, IInv, TypeOK, RequestTypeOK, dbVars
  <1>2. DOMAIN pending[t] = {}
    BY <1>1 DEF IInv, TxOK, RowsOK, Writing, Late
  <1>3. KeepsWork(t)
    BY <1>1 DEF KeepsWork
  <1>4. AccountOK(t)'
    BY <1>1, <1>2 DEF AccountOK, SeenPayment, Sees, Paid, Counting, Writing, Late
  <1> QED BY <1>1, <1>3, <1>4, NothingCommitted, AccountStep DEF IInv

LEMMA ReadCustomerAccount ==
    ASSUME IInv, IInv', AloneInv, Watch, NEW t \in Tx, ReadCustomer(t)
    PROVE  AloneInv'
  <1>1. /\ pc[t] = "customer" /\ pc'[t] = "void"
        /\ committed' = committed /\ pending' = pending /\ old' = old /\ source' = source
        /\ amount' = amount /\ due'[t] = Sees(t, Payer(t))
        /\ \A u \in Tx : u # t => pc'[u] = pc[u] /\ due'[u] = due[u]
    BY DEF ReadCustomer, Goto, IInv, TypeOK, RequestTypeOK, dbVars, locals
  <1>2. DOMAIN pending[t] = {}
    BY <1>1 DEF IInv, TxOK, RowsOK, Writing, Late
  <1>3. KeepsWork(t)
    BY <1>1 DEF KeepsWork
  <1>4. ASSUME ~overlapped PROVE AccountOK(t)'
    <2>1. AccountOK(t)
      BY <1>4 DEF AloneInv
    <2> QED BY <1>1, <1>2, <2>1 DEF AccountOK, Payer, Sees, Paid, Counting, Writing, Late
  <1> QED BY <1>1, <1>3, <1>4, NothingCommitted, AccountStep DEF IInv

\* A statement that writes one row: what it does to the accounts of t.
LEMMA WriteAccount ==
    ASSUME IInv, NEW t \in Tx, NEW r \in Row, NEW v, WriteRow(t, r, v), NEW statement,
           Goto(t, statement), UNCHANGED <<locals, old, due>>
    PROVE  /\ AccountsStay /\ KeepsWork(t) /\ pc'[t] = statement /\ amount' = amount
           /\ pending'[t][r] = v /\ Has(t, r)' /\ committed' = committed
           /\ r # Payer(t) /\ Has(t, Payer(t)) =>
                 Has(t, Payer(t))' /\ pending'[t][Payer(t)] = pending[t][Payer(t)]
  <1>1. /\ committed' = committed
        /\ DOMAIN pending'[t] = DOMAIN pending[t] \cup {r}
        /\ pending'[t][r] = v
        /\ \A q \in DOMAIN pending[t] : q # r => pending'[t][q] = pending[t][q]
        /\ \A u \in Tx : u # t => pending'[u] = pending[u]
    BY WriteRowSeen DEF IInv, TypeOK
  <1>2. pc'[t] = statement /\ \A u \in Tx : u # t => pc'[u] = pc[u]
    BY DEF Goto, IInv, TypeOK, RequestTypeOK
  <1>3. KeepsWork(t) /\ amount' = amount
    BY <1>1, <1>2 DEF KeepsWork, locals
  <1>4. Payer(t)' = Payer(t)
    BY DEF Payer, locals
  <1> QED BY <1>1, <1>2, <1>3, <1>4, NothingCommitted DEF Has

LEMMA WriteManyAccount ==
    ASSUME IInv, NEW t \in Tx, NEW values, DOMAIN values \subseteq Row, WriteRows(t, values),
           NEW statement, Goto(t, statement), UNCHANGED <<locals, old, due>>
    PROVE  /\ AccountsStay /\ KeepsWork(t) /\ pc'[t] = statement /\ amount' = amount
           /\ Payer(t) \notin DOMAIN values /\ Has(t, Payer(t)) =>
                 Has(t, Payer(t))' /\ pending'[t][Payer(t)] = pending[t][Payer(t)]
  <1>1. /\ committed' = committed
        /\ DOMAIN pending'[t] = DOMAIN pending[t] \cup DOMAIN values
        /\ \A q \in DOMAIN pending[t] : q \notin DOMAIN values => pending'[t][q] = pending[t][q]
        /\ \A u \in Tx : u # t => pending'[u] = pending[u]
    BY WriteRowsSeen DEF IInv, TypeOK
  <1>2. pc'[t] = statement /\ \A u \in Tx : u # t => pc'[u] = pc[u]
    BY DEF Goto, IInv, TypeOK, RequestTypeOK
  <1>3. KeepsWork(t) /\ amount' = amount
    BY <1>1, <1>2 DEF KeepsWork, locals
  <1>4. Payer(t)' = Payer(t)
    BY DEF Payer, locals
  <1> QED BY <1>1, <1>2, <1>3, <1>4, NothingCommitted DEF Has

LEMMA InsertPaymentAccount ==
    ASSUME IInv, IInv', AloneInv, Watch, NEW t \in Tx, InsertPayment(t) \/ ChangePayment(t)
    PROVE  AloneInv'
  <1> PICK P : P = Payment(source[t])
    OBVIOUS
  <1>1. /\ WriteRow(t, P, amount[t]) /\ Goto(t, "balance") /\ UNCHANGED <<locals, old, due>>
        /\ pc[t] \in {"insert", "voided"} /\ P \in Row
    BY RowsDiffer DEF InsertPayment, ChangePayment, IInv, TypeOK, RequestTypeOK
  <1>2. AccountsStay /\ KeepsWork(t) /\ pc'[t] = "balance" /\ amount' = amount
    BY <1>1, WriteAccount
  <1> QED BY <1>1, <1>2, QuietAccount DEF IInv, Counting, Writing, Late

LEMMA WriteBalanceAccount ==
    ASSUME IInv, IInv', AloneInv, Watch, NEW t \in Tx, WriteBalance(t)
    PROVE  AloneInv'
  <1> PICK C : C = Payer(t)
    OBVIOUS
  <1> PICK statement : statement = IF amount[t] = NoPayment THEN "commit" ELSE "post"
    OBVIOUS
  <1>1. /\ WriteRow(t, C, Balance(t)) /\ Goto(t, statement)
        /\ UNCHANGED <<locals, old, due>> /\ pc[t] = "balance"
    BY DEF WriteBalance
  <1>2. C \in Row /\ source[t] \in Source
    BY RowsDiffer DEF IInv, TypeOK, RequestTypeOK, Payer
  <1>3. /\ AccountsStay /\ KeepsWork(t) /\ pc'[t] = statement /\ amount' = amount
        /\ pending'[t][C] = Balance(t) /\ Has(t, C)' /\ committed' = committed
    BY <1>1, <1>2, WriteAccount
  <1>4. ASSUME ~overlapped PROVE AccountOK(t)'
    <2>1. AccountOK(t)
      BY <1>4 DEF AloneInv
    <2>2. old' = old /\ due' = due /\ source' = source /\ Payer(t)' = C /\ Balance(t)' = Balance(t)
      BY <1>1, <1>3 DEF locals, Payer, Balance
    <2>3. Has(t, Payer(t))' /\ pending'[t][Payer(t)'] = Balance(t)'
      BY <1>3, <2>2 DEF Has
    <2>4. due[t] = committed[C] /\ old[t] = Paid(source[t])
      BY <1>1, <2>1 DEF AccountOK, Counting, Writing, Late
    <2>5. due'[t] = committed'[Payer(t)'] /\ old'[t] = Paid(source[t])'
      BY <1>3, <2>2, <2>4 DEF Paid
    <2>6. pc'[t] # "idle"
      BY <1>3
    <2> QED BY <2>3, <2>5, <2>6 DEF AccountOK
  <1> QED BY <1>3, <1>4, AccountStep DEF IInv

\* The statements of a posting, and the retry, touch events and vouchers only.
LEMMA PostingAccount ==
    ASSUME IInv, IInv', AloneInv, Watch, NEW t \in Tx, PostingStep(t), UNCHANGED <<old, due>>
    PROVE  AloneInv'
  <1>1. /\ source[t] \in Source /\ Event(source[t]) \in Row /\ Sequence \in Row
        /\ Event(source[t]) # Payer(t) /\ Sequence # Payer(t)
        /\ \A n \in VoucherNumber : Number(n) \in Row /\ Number(n) # Payer(t)
    BY RowsDiffer DEF IInv, TypeOK, RequestTypeOK, Payer
  <1>2. CASE NumberTaken(t) \/ DeletedMeanwhile(t)
    BY <1>2, FailAccount DEF NumberTaken, DeletedMeanwhile, Done
  <1>3. ASSUME UNCHANGED <<dbVars, source, amount>>, NEW statement, Goto(t, statement),
               statement \notin {"idle", "customer"},
               statement \in Counting => pc[t] \in Counting,
               statement \in Late \ {"balance"} => pc[t] \in Late \ {"balance"}
        PROVE  AloneInv'
    <2>1. pc'[t] = statement /\ \A u \in Tx : u # t => pc'[u] = pc[u]
      BY <1>3 DEF Goto, IInv, TypeOK, RequestTypeOK
    <2>2. committed' = committed /\ pending' = pending
      BY <1>3 DEF dbVars
    <2>3. KeepsWork(t)
      BY <1>3, <2>1, <2>2 DEF KeepsWork
    <2>4. Payer(t)' = Payer(t) /\ Has(t, Payer(t))' = Has(t, Payer(t))
      BY <1>3, <2>2 DEF Payer, Has
    <2> QED BY <1>3, <2>1, <2>2, <2>3, <2>4, NothingCommitted, QuietAccount DEF IInv
  <1>4. ASSUME NEW r \in Row, r # Payer(t), NEW v, WriteRow(t, r, v), NEW statement,
               Goto(t, statement), UNCHANGED locals,
               pc[t] \in Late \ {"balance"}, statement \in Late \ {"balance"}
        PROVE  AloneInv'
    <2>1. /\ AccountsStay /\ KeepsWork(t) /\ pc'[t] = statement /\ amount' = amount
          /\ Has(t, Payer(t)) => Has(t, Payer(t))' /\ pending'[t][Payer(t)] = pending[t][Payer(t)]
      BY <1>4, WriteAccount
    <2> QED BY <1>4, <2>1, QuietAccount DEF IInv, Counting, Writing, Late
  <1>5. ASSUME NEW values, DOMAIN values \subseteq Row \ {Payer(t)}, WriteRows(t, values),
               NEW statement, Goto(t, statement), UNCHANGED locals,
               \/ pc[t] = "voucher" /\ statement = "commit"
               \/ pc[t] = "delete" /\ statement = "voided"
        PROVE  AloneInv'
    <2>1. /\ AccountsStay /\ KeepsWork(t) /\ pc'[t] = statement /\ amount' = amount
          /\ Has(t, Payer(t)) => Has(t, Payer(t))' /\ pending'[t][Payer(t)] = pending[t][Payer(t)]
      BY <1>5, WriteManyAccount
    <2> QED BY <1>5, <2>1, QuietAccount DEF IInv, Counting, Writing, Late
  <1>6. CASE TakeEvent(t)
    BY <1>1, <1>3, <1>4, <1>6 DEF TakeEvent, locals, Counting, Writing, Late
  <1>7. CASE SkipPosting(t)
    BY <1>1, <1>4, <1>7 DEF SkipPosting, Late
  <1>8. CASE ReadNumber(t)
    BY <1>3, <1>8 DEF ReadNumber, Counting, Writing, Late
  <1>9. CASE IncrementSequence(t)
    BY <1>1, <1>4, <1>9 DEF IncrementSequence, Late
  <1>10. CASE FindPosted(t)
    BY <1>3, <1>10 DEF FindPosted, Counting, Writing, Late
  <1>11. CASE InsertVoucher(t)
    <2> PICK values : /\ WriteRows(t, values) /\ Goto(t, "commit")
                      /\ DOMAIN values = {Number(number[t]), Event(source[t])}
      BY <1>11 DEF InsertVoucher
    <2> QED BY <1>1, <1>5, <1>11 DEF InsertVoucher
  <1>12. CASE DeletePosted(t)
    <2> PICK values : /\ WriteRows(t, values) /\ Goto(t, "voided")
                      /\ DOMAIN values = EventRows(t)
      BY <1>12 DEF DeletePosted
    <2>1. found[t].voucher # NoNumber => found[t].voucher \in VoucherNumber
      BY EventShape DEF IInv, TypeOK, RequestTypeOK
    <2> QED BY <1>1, <1>5, <1>12, <2>1 DEF DeletePosted, EventRows
  <1>13. CASE UpdateForRetry(t)
    <2>1. /\ pc[t] = "retry" /\ source' = source /\ amount' = amount
          /\ Goto(t, "committed") \/ Goto(t, "failed")
      BY <1>13 DEF UpdateForRetry, locals
    <2>2. pending' = pending /\ \A r \in Row : r # Event(source[t]) => committed'[r] = committed[r]
      BY <1>1, <1>13 DEF UpdateForRetry, Autocommit, dbVars, IInv, TypeOK, DbTypeOK
    <2>3. AccountsStay
      BY <1>1, <2>2, RowsDiffer DEF AccountsStay, Paid, DueBalance
    <2>4. pc'[t] \in Done /\ \A u \in Tx : u # t => pc'[u] = pc[u]
      BY <2>1 DEF Goto, IInv, TypeOK, RequestTypeOK, Done
    <2>5. KeepsWork(t)
      BY <2>1, <2>2, <2>4 DEF KeepsWork
    <2>6. AccountOK(t)'
      BY <2>4 DEF AccountOK, Counting, Writing, Late, Done
    <2> QED BY <2>3, <2>5, <2>6, AccountStep DEF IInv
  <1> QED BY <1>2, <1>6, <1>7, <1>8, <1>9, <1>10, <1>11, <1>12, <1>13 DEF PostingStep

LEMMA ReadForRetryAccount ==
    ASSUME IInv, IInv', AloneInv, Watch, NEW t \in Tx, ReadForRetry(t), UNCHANGED <<old, due>>
    PROVE  AloneInv'
  <1>1. /\ pc'[t] = "retry" /\ committed' = committed /\ pending' = pending
        /\ source' = source /\ amount' = amount
        /\ \A u \in Tx : u # t => pc'[u] = pc[u]
    BY DEF ReadForRetry, Goto, IInv, TypeOK, RequestTypeOK, dbVars
  <1>2. KeepsWork(t)
    BY <1>1 DEF KeepsWork
  <1>3. AccountOK(t)'
    BY <1>1 DEF AccountOK, Counting, Writing, Late
  <1> QED BY <1>1, <1>2, <1>3, NothingCommitted, AccountStep DEF IInv

LEMMA CommitAccount ==
    ASSUME IInv, IInv', AloneInv, Watch, NEW t \in Tx, Commit(t)
    PROVE  AloneInv'
  <1> SUFFICES ASSUME ~overlapped'
               PROVE  /\ \A u, v \in Tx : Running(u)' /\ Running(v)' => u = v
                      /\ \A u \in Tx : AccountOK(u)'
                      /\ DueOK'
    BY DEF AloneInv
  <1> PICK s, C : s = source[t] /\ C = Payer(t)
    OBVIOUS
  <1>1. ~overlapped
    BY DEF Watch
  <1>2. /\ s \in Source /\ pc[t] = "commit" /\ CommitTx(t) /\ TxOK(t) /\ AccountOK(t)
        /\ pc'[t] = "committed" /\ UNCHANGED <<locals, old, due>>
        /\ \A u \in Tx : u # t => pc'[u] = pc[u]
    BY <1>1 DEF Commit, Goto, IInv, TypeOK, RequestTypeOK, AloneInv
  <1>3. \A r \in Row : committed'[r] = Sees(t, r)
    BY <1>2, CommitSeen DEF IInv, TypeOK
  <1>4. \A u, v \in Tx : Running(u)' /\ Running(v)' => u = v
    BY DEF Watch, Running
  <1>5. ASSUME NEW u \in Tx PROVE AccountOK(u)'
    <2>1. CASE u = t
      BY <1>2, <2>1 DEF AccountOK, Counting, Writing, Late
    <2>2. CASE u # t
      <3>1. Running(t)
        BY <1>2 DEF Running, Done
      <3>2. ~Running(u)
        BY <1>1, <2>2, <3>1 DEF AloneInv
      <3>3. AccountOK(u)
        BY <1>1 DEF AloneInv
      <3> QED BY <1>2, <2>2, <3>2, <3>3
              DEF Running, Done, AccountOK, Counting, Writing, Late
    <2> QED BY <2>1, <2>2
  <1>6. ASSUME NEW q \in Source, q # s PROVE Paid(q)' = Paid(q)
    <2>1. ~Has(t, Payment(q))
      BY <1>2, <1>6, RowsDiffer DEF TxOK, RowsOK, Has, MyPayment, MyEvent, Payer
    <2> QED BY <1>3, <2>1, RowsDiffer DEF Paid, Sees, Has
  <1>7. Paid(s)' = amount[t]
    BY <1>2, <1>3, RowsDiffer DEF TxOK, ViewOK, SeenPayment, Paid, Writing, Late
  <1>8. ASSUME NEW c \in Buyer, c # CustomerOf[s] PROVE DueBalance(c)' = DueBalance(c)
    <2>1. ~Has(t, Customer(c))
      BY <1>2, <1>8, RowsDiffer DEF TxOK, RowsOK, Has, MyPayment, MyEvent, Payer
    <2> QED BY <1>3, <2>1, RowsDiffer DEF DueBalance, Sees, Has
  <1>9. DueBalance(CustomerOf[s])' = DueBalance(CustomerOf[s]) + Paid(s) - amount[t]
    <2>1. /\ C \in Row /\ C = Customer(CustomerOf[s]) /\ Has(t, C)
          /\ pending[t][C] = due[t] + old[t] - amount[t]
          /\ due[t] = committed[C] /\ old[t] = Paid(s)
      BY <1>2, RowsDiffer DEF AccountOK, Balance, Payer, Counting, Writing, Late
    <2>2. committed'[C] = pending[t][C]
      BY <1>3, <2>1 DEF Sees, Has
    <2> QED BY <2>1, <2>2 DEF DueBalance
  <1>10. /\ Paid(s) \in Int /\ amount[t] \in Int
         /\ \A c \in Buyer : DueBalance(c) \in Int
    <2>1. TypeOK
      BY DEF IInv
    <2>2. Paid(s) \in AnyAmount /\ amount[t] \in AnyAmount
      BY <1>2, <2>1, CellsTyped DEF TypeOK, RequestTypeOK
    <2>3. AnyAmount \subseteq Int
      BY AmountAssumption DEF AnyAmount, NoPayment
    <2>4. \A c \in Buyer : DueBalance(c) \in Int
      BY <2>1, RowsDiffer, ColumnsAre DEF TypeOK, DbTypeOK, DueBalance
    <2> QED BY <2>2, <2>3, <2>4
  <1>11. DueOK'
    <2> SUFFICES ASSUME NEW c \in Buyer
                 PROVE  DueBalance(c)' = OpeningDue - PaidBy(c)'
      BY DEF DueOK
    <2>1. /\ PaidBy(c) \in Int
          /\ PaidBy(c)' = PaidBy(c) + (IF CustomerOf[s] = c THEN Paid(s)' - Paid(s) ELSE 0)
      BY <1>2, <1>6, PaidByChanges DEF IInv
    <2>2. DueBalance(c) = OpeningDue - PaidBy(c)
      BY <1>1 DEF AloneInv, DueOK
    <2>3. OpeningDue \in Int
      BY AmountAssumption
    <2>4. CASE c = CustomerOf[s]
      BY <1>7, <1>9, <1>10, <2>1, <2>2, <2>3, <2>4
    <2>5. CASE c # CustomerOf[s]
      BY <1>8, <2>1, <2>2, <2>3, <2>5
    <2> QED BY <2>4, <2>5
  <1> QED BY <1>4, <1>5, <1>11

LEMMA InitAccount == Init => AloneInv
  <1> SUFFICES ASSUME Init PROVE AloneInv
    OBVIOUS
  <1>1. \A t \in Tx : pc[t] = "idle" /\ old[t] = NoPayment
    BY DEF Init, PostingInit, NoPayment
  <1>2. \A t \in Tx : ~Running(t) /\ AccountOK(t)
    BY <1>1 DEF Running, AccountOK, Counting, Writing, Late
  <1>3. DueOK
    <2> SUFFICES ASSUME NEW c \in Buyer PROVE DueBalance(c) = OpeningDue - PaidBy(c)
      BY DEF DueOK
    <2>1. committed = [r \in Row |-> InitialRow(r)]
      BY DEF Init, DbInit
    <2>2. DueBalance(c) = OpeningDue
      <3>1. Customer(c) \in Row /\ Customer(c) \notin PostingRows
        BY RowsDiffer DEF PostingRows
      <3> QED BY <2>1, <3>1 DEF DueBalance, InitialRow
    <2>3. ASSUME NEW q \in Source PROVE committed[Payment(q)] = 0
      <3>1. /\ Payment(q) \in Row /\ Payment(q) \notin PostingRows
            /\ Payment(q) \notin {Customer(d) : d \in Buyer}
        BY RowsDiffer DEF PostingRows
      <3> QED BY <2>1, <3>1 DEF InitialRow, NoPayment
    <2>4. PaidBy(c) = 0
      <3> PICK f : f = committed
        OBVIOUS
      <3>1. IsFiniteSet(PaymentsOf(c))
        BY AmountAssumption, FS_Subset DEF PaymentsOf
      <3>2. \A q \in PaymentsOf(c) : Column(f, c)[q] = 0
        BY <2>3 DEF Column, PaymentsOf
      <3>3. Total(Column(f, c), PaymentsOf(c)) = 0
        BY <3>1, <3>2, TotalOfZeros
      <3> QED BY <3>3, PaidByIsTotal
    <2> QED BY <2>2, <2>4, AmountAssumption
  <1> QED BY <1>2, <1>3 DEF AloneInv

LEMMA UnchangedAccount ==
    ASSUME AloneInv, UNCHANGED <<dbVars, pc, source, amount, old, due>>,
           (overlapped' = overlapped) \/ Watch
    PROVE  AloneInv'
  <1> SUFFICES ASSUME ~overlapped' PROVE AloneInv'
    BY DEF AloneInv
  <1>1. ~overlapped
    BY DEF Watch
  <1>2. \A t \in Tx : Running(t)' = Running(t) /\ AccountOK(t)' = AccountOK(t)
    BY DEF Running, AccountOK, Has, Payer, Paid, Balance, dbVars
  <1>3. DueOK' = DueOK
    BY PaidByStays DEF DueOK, DueBalance, dbVars
  <1> QED BY <1>1, <1>2, <1>3 DEF AloneInv

LEMMA NextAccount ==
    ASSUME IInv, IInv', AloneInv, [Next]_vars
    PROVE  AloneInv'
  <1>1. CASE UNCHANGED vars
    BY <1>1, UnchangedAccount DEF vars, postingVars
  <1>2. CASE Watch /\ SwitchRule /\ UNCHANGED <<old, due>>
    BY <1>2, UnchangedAccount DEF SwitchRule
  <1>3. ASSUME NEW t \in Tx, PaymentGone(t) \/ Abort(t), Watch
        PROVE  AloneInv'
    BY <1>3, FailAccount DEF PaymentGone, Abort, Done
  <1> QED BY <1>1, <1>2, <1>3, ReadForRecordAccount, InsertPaymentAccount, ReadForChangeAccount,
             ReadCustomerAccount, WriteBalanceAccount, CommitAccount, PostingAccount,
             ReadForRetryAccount
          DEF Next, Serve

\* However payments are recorded, corrected, deleted, rolled back and retried
\* one after the other, each customer's due balance is the opening balance
\* less the payments on the books (customers.service.ts:540-581).
THEOREM DuesAreExplained == Spec => []DueIsExplained
  <1>1. IInv /\ IInv' /\ AloneInv /\ [Next]_vars => AloneInv'
    BY NextAccount
  <1>2. AloneInv => DueIsExplained
    BY DEF AloneInv, DueOK, DueIsExplained
  <1> QED BY <1>1, <1>2, SpecIInv, InitAccount, PTL DEF Spec
=============================================================================
