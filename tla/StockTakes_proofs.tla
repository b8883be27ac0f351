------------------------- MODULE StockTakes_proofs -------------------------
(***************************************************************************)
(* Theorems of StockTakes, for any number of requests, products and units: *)
(* the books differ from the shelves by what was lost and adjusted, and a  *)
(* session adjusts the stock by the variances of its lines.                *)
(***************************************************************************)
EXTENDS StockTakes, ReadCommitted_proofs

-----------------------------------------------------------------------------
(* Types. *)

LineValue == [expected : Int, counted : Int]
StockValue == [quantity : Int, adjusted : Int]
SessionValue == {"absent", "DRAFT", "COUNTING", "POSTED"} \cup Requested

\* The columns of each table.
Columns ==
    [r \in Row |->
        IF r = Session THEN SessionValue
        ELSE IF r = Voucher THEN Int
        ELSE IF r \in {Line(p) : p \in Product} THEN LineValue
        ELSE StockValue]

Statement == {"idle", "insert", "count", "status", "adjust", "account", "commit"}

RequestTypeOK ==
    /\ pc \in [Tx -> Statement]
    /\ todo \in [Tx -> SUBSET [product : Product, amount : Int]]
    /\ seen \in [Tx -> [status : SessionValue, line : [Product -> LineValue]]]
    /\ shelf \in [Product -> Int]
    /\ lost \in Int

TypeOK == DbTypeOK(Columns) /\ RequestTypeOK

-----------------------------------------------------------------------------
(* The inductive invariant of the books.  An adjustment that is not committed *)
(* yet keeps what the stock row owes the shelf, and so will its commit.       *)

Has(t, r) == r \in DOMAIN pending[t]
Gap(stock) == stock.quantity - stock.adjusted

StockKept ==
    \A t \in Tx, p \in Product :
        Has(t, Stock(p)) => Gap(pending[t][Stock(p)]) = Gap(committed[Stock(p)])

\* Requests that have read and not written yet, and those that are over.
Resting == \A t \in Tx : pc[t] \in {"idle", "insert", "status"} => DOMAIN pending[t] = {}

IInv ==
    /\ TypeOK
    /\ StockKept
    /\ Resting
    /\ BooksExplainShelves

-----------------------------------------------------------------------------
(* The session, as long as requests do not overlap: no stock is adjusted       *)
(* while a request is served, and the one that posts has read the lines that   *)
(* are still there.                                                            *)

Unposted == \A p \in Product : Adjusted(p) = 0

\* The adjustments t has made, and those still to make.
Adjusting(t) ==
    /\ \A p \in Product : /\ ~Has(t, Line(p))
                          /\ seen[t].line[p] = committed[Line(p)]
    /\ \A line \in todo[t] : line.amount = Variance(seen[t].line[line.product])
    /\ \A p \in Product :
          Sees(t, Stock(p)).adjusted =
              IF \E line \in todo[t] : line.product = p THEN 0 ELSE Variance(seen[t].line[p])

MarksPosted(t) ==
    /\ Has(t, Session) /\ pending[t][Session] = "POSTED"
    /\ todo[t] = {}

WorkOK(t) ==
    /\ pc[t] # "idle" => Unposted
    /\ pc[t] = "count" => \A p \in Product : ~Has(t, Stock(p))
    /\ pc[t] \in {"adjust", "account"} => Adjusting(t)
    /\ pc[t] = "account" => MarksPosted(t)
    /\ pc[t] = "commit" => \/ \A p \in Product : ~Has(t, Stock(p))
                           \/ Adjusting(t) /\ MarksPosted(t)

AsCounted ==
    \/ /\ SessionStatus = "POSTED"
       /\ \A p \in Product : Adjusted(p) = Variance(committed[Line(p)])
    \/ Unposted

AloneInv ==
    ~overlapped =>
        /\ \A t, u \in Tx : pc[t] # "idle" /\ pc[u] # "idle" => t = u
        /\ \A t \in Tx : WorkOK(t)
        /\ AsCounted

-----------------------------------------------------------------------------
(* Rows. *)

LEMMA RowsDiffer ==
    /\ Session \in Row /\ Voucher \in Row /\ Session # Voucher
    /\ \A p \in Product :
          /\ Line(p) \in Row /\ Stock(p) \in Row
          /\ \A q : /\ Line(p) # Stock(q)
                    /\ Line(p) = Line(q) => p = q
                    /\ Stock(p) = Stock(q) => p = q
    /\ \A q : /\ Line(q) # Session /\ Line(q) # Voucher
              /\ Stock(q) # Session /\ Stock(q) # Voucher
  BY RowAssumption DEF Session, Voucher, Line, Stock

LEMMA ColumnsAre ==
    /\ Columns[Session] = SessionValue /\ Columns[Voucher] = Int
    /\ \A p \in Product : Columns[Line(p)] = LineValue /\ Columns[Stock(p)] = StockValue
  <1>1. Columns[Session] = SessionValue /\ Columns[Voucher] = Int
    BY RowsDiffer DEF Columns
  <1>2. \A p \in Product : Columns[Line(p)] = LineValue
    BY RowsDiffer DEF Columns
  <1>3. \A p \in Product : Columns[Stock(p)] = StockValue
    BY RowsDiffer DEF Columns
  <1> QED BY <1>1, <1>2, <1>3

LEMMA CellsTyped ==
    ASSUME TypeOK
    PROVE  /\ committed[Session] \in SessionValue
           /\ \A p \in Product : /\ committed[Line(p)] \in LineValue
                                 /\ committed[Stock(p)] \in StockValue
           /\ \A t \in Tx : /\ Sees(t, Session) \in SessionValue
                            /\ Sees(t, Voucher) \in Int
                            /\ \A p \in Product : /\ Sees(t, Line(p)) \in LineValue
                                                  /\ Sees(t, Stock(p)) \in StockValue
  <1>1. DbTypeOK(Columns)
    BY DEF TypeOK
  <1>2. \A r \in Row : committed[r] \in Columns[r]
    BY <1>1 DEF DbTypeOK
  <1>3. \A t \in Tx, r \in Row : Sees(t, r) \in Columns[r]
    BY <1>1, SeesTyped
  <1> QED BY <1>2, <1>3, RowsDiffer, ColumnsAre

LEMMA VarianceTyped ==
    ASSUME NEW line \in LineValue
    PROVE  Variance(line) \in Int
  BY DEF LineValue, Variance

-----------------------------------------------------------------------------
(* Sums over the products. *)

LEMMA ProductsAreFinite == IsFiniteSet(Product)
  <1> DEFINE I == 1 .. Len(Order)
             read == [i \in I |-> Order[i]]
  <1>1. IsFiniteSet(I)
    BY OrderAssumption, FS_Interval
  <1>2. read \in Surjection(I, Product)
    BY DEF Surjection, Product
  <1> HIDE DEF I, read
  <1> QED BY <1>1, <1>2, FS_Surjection

GapColumn(f) == [p \in Product |-> Gap(f[Stock(p)])]
AmountColumn(f) == [p \in Product |-> Abs(Variance(f[p]))]

\* BooksExplainShelves, as a sum over the rows of the table, at any time.
LEMMA BooksAreTotals ==
    ASSUME NEW f, NEW h
    PROVE  /\ committed = f /\ shelf = h =>
                 (BooksExplainShelves <=> Total(GapColumn(f), Product) = Total(h, Product) + lost)
           /\ committed' = f /\ shelf' = h =>
                 (BooksExplainShelves' <=> Total(GapColumn(f), Product) = Total(h, Product) + lost')
  <1> DEFINE g == GapColumn(f)
             GapAdds(k) == k = [s \in SUBSET Product |->
                  IF s = {} THEN 0
                  ELSE (f[Stock(Chosen(s))].quantity - f[Stock(Chosen(s))].adjusted) + k[Without(s)]]
             books == (CHOOSE k : GapAdds(k))[Product]
  <1>1. \A x \in Product : g[x] = f[Stock(x)].quantity - f[Stock(x)].adjusted
    BY DEF GapColumn, Gap
  <1>2. committed = f /\ shelf = h =>
           (BooksExplainShelves <=> books = Total(h, Product) + lost)
    BY DEF BooksExplainShelves, OnHand, Adjusted, MapThenSumSet, MapThenFoldSet, Total, Chosen, Without
  <1>3. committed' = f /\ shelf' = h =>
           (BooksExplainShelves' <=> books = Total(h, Product) + lost')
    BY DEF BooksExplainShelves, OnHand, Adjusted, MapThenSumSet, MapThenFoldSet, Total, Chosen, Without
  <1> HIDE DEF g
  <1>4. PICK k0 : Adds(k0, g, Product)
    BY ProductsAreFinite, AddsExists
  <1>5. \A k : Adds(k, g, Product) => k[Product] = k0[Product]
    BY ProductsAreFinite, <1>4, AddsAgree
  <1>6. ASSUME NEW s \in SUBSET Product, s # {}
        PROVE  g[Chosen(s)] = f[Stock(Chosen(s))].quantity - f[Stock(Chosen(s))].adjusted
    BY <1>1, <1>6, ChosenIsIn
  <1>7. \A k : GapAdds(k) <=> Adds(k, g, Product)
    BY <1>6 DEF Adds
  <1> HIDE DEF GapAdds
  <1>8. books = k0[Product]
    BY <1>4, <1>5, <1>7
  <1> QED BY <1>2, <1>3, <1>4, <1>8, ProductsAreFinite, TotalUnfolds DEF g

LEMMA GapsTyped ==
    ASSUME NEW f, \A p \in Product : f[Stock(p)] \in StockValue
    PROVE  GapColumn(f) \in [Product -> Int]
  BY DEF GapColumn, Gap, StockValue

LEMMA AmountIsTyped ==
    ASSUME NEW session, session.line \in [Product -> LineValue]
    PROVE  AdjustmentAmount(session) \in Int
  <1> PICK f : f = session.line
    OBVIOUS
  <1> DEFINE g == AmountColumn(f)
             AmountAdds(k) == k = [s \in SUBSET Product |->
                  IF s = {} THEN 0 ELSE Abs(Variance(f[Chosen(s)])) + k[Without(s)]]
  <1>1. \A x \in Product : g[x] = Abs(Variance(f[x]))
    BY DEF AmountColumn
  <1>2. g \in [Product -> Int]
    <2>1. \A n \in Int : Abs(n) \in Int
      BY DEF Abs
    <2> QED BY <2>1, VarianceTyped DEF AmountColumn
  <1>3. AdjustmentAmount(session) = (CHOOSE k : AmountAdds(k))[Product]
    BY DEF AdjustmentAmount, MapThenSumSet, MapThenFoldSet, Chosen, Without
  <1> HIDE DEF g
  <1>4. PICK h : Adds(h, g, Product)
    BY ProductsAreFinite, AddsExists
  <1>5. \A k : Adds(k, g, Product) => k[Product] = h[Product]
    BY ProductsAreFinite, <1>4, AddsAgree
  <1>6. ASSUME NEW s \in SUBSET Product, s # {}
        PROVE  g[Chosen(s)] = Abs(Variance(f[Chosen(s)]))
    BY <1>1, <1>6, ChosenIsIn
  <1>7. \A k : AmountAdds(k) <=> Adds(k, g, Product)
    BY <1>6 DEF Adds
  <1> HIDE DEF AmountAdds
  <1>8. (CHOOSE k : AmountAdds(k))[Product] = h[Product]
    BY <1>4, <1>5, <1>7
  <1> QED BY <1>2, <1>3, <1>4, <1>8, ProductsAreFinite, TotalUnfolds, TotalTyped

\* If one product's books and shelf change, and what is lost does by the difference.
LEMMA BooksMove ==
    ASSUME TypeOK, TypeOK', BooksExplainShelves, NEW p \in Product,
           \A q \in Product : q # p => /\ Gap(committed'[Stock(q)]) = Gap(committed[Stock(q)])
                                       /\ shelf'[q] = shelf[q],
           Gap(committed'[Stock(p)]) - Gap(committed[Stock(p)])
               = (shelf'[p] - shelf[p]) + (lost' - lost)
    PROVE  BooksExplainShelves'
  <1> PICK f, g, h, k : f = committed /\ g = committed' /\ h = shelf /\ k = shelf'
    OBVIOUS
  <1> DEFINE F == GapColumn(f)
             G == GapColumn(g)
  <1>1. \A q \in Product : f[Stock(q)] \in StockValue /\ g[Stock(q)] \in StockValue
    <2>1. \A q \in Product : committed'[Stock(q)] \in StockValue
      <3>1. \A r \in Row : committed'[r] \in Columns[r]
        BY DEF TypeOK, DbTypeOK
      <3> QED BY <3>1, RowsDiffer, ColumnsAre
    <2> QED BY <2>1, CellsTyped
  <1>2. F \in [Product -> Int] /\ G \in [Product -> Int]
    BY <1>1, GapsTyped
  <1>3. h \in [Product -> Int] /\ k \in [Product -> Int] /\ lost \in Int /\ lost' \in Int
    BY DEF TypeOK, RequestTypeOK
  <1>4. \A q \in Product : F[q] = Gap(f[Stock(q)]) /\ G[q] = Gap(g[Stock(q)])
    BY DEF GapColumn
  <1>5. Total(F, Product) = Total(h, Product) + lost
    BY BooksAreTotals
  <1>6. Total(G, Product) = Total(k, Product) + lost' => BooksExplainShelves'
    BY BooksAreTotals
  <1>7. G[p] - F[p] = (k[p] - h[p]) + (lost' - lost)
    BY <1>4
  <1>8. \A q \in Product : p # q => G[q] = F[q] /\ k[q] = h[q]
    BY <1>4
  <1> HIDE DEF F, G
  <1>9. Total(F, Product) \in Int /\ Total(G, Product) = Total(F, Product) - F[p] + G[p]
    BY <1>2, <1>8, ProductsAreFinite, TotalChanges
  <1>10. Total(h, Product) \in Int /\ Total(k, Product) = Total(h, Product) - h[p] + k[p]
    BY <1>3, <1>8, ProductsAreFinite, TotalChanges
  <1>11. F[p] \in Int /\ G[p] \in Int /\ h[p] \in Int /\ k[p] \in Int
    BY <1>2, <1>3
  <1> QED BY <1>3, <1>5, <1>6, <1>7, <1>9, <1>10, <1>11

LEMMA BooksStay ==
    ASSUME TypeOK, TypeOK', BooksExplainShelves, shelf' = shelf, lost' = lost,
           \A q \in Product : Gap(committed'[Stock(q)]) = Gap(committed[Stock(q)])
    PROVE  BooksExplainShelves'
  <1>1. CASE Product = {}
    <2> PICK f, g, h : f = committed /\ g = committed' /\ h = shelf
      OBVIOUS
    <2>1. GapColumn(f) = GapColumn(g)
      BY <1>1 DEF GapColumn
    <2>2. Total(GapColumn(f), Product) = Total(h, Product) + lost
      BY BooksAreTotals
    <2> QED BY <2>1, <2>2, BooksAreTotals
  <1>2. CASE Product # {}
    <2> PICK p \in Product : TRUE
      BY <1>2
    <2>1. shelf[p] \in Int /\ lost \in Int
      BY DEF TypeOK, RequestTypeOK
    <2>2. Gap(committed[Stock(p)]) \in Int
      BY CellsTyped DEF Gap, StockValue
    <2>3. Gap(committed'[Stock(p)]) - Gap(committed[Stock(p)]) = (shelf'[p] - shelf[p]) + (lost' - lost)
      BY <2>1, <2>2
    <2> QED BY <2>3, BooksMove
  <1> QED BY <1>1, <1>2

-----------------------------------------------------------------------------
(* A step of one request that commits nothing.                               *)

OnlyOf(t) ==
    /\ \A u \in Tx : u # t => pc'[u] = pc[u] /\ pending'[u] = pending[u]
    /\ UNCHANGED shopVars

LEMMA RequestStep ==
    ASSUME IInv, TypeOK', NEW t \in Tx, OnlyOf(t), committed' = committed,
           pc'[t] \in {"idle", "insert", "status"} => DOMAIN pending'[t] = {},
           \A p \in Product :
              Has(t, Stock(p))' => Gap(pending'[t][Stock(p)]) = Gap(committed[Stock(p)])
    PROVE  IInv'
  <1>1. StockKept'
    BY DEF IInv, StockKept, OnlyOf, Has
  <1>2. Resting'
    BY DEF IInv, Resting, OnlyOf
  <1>3. BooksExplainShelves'
    BY BooksStay DEF IInv, OnlyOf, shopVars
  <1> QED BY <1>1, <1>2, <1>3 DEF IInv

\* A request that has read, and goes on.
LEMMA ReadStep ==
    ASSUME IInv, NEW t \in Tx, NEW statement \in Statement, Goto(t, statement),
           UNCHANGED <<dbVars, shopVars>>,
           statement \in {"idle", "insert", "status"} =>
              pc[t] \in {"idle", "insert", "status"},
           todo' \in [Tx -> SUBSET [product : Product, amount : Int]],
           seen' \in [Tx -> [status : SessionValue, line : [Product -> LineValue]]]
    PROVE  IInv'
  <1>1. pc'[t] = statement /\ \A u \in Tx : u # t => pc'[u] = pc[u]
    BY DEF Goto, IInv, TypeOK, RequestTypeOK
  <1>2. committed' = committed /\ pending' = pending /\ holder' = holder
    BY DEF dbVars
  <1>3. TypeOK'
    BY <1>2 DEF IInv, TypeOK, DbTypeOK, RequestTypeOK, Goto, shopVars
  <1>4. OnlyOf(t)
    BY <1>1, <1>2 DEF OnlyOf
  <1> QED BY <1>1, <1>2, <1>3, <1>4, RequestStep DEF IInv, Resting, StockKept, Has

LEMMA ReadStockIInv ==
    ASSUME IInv, NEW t \in Tx, ReadStock(t)
    PROVE  IInv'
  <1>1. TypeOK /\ \A p \in Product : Sees(t, Stock(p)) \in StockValue
    BY CellsTyped DEF IInv
  <1> PICK lines : lines = [p \in Product |-> [expected |-> Sees(t, Stock(p)).quantity,
                                               counted |-> Uncounted]]
    OBVIOUS
  <1>2. lines \in [Product -> LineValue]
    BY <1>1 DEF StockValue, LineValue, Uncounted
  <1>3. /\ seen' = [seen EXCEPT ![t].line = lines] /\ Goto(t, "insert") /\ pc[t] = "idle"
        /\ UNCHANGED <<dbVars, todo, shopVars>>
    BY DEF ReadStock
  <1>4. seen' \in [Tx -> [status : SessionValue, line : [Product -> LineValue]]]
    BY <1>1, <1>2, <1>3 DEF TypeOK, RequestTypeOK
  <1> QED BY <1>1, <1>3, <1>4, ReadStep DEF TypeOK, RequestTypeOK, Statement

LEMMA SessionReadTyped ==
    ASSUME TypeOK, NEW t \in Tx
    PROVE  SessionRead(t) \in [status : SessionValue, line : [Product -> LineValue]]
  BY CellsTyped DEF SessionRead, Status

LEMMA ReadForCountsIInv ==
    ASSUME IInv, NEW t \in Tx, ReadForCounts(t)
    PROVE  IInv'
  <1>1. TypeOK
    BY DEF IInv
  <1>2. PICK counted \in SUBSET Product :
           todo' = [todo EXCEPT ![t] = {[product |-> p, amount |-> shelf[p]] : p \in counted}]
    BY DEF ReadForCounts
  <1>3. {[product |-> p, amount |-> shelf[p]] : p \in counted}
            \in SUBSET [product : Product, amount : Int]
    BY <1>1 DEF TypeOK, RequestTypeOK
  <1>4. todo' \in [Tx -> SUBSET [product : Product, amount : Int]]
    BY <1>1, <1>2, <1>3 DEF TypeOK, RequestTypeOK
  <1>5. seen' \in [Tx -> [status : SessionValue, line : [Product -> LineValue]]]
    BY <1>1, SessionReadTyped DEF ReadForCounts, TypeOK, RequestTypeOK
  <1> QED BY <1>4, <1>5, ReadStep DEF ReadForCounts, Statement

LEMMA AdjustmentsTyped ==
    ASSUME NEW session, session.line \in [Product -> LineValue]
    PROVE  Adjustments(session) \in SUBSET [product : Product, amount : Int]
  <1>1. \A p \in Product : Variance(session.line[p]) \in Int
    BY VarianceTyped
  <1> QED BY <1>1 DEF Adjustments

LEMMA ReadForPostIInv ==
    ASSUME IInv, NEW t \in Tx, ReadForPost(t)
    PROVE  IInv'
  <1>1. TypeOK
    BY DEF IInv
  <1> PICK session : session = SessionRead(t)
    OBVIOUS
  <1>2. session \in [status : SessionValue, line : [Product -> LineValue]]
    BY <1>1, SessionReadTyped
  <1>3. todo' \in [Tx -> SUBSET [product : Product, amount : Int]]
    BY <1>1, <1>2, AdjustmentsTyped DEF ReadForPost, TypeOK, RequestTypeOK
  <1>4. seen' \in [Tx -> [status : SessionValue, line : [Product -> LineValue]]]
    BY <1>1, <1>2 DEF ReadForPost, TypeOK, RequestTypeOK
  <1> QED BY <1>3, <1>4, ReadStep DEF ReadForPost, Statement

LEMMA ReadForStatusIInv ==
    ASSUME IInv, NEW t \in Tx, ReadForStatus(t)
    PROVE  IInv'
  BY ReadStep DEF ReadForStatus, Statement, IInv, TypeOK, RequestTypeOK

\* A request ends and forgets what it was about.
LEMMA FinishTyped ==
    ASSUME TypeOK, NEW t \in Tx, Finish(t)
    PROVE  /\ RequestTypeOK' /\ pc'[t] = "idle" /\ \A u \in Tx : u # t => pc'[u] = pc[u]
           /\ UNCHANGED shopVars
  <1>1. Unread \in [status : SessionValue, line : [Product -> LineValue]]
    BY DEF Unread, SessionValue, LineValue, Uncounted
  <1> QED BY <1>1 DEF TypeOK, RequestTypeOK, Finish, Goto, Statement, shopVars

LEMMA RollbackIInv ==
    ASSUME IInv, NEW t \in Tx, RollbackTx(t), Finish(t)
    PROVE  IInv'
  <1>1. TypeOK
    BY DEF IInv
  <1>2. /\ committed' = committed /\ DOMAIN pending'[t] = {}
        /\ \A u \in Tx : u # t => pending'[u] = pending[u]
    BY <1>1, RollbackSeen DEF TypeOK
  <1>3. DbTypeOK(Columns)'
    BY <1>1, RollbackTyped DEF TypeOK
  <1>4. /\ RequestTypeOK' /\ pc'[t] = "idle" /\ \A u \in Tx : u # t => pc'[u] = pc[u]
        /\ UNCHANGED shopVars
    BY <1>1, FinishTyped
  <1>5. OnlyOf(t)
    BY <1>2, <1>4 DEF OnlyOf
  <1> QED BY <1>2, <1>3, <1>4, <1>5, RequestStep DEF TypeOK, Has

\* A statement that writes one row: a stock row keeps its gap.
LEMMA WriteIInv ==
    ASSUME IInv, NEW t \in Tx, NEW r \in Row, NEW v \in Columns[r], WriteRow(t, r, v),
           pc' \in [Tx -> Statement], pc'[t] \notin {"idle", "insert", "status"},
           \A u \in Tx : u # t => pc'[u] = pc[u],
           todo' \in [Tx -> SUBSET [product : Product, amount : Int]],
           UNCHANGED <<seen, shopVars>>,
           \A p \in Product : r = Stock(p) => Gap(v) = Gap(Sees(t, r))
    PROVE  IInv'
  <1>1. TypeOK /\ DbTypeOK(Columns)
    BY DEF IInv, TypeOK
  <1>2. /\ committed' = committed
        /\ DOMAIN pending'[t] = DOMAIN pending[t] \cup {r}
        /\ pending'[t][r] = v
        /\ \A q \in DOMAIN pending[t] : q # r => pending'[t][q] = pending[t][q]
        /\ \A u \in Tx : u # t => pending'[u] = pending[u]
    BY <1>1, WriteRowSeen
  <1>3. TypeOK'
    <2>1. DbTypeOK(Columns)'
      BY <1>1, WriteRowTyped
    <2> QED BY <1>1, <2>1 DEF TypeOK, RequestTypeOK, shopVars
  <1>4. ASSUME NEW p \in Product, Has(t, Stock(p))'
        PROVE  Gap(pending'[t][Stock(p)]) = Gap(committed[Stock(p)])
    <2>1. Gap(Sees(t, Stock(p))) = Gap(committed[Stock(p)])
      BY DEF IInv, StockKept, Sees, Has
    <2>2. CASE r = Stock(p)
      BY <1>2, <2>1, <2>2
    <2>3. CASE r # Stock(p)
      BY <1>2, <1>4, <2>1, <2>3 DEF Has, Sees
    <2> QED BY <2>2, <2>3
  <1>5. OnlyOf(t)
    BY <1>2 DEF OnlyOf
  <1> QED BY <1>2, <1>3, <1>4, <1>5, RequestStep

LEMMA CountLineIInv ==
    ASSUME IInv, NEW t \in Tx, CountLine(t)
    PROVE  IInv'
  <1>1. TypeOK /\ RequestTypeOK
    BY DEF IInv, TypeOK
  <1>2. PICK line \in todo[t] :
           /\ WriteRow(t, Line(line.product),
                       [expected |-> seen[t].line[line.product].expected, counted |-> line.amount])
           /\ todo' = [todo EXCEPT ![t] = @ \ {line}]
    BY DEF CountLine
  <1> PICK r, v : /\ r = Line(line.product)
                  /\ v = [expected |-> seen[t].line[line.product].expected,
                          counted |-> line.amount]
    OBVIOUS
  <1>3. /\ line \in [product : Product, amount : Int] /\ seen[t].line \in [Product -> LineValue]
        /\ pc[t] = "count" /\ UNCHANGED <<pc, seen, shopVars>>
    BY <1>1 DEF RequestTypeOK, CountLine
  <1>4. line.product \in Product /\ line.amount \in Int
    BY <1>3
  <1>5. v \in LineValue
    BY <1>3, <1>4 DEF LineValue
  <1>6. r \in Row /\ v \in Columns[r] /\ \A p \in Product : r # Stock(p)
    BY <1>4, <1>5, RowsDiffer, ColumnsAre
  <1>7. todo' \in [Tx -> SUBSET [product : Product, amount : Int]]
    BY <1>1, <1>2 DEF RequestTypeOK
  <1> QED BY <1>1, <1>2, <1>3, <1>6, <1>7, WriteIInv DEF RequestTypeOK

\* A step that goes on after writing a row other than a stock row.
LEMMA WriteAndGoIInv ==
    ASSUME IInv, NEW t \in Tx, NEW r \in {Session, Voucher}, NEW v \in Columns[r],
           WriteRow(t, r, v), NEW statement \in {"account", "commit"}, Goto(t, statement),
           UNCHANGED <<todo, seen, shopVars>>
    PROVE  IInv'
  <1>1. RequestTypeOK
    BY DEF IInv, TypeOK
  <1>2. /\ pc' \in [Tx -> Statement] /\ pc'[t] = statement
        /\ \A u \in Tx : u # t => pc'[u] = pc[u]
        /\ todo' \in [Tx -> SUBSET [product : Product, amount : Int]]
    BY <1>1 DEF RequestTypeOK, Goto, Statement
  <1>3. r \in Row /\ \A p \in Product : r # Stock(p)
    BY RowsDiffer
  <1> QED BY <1>2, <1>3, WriteIInv

LEMMA StartCountingIInv ==
    ASSUME IInv, NEW t \in Tx, StartCounting(t)
    PROVE  IInv'
  <1>1. "COUNTING" \in Columns[Session]
    BY ColumnsAre DEF SessionValue
  <1>2. CASE WriteRow(t, Session, "COUNTING")
    BY <1>1, <1>2, WriteAndGoIInv DEF StartCounting
  <1>3. CASE UNCHANGED dbVars
    BY <1>3, ReadStep DEF StartCounting, Statement, IInv, TypeOK, RequestTypeOK
  <1> QED BY <1>2, <1>3 DEF StartCounting

LEMMA MarkPostedIInv ==
    ASSUME IInv, NEW t \in Tx, MarkPosted(t)
    PROVE  IInv'
  <1>1. "POSTED" \in Columns[Session]
    BY ColumnsAre DEF SessionValue
  <1> QED BY <1>1, WriteAndGoIInv DEF MarkPosted

LEMMA AccountIInv ==
    ASSUME IInv, NEW t \in Tx, Account(t)
    PROVE  IInv'
  <1>1. AdjustmentAmount(seen[t]) \in Columns[Voucher]
    BY ColumnsAre, AmountIsTyped DEF IInv, TypeOK, RequestTypeOK
  <1>2. CASE WriteRow(t, Voucher, AdjustmentAmount(seen[t]))
    BY <1>1, <1>2, WriteAndGoIInv DEF Account
  <1>3. CASE UNCHANGED dbVars
    BY <1>3, ReadStep DEF Account, Statement, IInv, TypeOK, RequestTypeOK
  <1> QED BY <1>2, <1>3 DEF Account

LEMMA AdjustLineIInv ==
    ASSUME IInv, NEW t \in Tx, AdjustLine(t)
    PROVE  IInv'
  <1>1. TypeOK /\ RequestTypeOK
    BY DEF IInv, TypeOK
  <1>2. PICK line \in todo[t] :
           /\ WriteRow(t, Stock(line.product), StockAdjusted(t, line))
           /\ todo' = [todo EXCEPT ![t] = @ \ {line}]
    BY DEF AdjustLine
  <1> PICK r, v, w : /\ r = Stock(line.product) /\ v = StockAdjusted(t, line)
                     /\ w = Sees(t, Stock(line.product))
    OBVIOUS
  <1>3. /\ line \in [product : Product, amount : Int]
        /\ pc[t] = "adjust" /\ UNCHANGED <<pc, seen, shopVars>>
    BY <1>1 DEF RequestTypeOK, AdjustLine
  <1>4. line.product \in Product /\ line.amount \in Int
    BY <1>3
  <1>5. w \in StockValue
    BY <1>1, <1>4, CellsTyped
  <1>6. v = [quantity |-> w.quantity + line.amount, adjusted |-> w.adjusted + line.amount]
    BY DEF StockAdjusted
  <1>7. v \in StockValue /\ Gap(v) = Gap(w)
    BY <1>4, <1>5, <1>6 DEF StockValue, Gap
  <1>8. r \in Row /\ v \in Columns[r] /\ \A p \in Product : r = Stock(p) => p = line.product
    BY <1>4, <1>7, RowsDiffer, ColumnsAre
  <1>9. todo' \in [Tx -> SUBSET [product : Product, amount : Int]]
    BY <1>1, <1>2 DEF RequestTypeOK
  <1> QED BY <1>1, <1>2, <1>3, <1>7, <1>8, <1>9, WriteIInv DEF RequestTypeOK

LEMMA CommitIInv ==
    ASSUME IInv, NEW t \in Tx, Commit(t)
    PROVE  IInv'
  <1>1. TypeOK /\ DbTypeOK(Columns) /\ CommitTx(t) /\ Finish(t)
    BY DEF IInv, TypeOK, Commit
  <1>2. /\ \A r \in Row : committed'[r] = Sees(t, r)
        /\ DOMAIN pending'[t] = {}
        /\ \A u \in Tx : u # t => pending'[u] = pending[u]
        /\ \A u \in Tx, r \in Row :
              u # t /\ r \in DOMAIN pending[u] => committed'[r] = committed[r]
    BY <1>1, CommitSeen
  <1>3. DbTypeOK(Columns)'
    BY <1>1, CommitTyped
  <1>4. /\ RequestTypeOK' /\ pc'[t] = "idle" /\ \A u \in Tx : u # t => pc'[u] = pc[u]
        /\ UNCHANGED shopVars
    BY <1>1, FinishTyped
  <1>5. \A p \in Product : Gap(committed'[Stock(p)]) = Gap(committed[Stock(p)])
    BY <1>2, RowsDiffer DEF IInv, StockKept, Sees, Has
  <1>6. StockKept'
    <2> SUFFICES ASSUME NEW u \in Tx, NEW p \in Product, Has(u, Stock(p))'
                 PROVE  Gap(pending'[u][Stock(p)]) = Gap(committed'[Stock(p)])
      BY DEF StockKept
    <2>1. u # t
      BY <1>2 DEF Has
    <2> QED BY <1>2, <1>5, <2>1 DEF IInv, StockKept, Has
  <1>7. Resting'
    BY <1>2, <1>4 DEF IInv, Resting
  <1>8. BooksExplainShelves'
    BY <1>1, <1>3, <1>4, <1>5, BooksStay DEF TypeOK, IInv, shopVars
  <1> QED BY <1>3, <1>4, <1>6, <1>7, <1>8 DEF IInv, TypeOK

\* A statement of its own that writes the session or its lines.
LEMMA AutocommitIInv ==
    ASSUME IInv, NEW t \in Tx, NEW values, Autocommit(values),
           DOMAIN values \subseteq Row, \A r \in DOMAIN values : values[r] \in Columns[r],
           \A p \in Product : Stock(p) \notin DOMAIN values,
           pc[t] \in {"insert", "status"}, Finish(t)
    PROVE  IInv'
  <1>1. TypeOK /\ DbTypeOK(Columns)
    BY DEF IInv, TypeOK
  <1>2. /\ pending' = pending
        /\ \A r \in Row : committed'[r] = IF r \in DOMAIN values THEN values[r] ELSE committed[r]
    BY <1>1, AutocommitSeen
  <1>3. DbTypeOK(Columns)'
    BY <1>1, AutocommitTyped
  <1>4. /\ RequestTypeOK' /\ pc'[t] = "idle" /\ \A u \in Tx : u # t => pc'[u] = pc[u]
        /\ UNCHANGED shopVars
    BY <1>1, FinishTyped
  <1>5. \A p \in Product : committed'[Stock(p)] = committed[Stock(p)]
    BY <1>2, RowsDiffer
  <1>6. StockKept'
    BY <1>2, <1>5 DEF IInv, StockKept, Has
  <1>7. Resting'
    BY <1>2, <1>4 DEF IInv, Resting
  <1>8. BooksExplainShelves'
    BY <1>1, <1>3, <1>4, <1>5, BooksStay DEF TypeOK, IInv, shopVars
  <1> QED BY <1>3, <1>4, <1>6, <1>7, <1>8 DEF IInv, TypeOK

LEMMA InsertSessionIInv ==
    ASSUME IInv, NEW t \in Tx, InsertSession(t)
    PROVE  IInv'
  <1>1. PICK status \in {"DRAFT", "COUNTING"} :
          Autocommit([r \in {Session} \cup {Line(p) : p \in Product} |->
                         IF r = Session THEN status
                         ELSE seen[t].line[CHOOSE p \in Product : r = Line(p)]])
    BY DEF InsertSession
  <1>2. PICK values : values = [r \in {Session} \cup {Line(p) : p \in Product} |->
                         IF r = Session THEN status
                         ELSE seen[t].line[CHOOSE p \in Product : r = Line(p)]]
    OBVIOUS
  <1>3. seen[t].line \in [Product -> LineValue]
    BY DEF IInv, TypeOK, RequestTypeOK
  <1>4. ASSUME NEW p \in Product PROVE values[Line(p)] \in LineValue
    <2>1. values[Line(p)] = seen[t].line[CHOOSE q \in Product : Line(p) = Line(q)]
      BY <1>2, RowsDiffer
    <2>2. (CHOOSE q \in Product : Line(p) = Line(q)) \in Product
      OBVIOUS
    <2> QED BY <1>3, <2>1, <2>2
  <1>5. values[Session] \in SessionValue
    BY <1>2 DEF SessionValue
  <1>6. DOMAIN values = {Session} \cup {Line(p) : p \in Product}
    BY <1>2
  <1>7. /\ DOMAIN values \subseteq Row /\ \A r \in DOMAIN values : values[r] \in Columns[r]
        /\ \A p \in Product : Stock(p) \notin DOMAIN values
    BY <1>4, <1>5, <1>6, RowsDiffer, ColumnsAre
  <1>8. Autocommit(values)
    BY <1>1, <1>2
  <1> QED BY <1>7, <1>8, AutocommitIInv DEF InsertSession

LEMMA UpdateStatusIInv ==
    ASSUME IInv, NEW t \in Tx, UpdateStatus(t)
    PROVE  IInv'
  <1>1. PICK status \in Requested : Autocommit([r \in {Session} |-> status])
    BY DEF UpdateStatus
  <1>2. PICK values : values = [r \in {Session} |-> status]
    OBVIOUS
  <1>3. DOMAIN values = {Session} /\ values[Session] \in SessionValue
    BY <1>2 DEF SessionValue
  <1>4. /\ DOMAIN values \subseteq Row /\ \A r \in DOMAIN values : values[r] \in Columns[r]
        /\ \A p \in Product : Stock(p) \notin DOMAIN values
    BY <1>3, RowsDiffer, ColumnsAre
  <1> QED BY <1>1, <1>2, <1>4, AutocommitIInv DEF UpdateStatus

-----------------------------------------------------------------------------
(* The shop. *)

LEMMA MoveUnitsIInv ==
    ASSUME IInv, NEW p \in Product, NEW n \in Int, MoveUnits(p, n),
           UNCHANGED <<pc, todo, seen, lost>>
    PROVE  IInv'
  <1> PICK x, y : x = committed[Stock(p)] /\ y = [x EXCEPT !.quantity = @ + n]
    OBVIOUS
  <1>1. PICK values : values = [r \in {Stock(p)} |-> y]
    OBVIOUS
  <1>2. /\ TypeOK /\ DbTypeOK(Columns) /\ RequestTypeOK /\ x \in StockValue
        /\ Stock(p) \in Row /\ Columns[Stock(p)] = StockValue
    BY CellsTyped, RowsDiffer, ColumnsAre DEF IInv, TypeOK
  <1>3. Autocommit(values) /\ shelf' = [shelf EXCEPT ![p] = @ + n]
    BY <1>1 DEF MoveUnits
  <1>4. y \in StockValue /\ Gap(y) = Gap(x) + n
    BY <1>2 DEF StockValue, Gap
  <1>5. /\ DOMAIN values = {Stock(p)} /\ values[Stock(p)] = y
        /\ DOMAIN values \subseteq Row /\ \A r \in DOMAIN values : values[r] \in Columns[r]
    BY <1>1, <1>2, <1>4
  <1>6. /\ pending' = pending
        /\ \A r \in Row : committed'[r] = IF r \in DOMAIN values THEN values[r] ELSE committed[r]
        /\ \A u \in Tx : DOMAIN pending[u] \cap DOMAIN values = {}
    BY <1>2, <1>3, <1>5, AutocommitSeen
  <1>7. DbTypeOK(Columns)'
    BY <1>2, <1>3, <1>5, AutocommitTyped
  <1>8. TypeOK'
    BY <1>2, <1>3, <1>7 DEF TypeOK, RequestTypeOK
  <1>9. /\ committed'[Stock(p)] = y
        /\ \A q \in Product : q # p => committed'[Stock(q)] = committed[Stock(q)]
    BY <1>5, <1>6, RowsDiffer
  <1>10. StockKept'
    <2> SUFFICES ASSUME NEW u \in Tx, NEW q \in Product, Has(u, Stock(q))'
                 PROVE  Gap(pending'[u][Stock(q)]) = Gap(committed'[Stock(q)])
      BY DEF StockKept
    <2>1. q # p /\ Has(u, Stock(q))
      BY <1>5, <1>6 DEF Has
    <2> QED BY <1>6, <1>9, <2>1 DEF IInv, StockKept
  <1>11. BooksExplainShelves'
    <2>1. shelf[p] \in Int /\ lost \in Int /\ Gap(x) \in Int
      BY <1>2 DEF RequestTypeOK, Gap, StockValue
    <2>2. shelf'[p] = shelf[p] + n /\ \A q \in Product : q # p => shelf'[q] = shelf[q]
      BY <1>2, <1>3 DEF RequestTypeOK
    <2>3. Gap(committed'[Stock(p)]) - Gap(committed[Stock(p)]) = (shelf'[p] - shelf[p]) + (lost' - lost)
      BY <1>4, <1>9, <2>1, <2>2
    <2> QED BY <1>2, <1>8, <1>9, <2>2, <2>3, BooksMove DEF IInv
  <1> QED BY <1>6, <1>8, <1>10, <1>11 DEF IInv, Resting

LEMMA LoseIInv ==
    ASSUME IInv, NEW p \in Product, Lose(p)
    PROVE  IInv'
  <1>1. /\ TypeOK /\ shelf' = [shelf EXCEPT ![p] = @ - 1] /\ lost' = lost + 1
        /\ UNCHANGED <<committed, pending, holder, pc, todo, seen>>
    BY DEF Lose, requestVars, dbVars, IInv
  <1>2. TypeOK'
    BY <1>1 DEF TypeOK, RequestTypeOK, DbTypeOK
  <1>3. /\ shelf[p] \in Int /\ lost \in Int /\ Gap(committed[Stock(p)]) \in Int
        /\ shelf'[p] = shelf[p] - 1 /\ \A q \in Product : q # p => shelf'[q] = shelf[q]
    BY <1>1, CellsTyped DEF TypeOK, RequestTypeOK, Gap, StockValue
  <1>4. Gap(committed'[Stock(p)]) - Gap(committed[Stock(p)]) = (shelf'[p] - shelf[p]) + (lost' - lost)
    BY <1>1, <1>3
  <1>5. BooksExplainShelves'
    BY <1>1, <1>2, <1>3, <1>4, BooksMove DEF IInv
  <1> QED BY <1>1, <1>2, <1>5 DEF IInv, StockKept, Resting, Has

LEMMA InitialRows ==
    ASSUME Init
    PROVE  /\ committed[Session] = "absent" /\ committed[Voucher] = 0
           /\ \A p \in Product :
                 /\ committed[Line(p)] = [expected |-> 0, counted |-> Uncounted]
                 /\ committed[Stock(p)] = [quantity |-> Opening[p], adjusted |-> 0]
           /\ \A t \in Tx : pc[t] = "idle" /\ DOMAIN pending[t] = {}
  <1>1. \A r \in Row : committed[r] = InitialRow(r)
    BY DEF Init, DbInit
  <1>2. InitialRow(Session) = "absent"
    BY RowsDiffer DEF InitialRow
  <1>3. InitialRow(Voucher) = 0
    BY RowsDiffer DEF InitialRow
  <1>4. ASSUME NEW p \in Product
        PROVE  InitialRow(Line(p)) = [expected |-> 0, counted |-> Uncounted]
    BY RowsDiffer DEF InitialRow
  <1>5. ASSUME NEW p \in Product
        PROVE  InitialRow(Stock(p)) = [quantity |-> Opening[p], adjusted |-> 0]
    <2>1. (CHOOSE q \in Product : Stock(p) = Stock(q)) = p
      BY RowsDiffer
    <2>2. InitialRow(Stock(p)) =
             [quantity |-> Opening[CHOOSE q \in Product : Stock(p) = Stock(q)], adjusted |-> 0]
      BY RowsDiffer DEF InitialRow
    <2> QED BY <2>1, <2>2
  <1>6. \A t \in Tx : pc[t] = "idle" /\ DOMAIN pending[t] = {}
    BY DEF Init, DbInit, NoWrites
  <1> QED BY <1>1, <1>2, <1>3, <1>4, <1>5, <1>6, RowsDiffer

LEMMA InitIInv == Init => IInv
  <1> SUFFICES ASSUME Init PROVE IInv
    OBVIOUS
  <1>1. \A r \in Row : committed[r] \in Columns[r]
    <2>1. committed[Session] \in SessionValue /\ committed[Voucher] \in Int
      BY InitialRows DEF SessionValue
    <2>2. \A p \in Product : committed[Line(p)] \in LineValue /\ committed[Stock(p)] \in StockValue
      <3>1. [expected |-> 0, counted |-> Uncounted] \in LineValue
        BY DEF LineValue, Uncounted
      <3>2. \A p \in Product : [quantity |-> Opening[p], adjusted |-> 0] \in StockValue
        BY OpeningAssumption DEF StockValue
      <3> QED BY <3>1, <3>2, InitialRows
    <2> QED BY <2>1, <2>2, ColumnsAre, RowAssumption
  <1>2. DbTypeOK(Columns)
    <2> PICK initial : initial = [r \in Row |-> InitialRow(r)]
      OBVIOUS
    <2>1. DbInit(initial) /\ committed = initial
      BY DEF Init, DbInit
    <2> QED BY <1>1, <2>1, DbInitTyped
  <1>3. RequestTypeOK
    <2>1. Unread \in [status : SessionValue, line : [Product -> LineValue]]
      BY DEF Unread, SessionValue, LineValue, Uncounted
    <2> QED BY <2>1, OpeningAssumption DEF Init, RequestTypeOK, Statement
  <1>4. StockKept /\ Resting
    BY InitialRows DEF StockKept, Resting, Has
  <1>5. BooksExplainShelves
    <2> PICK f, h : f = committed /\ h = shelf
      OBVIOUS
    <2>1. h \in [Product -> Int] /\ lost = 0 /\ \A p \in Product : h[p] = Opening[p]
      BY OpeningAssumption DEF Init
    <2>2. \A p \in Product : GapColumn(f)[p] = h[p]
      <3>1. \A p \in Product : Opening[p] \in Nat
        BY OpeningAssumption
      <3>2. \A p \in Product : f[Stock(p)] = [quantity |-> Opening[p], adjusted |-> 0]
        BY InitialRows
      <3>3. ASSUME NEW p \in Product PROVE Gap(f[Stock(p)]) = Opening[p]
        <4> PICK n \in Nat : n = Opening[p]
          BY <3>1
        <4> PICK stock : stock = f[Stock(p)]
          OBVIOUS
        <4>1. stock = [quantity |-> n, adjusted |-> 0]
          BY <3>2
        <4>2. Gap(stock) = n
          BY <4>1 DEF Gap
        <4> QED BY <4>2
      <3> QED BY <2>1, <3>3 DEF GapColumn
    <2>3. GapColumn(f) = h
      BY <2>1, <2>2 DEF GapColumn
    <2>4. Total(h, Product) \in Int
      BY <2>1, ProductsAreFinite, TotalTyped
    <2> QED BY <2>1, <2>3, <2>4, BooksAreTotals
  <1> QED BY <1>2, <1>3, <1>4, <1>5 DEF IInv, TypeOK

LEMMA NextIInv ==
    ASSUME IInv, [Next]_vars
    PROVE  IInv'
  <1>1. CASE UNCHANGED vars
    <2>1. UNCHANGED <<committed, pending, holder, pc, todo, seen, shelf, lost>>
      BY <1>1 DEF vars
    <2>2. TypeOK' /\ StockKept' /\ Resting'
      BY <2>1 DEF IInv, TypeOK, DbTypeOK, RequestTypeOK, StockKept, Resting, Has
    <2>3. BooksExplainShelves'
      BY <2>1, <2>2, BooksStay DEF IInv
    <2> QED BY <2>2, <2>3 DEF IInv
  <1>2. ASSUME NEW t \in Tx, Insufficient(t) \/ Abort(t)
        PROVE  IInv'
    BY <1>2, RollbackIInv DEF Insufficient, Abort
  <1>3. ASSUME NEW t \in Tx, Request(t)
        PROVE  IInv'
    BY <1>2, <1>3, ReadStockIInv, InsertSessionIInv, ReadForCountsIInv, CountLineIInv,
       StartCountingIInv, ReadForStatusIInv, UpdateStatusIInv, ReadForPostIInv, AdjustLineIInv,
       MarkPostedIInv, AccountIInv, CommitIInv DEF Request
  <1>4. ASSUME NEW p \in Product, Sell(p) \/ Deliver(p)
        PROVE  IInv'
    BY <1>4, MoveUnitsIInv DEF Sell, Deliver
  <1> QED BY <1>1, <1>3, <1>4, LoseIInv DEF Next, Live

THEOREM SpecIInv == Spec => []IInv
  <1>1. IInv /\ [Next]_vars => IInv'
    BY NextIInv
  <1> QED BY <1>1, InitIInv, PTL DEF Spec

\* Whatever sales, deliveries and posts race on a stock row, the books differ
\* from the shelves by the units lost and by the adjustments made (the deltas
\* of stock-takes.service.ts:163-177).
THEOREM BooksAreExplained == Spec => []BooksExplainShelves
  <1>1. IInv => BooksExplainShelves
    BY DEF IInv
  <1> QED BY <1>1, SpecIInv, PTL

-----------------------------------------------------------------------------
(* One request at a time. *)

LEMMA AloneStep ==
    ASSUME AloneInv, Watch, NEW t \in Tx, \A u \in Tx : u # t => pc'[u] = pc[u],
           pc[t] # "idle" \/ pc'[t] # "idle",
           ~overlapped => WorkOK(t)' /\ AsCounted'
    PROVE  AloneInv'
  <1> SUFFICES ASSUME ~overlapped'
               PROVE  /\ \A u, v \in Tx : pc'[u] # "idle" /\ pc'[v] # "idle" => u = v
                      /\ \A u \in Tx : WorkOK(u)'
                      /\ AsCounted'
    BY DEF AloneInv
  <1>1. ~overlapped
    BY DEF Watch
  <1>2. \A u, v \in Tx : pc'[u] # "idle" /\ pc'[v] # "idle" => u = v
    BY DEF Watch
  <1>3. ASSUME NEW u \in Tx, u # t PROVE WorkOK(u)'
    <2>1. pc'[u] = "idle"
      BY <1>1, <1>2, <1>3 DEF AloneInv
    <2> QED BY <2>1 DEF WorkOK
  <1> QED BY <1>1, <1>2, <1>3

LEMMA NothingCommitted ==
    ASSUME committed' = committed
    PROVE  /\ AsCounted' = AsCounted /\ Unposted' = Unposted
           /\ \A p : OnHand(p)' = OnHand(p) /\ Adjusted(p)' = Adjusted(p)
  BY DEF AsCounted, Unposted, SessionStatus, OnHand, Adjusted

\* What a request that has written nothing reads is what is committed.
LEMMA FirstRead ==
    ASSUME IInv, NEW t \in Tx, pc[t] = "idle"
    PROVE  /\ Status(t) = SessionStatus /\ \A r : ~Has(t, r) /\ Sees(t, r) = committed[r]
  <1>1. DOMAIN pending[t] = {}
    BY DEF IInv, Resting
  <1> QED BY <1>1 DEF Status, SessionStatus, Sees, Has

LEMMA ReadAlone ==
    ASSUME IInv, AloneInv, Watch, NEW t \in Tx,
           ReadStock(t) \/ ReadForCounts(t) \/ ReadForStatus(t)
    PROVE  AloneInv'
  <1>1. /\ pc[t] = "idle" /\ pc'[t] \in {"insert", "count", "status"}
        /\ \A u \in Tx : u # t => pc'[u] = pc[u]
        /\ committed' = committed /\ pending' = pending
        /\ SessionStatus # "POSTED"
    BY FirstRead DEF ReadStock, ReadForCounts, ReadForStatus, Goto, Countable, StatusMayChange,
                     IInv, TypeOK, RequestTypeOK, dbVars
  <1>2. ASSUME ~overlapped PROVE WorkOK(t)' /\ AsCounted'
    <2>1. AsCounted /\ Unposted
      BY <1>1, <1>2 DEF AloneInv, AsCounted
    <2>2. \A p : ~Has(t, Stock(p))'
      BY <1>1, FirstRead DEF Has
    <2>3. AsCounted' /\ Unposted'
      BY <1>1, <2>1, NothingCommitted
    <2> QED BY <1>1, <2>2, <2>3 DEF WorkOK
  <1> QED BY <1>1, <1>2, AloneStep

LEMMA ReadForPostAlone ==
    ASSUME IInv, AloneInv, Watch, NEW t \in Tx, ReadForPost(t)
    PROVE  AloneInv'
  <1> PICK session : session = SessionRead(t)
    OBVIOUS
  <1>1. /\ pc[t] = "idle" /\ pc'[t] = "adjust"
        /\ \A u \in Tx : u # t => pc'[u] = pc[u]
        /\ committed' = committed /\ pending' = pending
        /\ seen'[t] = session /\ todo'[t] = Adjustments(session)
        /\ session.status # "POSTED"
    BY DEF ReadForPost, Postable, Goto, IInv, TypeOK, RequestTypeOK, dbVars
  <1>2. /\ session.status = SessionStatus
        /\ \A p \in Product : session.line[p] = committed[Line(p)]
    BY <1>1, FirstRead DEF SessionRead
  <1>3. ASSUME ~overlapped PROVE WorkOK(t)' /\ AsCounted'
    <2>1. AsCounted /\ Unposted
      BY <1>1, <1>2, <1>3 DEF AloneInv, AsCounted
    <2>2. AsCounted' /\ Unposted'
      BY <1>1, <2>1, NothingCommitted
    <2>3. \A p \in Product : /\ ~Has(t, Line(p))'
                             /\ seen'[t].line[p] = committed'[Line(p)]
      BY <1>1, <1>2, FirstRead DEF Has
    <2>4. \A line \in todo'[t] : line.amount = Variance(seen'[t].line[line.product])
      BY <1>1 DEF Adjustments
    <2>5. ASSUME NEW p \in Product
          PROVE  Sees(t, Stock(p))'.adjusted =
                    IF \E line \in todo'[t] : line.product = p THEN 0
                    ELSE Variance(seen'[t].line[p])
      <3>1. Sees(t, Stock(p))' = committed[Stock(p)]
        <4>1. ~Has(t, Stock(p))
          BY <1>1, FirstRead
        <4> QED BY <1>1, <4>1 DEF Sees, Has
      <3>2. committed[Stock(p)].adjusted = 0
        BY <2>1 DEF Unposted, Adjusted
      <3>3. (~\E line \in todo'[t] : line.product = p) => Variance(session.line[p]) = 0
        <4>1. Variance(session.line[p]) # 0 =>
                [product |-> p, amount |-> Variance(session.line[p])] \in Adjustments(session)
          BY DEF Adjustments
        <4> QED BY <1>1, <4>1
      <3> QED BY <1>1, <3>1, <3>2, <3>3
    <2>6. Adjusting(t)'
      BY <2>3, <2>4, <2>5 DEF Adjusting
    <2> QED BY <1>1, <2>2, <2>6 DEF WorkOK
  <1> QED BY <1>1, <1>3, AloneStep

\* A statement of a request that counts: the stock is left alone.
LEMMA CountAlone ==
    ASSUME IInv, AloneInv, Watch, NEW t \in Tx, CountLine(t) \/ StartCounting(t)
    PROVE  AloneInv'
  <1>1. /\ pc[t] = "count" /\ pc'[t] \in {"count", "commit"}
        /\ \A u \in Tx : u # t => pc'[u] = pc[u]
    BY DEF CountLine, StartCounting, Goto, IInv, TypeOK, RequestTypeOK
  <1>2. \/ UNCHANGED dbVars
        \/ \E r, v : r \in Row /\ WriteRow(t, r, v) /\ \A p : r # Stock(p)
    <2>1. CASE CountLine(t)
      <3>1. PICK line \in todo[t] :
               WriteRow(t, Line(line.product),
                        [expected |-> seen[t].line[line.product].expected, counted |-> line.amount])
        BY <2>1 DEF CountLine
      <3>2. line.product \in Product
        BY DEF IInv, TypeOK, RequestTypeOK
      <3>3. Line(line.product) \in Row /\ \A p : Line(line.product) # Stock(p)
        BY <3>2, RowsDiffer
      <3> QED BY <3>1, <3>3
    <2>2. CASE StartCounting(t)
      BY <2>2, RowsDiffer DEF StartCounting
    <2> QED BY <2>1, <2>2
  <1>3. committed' = committed /\ \A p : Has(t, Stock(p))' => Has(t, Stock(p))
    <2>1. CASE UNCHANGED dbVars
      BY <2>1 DEF dbVars, Has
    <2>2. ASSUME NEW r \in Row, NEW v, WriteRow(t, r, v), \A p : r # Stock(p)
          PROVE  committed' = committed /\ \A p : Has(t, Stock(p))' => Has(t, Stock(p))
      <3>1. committed' = committed /\ DOMAIN pending'[t] = DOMAIN pending[t] \cup {r}
        BY <2>2, WriteRowSeen DEF IInv, TypeOK
      <3> QED BY <2>2, <3>1 DEF Has
    <2> QED BY <1>2, <2>1, <2>2
  <1>4. ASSUME ~overlapped PROVE WorkOK(t)' /\ AsCounted'
    <2>1. AsCounted /\ WorkOK(t)
      BY <1>4 DEF AloneInv
    <2>2. Unposted' /\ AsCounted'
      BY <1>1, <1>3, <2>1, NothingCommitted DEF WorkOK
    <2> QED BY <1>1, <1>3, <2>1, <2>2 DEF WorkOK
  <1> QED BY <1>1, <1>4, AloneStep

LEMMA AdjustLineAlone ==
    ASSUME IInv, AloneInv, Watch, NEW t \in Tx, AdjustLine(t)
    PROVE  AloneInv'
  <1>1. PICK line \in todo[t] :
           /\ WriteRow(t, Stock(line.product), StockAdjusted(t, line))
           /\ todo' = [todo EXCEPT ![t] = @ \ {line}]
    BY DEF AdjustLine
  <1> PICK P, v, x : P = line.product /\ v = StockAdjusted(t, line) /\ x = Sees(t, Stock(P))
    OBVIOUS
  <1>2. /\ TypeOK /\ pc[t] = "adjust" /\ pc' = pc /\ seen' = seen
        /\ line \in [product : Product, amount : Int]
        /\ \A other \in todo[t] : other \in [product : Product, amount : Int]
        /\ todo'[t] = todo[t] \ {line}
    BY <1>1 DEF AdjustLine, IInv, TypeOK, RequestTypeOK
  <1>3. P \in Product /\ line.amount \in Int /\ line = [product |-> P, amount |-> line.amount]
    BY <1>2
  <1>4. x \in StockValue /\ v.adjusted = x.adjusted + line.amount
    BY <1>2, <1>3, CellsTyped DEF StockAdjusted
  <1>5. /\ committed' = committed
        /\ DOMAIN pending'[t] = DOMAIN pending[t] \cup {Stock(P)}
        /\ Sees(t, Stock(P))' = v
        /\ \A q \in Row : q # Stock(P) => Sees(t, q)' = Sees(t, q)
    <2>1. WriteRow(t, Stock(P), v) /\ Stock(P) \in Row /\ DbTypeOK(Columns)
      BY <1>1, <1>2, <1>3, RowsDiffer DEF TypeOK
    <2> QED BY <2>1, WriteRowSeen
  <1>6. ASSUME ~overlapped PROVE WorkOK(t)' /\ AsCounted'
    <2>1. AsCounted /\ Unposted /\ Adjusting(t)
      BY <1>2, <1>6 DEF AloneInv, WorkOK
    <2>2. Unposted' /\ AsCounted'
      BY <1>5, <2>1, NothingCommitted
    <2>3. \A p \in Product : ~Has(t, Line(p))' /\ seen'[t].line[p] = committed'[Line(p)]
      BY <1>2, <1>3, <1>5, <2>1, RowsDiffer DEF Adjusting, Has
    <2>4. \A other \in todo'[t] : other.amount = Variance(seen'[t].line[other.product])
      BY <1>2, <2>1 DEF Adjusting
    <2>5. ~\E other \in todo'[t] : other.product = P
      <3> SUFFICES ASSUME NEW other \in todo'[t], other.product = P PROVE FALSE
        OBVIOUS
      <3>1. other.amount = line.amount
        BY <1>2, <2>1 DEF Adjusting
      <3>2. other = [product |-> other.product, amount |-> other.amount]
        BY <1>2
      <3>3. other = line
        BY <1>3, <3>1, <3>2
      <3> QED BY <1>2, <3>3
    <2>6. ASSUME NEW p \in Product
          PROVE  Sees(t, Stock(p))'.adjusted =
                    IF \E other \in todo'[t] : other.product = p THEN 0
                    ELSE Variance(seen'[t].line[p])
      <3>1. CASE p = P
        <4>1. x.adjusted = 0
          BY <1>3, <2>1 DEF Adjusting
        <4>2. line.amount = Variance(seen[t].line[P])
          BY <2>1 DEF Adjusting
        <4>3. v.adjusted = line.amount
          BY <1>3, <1>4, <4>1
        <4> QED BY <1>2, <1>5, <2>5, <3>1, <4>2, <4>3
      <3>2. CASE p # P
        <4>1. Sees(t, Stock(p))' = Sees(t, Stock(p))
          BY <1>3, <1>5, <3>2, RowsDiffer
        <4>2. (\E other \in todo'[t] : other.product = p) <=> \E other \in todo[t] : other.product = p
          BY <1>2, <3>2
        <4> QED BY <1>2, <2>1, <4>1, <4>2 DEF Adjusting
      <3> QED BY <3>1, <3>2
    <2>7. Adjusting(t)'
      BY <2>3, <2>4, <2>6 DEF Adjusting
    <2> QED BY <1>2, <2>2, <2>7 DEF WorkOK
  <1> QED BY <1>2, <1>6, AloneStep

\* A statement of a post that writes the session or the voucher.
LEMMA PostedAlone ==
    ASSUME IInv, AloneInv, Watch, NEW t \in Tx, MarkPosted(t) \/ Account(t)
    PROVE  AloneInv'
  <1>1. /\ pc[t] \in {"adjust", "account"} /\ pc'[t] \in {"account", "commit"}
        /\ todo' = todo /\ seen' = seen /\ \A u \in Tx : u # t => pc'[u] = pc[u]
    BY DEF MarkPosted, Account, Goto, IInv, TypeOK, RequestTypeOK
  <1>2. ASSUME ~overlapped PROVE MarksPosted(t)' /\ committed' = committed
                                 /\ \A p \in Product : /\ Has(t, Line(p))' = Has(t, Line(p))
                                                       /\ Sees(t, Stock(p))' = Sees(t, Stock(p))
    <2>1. CASE MarkPosted(t)
      <3>1. WriteRow(t, Session, "POSTED") /\ todo[t] = {} /\ DbTypeOK(Columns)
        BY <2>1 DEF MarkPosted, IInv, TypeOK
      <3>2. /\ committed' = committed
            /\ DOMAIN pending'[t] = DOMAIN pending[t] \cup {Session}
            /\ pending'[t][Session] = "POSTED"
            /\ \A q \in Row : q # Session => Sees(t, q)' = Sees(t, q)
        BY <3>1, RowsDiffer, WriteRowSeen
      <3> QED BY <1>1, <3>1, <3>2, RowsDiffer DEF MarksPosted, Has
    <2>2. CASE Account(t) /\ UNCHANGED dbVars
      <3>1. MarksPosted(t)
        BY <1>2, <2>2 DEF AloneInv, WorkOK, Account
      <3> QED BY <1>1, <2>2, <3>1 DEF MarksPosted, Has, Sees, dbVars
    <2>3. CASE Account(t) /\ WriteRow(t, Voucher, AdjustmentAmount(seen[t]))
      <3>1. MarksPosted(t)
        BY <1>2, <2>3 DEF AloneInv, WorkOK, Account
      <3>2. /\ committed' = committed
            /\ DOMAIN pending'[t] = DOMAIN pending[t] \cup {Voucher}
            /\ \A q \in DOMAIN pending[t] : q # Voucher => pending'[t][q] = pending[t][q]
            /\ \A q \in Row : q # Voucher => Sees(t, q)' = Sees(t, q)
        BY <2>3, RowsDiffer, WriteRowSeen DEF IInv, TypeOK
      <3> QED BY <1>1, <3>1, <3>2, RowsDiffer DEF MarksPosted, Has
    <2> QED BY <2>1, <2>2, <2>3 DEF Account
  <1>3. ASSUME ~overlapped PROVE WorkOK(t)' /\ AsCounted'
    <2>1. AsCounted /\ Unposted /\ Adjusting(t)
      BY <1>1, <1>3 DEF AloneInv, WorkOK
    <2>2. Unposted' /\ AsCounted'
      BY <1>2, <1>3, <2>1, NothingCommitted
    <2>3. Adjusting(t)'
      BY <1>1, <1>2, <1>3, <2>1 DEF Adjusting
    <2> QED BY <1>1, <1>2, <1>3, <2>2, <2>3 DEF WorkOK
  <1> QED BY <1>1, <1>3, AloneStep

LEMMA CommitAlone ==
    ASSUME IInv, AloneInv, Watch, NEW t \in Tx, Commit(t)
    PROVE  AloneInv'
  <1>1. /\ pc[t] = "commit" /\ pc'[t] = "idle" /\ \A u \in Tx : u # t => pc'[u] = pc[u]
        /\ CommitTx(t) /\ DbTypeOK(Columns)
    BY FinishTyped DEF Commit, IInv, TypeOK
  <1>2. \A r \in Row : committed'[r] = Sees(t, r)
    BY <1>1, CommitSeen
  <1>3. ASSUME ~overlapped PROVE AsCounted'
    <2>1. WorkOK(t) /\ Unposted
      BY <1>1, <1>3 DEF AloneInv, WorkOK
    <2>2. CASE \A p \in Product : ~Has(t, Stock(p))
      <3>1. \A p \in Product : committed'[Stock(p)] = committed[Stock(p)]
        BY <1>2, <2>2, RowsDiffer DEF Sees, Has
      <3> QED BY <2>1, <3>1 DEF AsCounted, Unposted, Adjusted
    <2>3. CASE Adjusting(t) /\ MarksPosted(t)
      <3>1. committed'[Session] = "POSTED"
        BY <1>2, <2>3, RowsDiffer DEF MarksPosted, Sees, Has
      <3>2. ASSUME NEW p \in Product
            PROVE  committed'[Stock(p)].adjusted = Variance(committed'[Line(p)])
        <4>1. committed'[Line(p)] = seen[t].line[p]
          BY <1>2, <2>3, RowsDiffer DEF Adjusting, Sees, Has
        <4>2. Sees(t, Stock(p)).adjusted = Variance(seen[t].line[p])
          BY <2>3 DEF Adjusting, MarksPosted
        <4> QED BY <1>2, <4>1, <4>2, RowsDiffer
      <3> QED BY <3>1, <3>2 DEF AsCounted, SessionStatus, Adjusted
    <2> QED BY <1>1, <2>1, <2>2, <2>3 DEF WorkOK
  <1>4. WorkOK(t)'
    BY <1>1 DEF WorkOK
  <1> QED BY <1>1, <1>3, <1>4, AloneStep

LEMMA RollbackAlone ==
    ASSUME IInv, AloneInv, Watch, NEW t \in Tx, pc[t] # "idle", RollbackTx(t), Finish(t)
    PROVE  AloneInv'
  <1>1. pc'[t] = "idle" /\ \A u \in Tx : u # t => pc'[u] = pc[u]
    BY FinishTyped DEF IInv
  <1>2. committed' = committed
    BY DEF RollbackTx
  <1>3. WorkOK(t)' /\ AsCounted' = AsCounted
    BY <1>1, <1>2, NothingCommitted DEF WorkOK
  <1> QED BY <1>1, <1>3, AloneStep DEF AloneInv

\* The session is created, or its status changed, while no stock is adjusted.
LEMMA AutocommitAlone ==
    ASSUME IInv, AloneInv, Watch, NEW t \in Tx, InsertSession(t) \/ UpdateStatus(t)
    PROVE  AloneInv'
  <1>1. /\ pc[t] \in {"insert", "status"} /\ pc'[t] = "idle"
        /\ \A u \in Tx : u # t => pc'[u] = pc[u]
    BY FinishTyped DEF InsertSession, UpdateStatus, IInv
  <1>2. PICK values : /\ Autocommit(values)
                      /\ DOMAIN values \subseteq {Session} \cup {Line(p) : p \in Product}
    BY DEF InsertSession, UpdateStatus
  <1>3. \A p \in Product : committed'[Stock(p)] = committed[Stock(p)]
    <2>1. DOMAIN values \subseteq Row /\ \A p \in Product : Stock(p) \notin DOMAIN values
      BY <1>2, RowsDiffer
    <2> QED BY <1>2, <2>1, RowsDiffer, AutocommitSeen DEF IInv, TypeOK
  <1>4. ASSUME ~overlapped PROVE WorkOK(t)' /\ AsCounted'
    <2>1. Unposted
      BY <1>1, <1>4 DEF AloneInv, WorkOK
    <2>2. Unposted'
      BY <1>3, <2>1 DEF Unposted, Adjusted
    <2> QED BY <1>1, <2>2 DEF WorkOK, AsCounted
  <1> QED BY <1>1, <1>4, AloneStep

\* The shop adjusts nothing.
LEMMA ShopAlone ==
    ASSUME IInv, AloneInv, Watch \/ UNCHANGED overlapped, UNCHANGED <<pc, todo, seen, pending>>,
           committed'[Session] = committed[Session],
           \A p \in Product : /\ committed'[Line(p)] = committed[Line(p)]
                              /\ committed'[Stock(p)].adjusted = committed[Stock(p)].adjusted
    PROVE  AloneInv'
  <1> SUFFICES ASSUME ~overlapped' PROVE AloneInv'
    BY DEF AloneInv
  <1>1. ~overlapped
    BY DEF Watch
  <1>2. AsCounted'
    BY <1>1 DEF AloneInv, AsCounted, Unposted, SessionStatus, Adjusted
  <1>3. Unposted' <=> Unposted
    BY DEF Unposted, Adjusted
  <1>4. ASSUME NEW t \in Tx PROVE WorkOK(t)'
    <2>1. WorkOK(t)
      BY <1>1 DEF AloneInv
    <2>2. \A r : Has(t, r)' = Has(t, r)
      BY DEF Has
    <2>3. MarksPosted(t)' <=> MarksPosted(t)
      BY DEF MarksPosted, Has
    <2>4. \A p \in Product : Sees(t, Stock(p))'.adjusted = Sees(t, Stock(p)).adjusted
      BY DEF Sees
    <2>5. Adjusting(t) => Adjusting(t)'
      BY <2>2, <2>4 DEF Adjusting
    <2> QED BY <1>3, <2>1, <2>2, <2>3, <2>5 DEF WorkOK
  <1> QED BY <1>1, <1>2, <1>4 DEF AloneInv

LEMMA MoveUnitsAlone ==
    ASSUME IInv, AloneInv, Watch, NEW p \in Product, NEW n, MoveUnits(p, n),
           UNCHANGED <<pc, todo, seen>>
    PROVE  AloneInv'
  <1> PICK x, y : x = committed[Stock(p)] /\ y = [x EXCEPT !.quantity = @ + n]
    OBVIOUS
  <1>1. PICK values : values = [r \in {Stock(p)} |-> y]
    OBVIOUS
  <1>2. x \in StockValue /\ Stock(p) \in Row /\ DbTypeOK(Columns)
    BY CellsTyped, RowsDiffer DEF IInv, TypeOK
  <1>3. y.adjusted = x.adjusted
    BY <1>2 DEF StockValue
  <1>4. Autocommit(values) /\ DOMAIN values = {Stock(p)} /\ values[Stock(p)] = y
    BY <1>1 DEF MoveUnits
  <1>5. /\ pending' = pending
        /\ \A r \in Row : committed'[r] = IF r = Stock(p) THEN y ELSE committed[r]
    BY <1>2, <1>4, AutocommitSeen
  <1>6. /\ committed'[Session] = committed[Session]
        /\ \A q \in Product : /\ committed'[Line(q)] = committed[Line(q)]
                              /\ committed'[Stock(q)].adjusted = committed[Stock(q)].adjusted
    BY <1>3, <1>5, RowsDiffer
  <1> QED BY <1>5, <1>6, ShopAlone

LEMMA InitAlone == Init => AloneInv
  <1> SUFFICES ASSUME Init PROVE AloneInv
    OBVIOUS
  <1>1. ASSUME NEW p \in Product PROVE Adjusted(p) = 0
    <2> PICK stock, n : stock = committed[Stock(p)] /\ n = Opening[p]
      OBVIOUS
    <2>1. stock = [quantity |-> n, adjusted |-> 0]
      BY InitialRows
    <2> QED BY <2>1 DEF Adjusted
  <1>2. Unposted
    BY <1>1 DEF Unposted
  <1> QED BY <1>2, InitialRows DEF AloneInv, WorkOK, AsCounted

LEMMA NextAlone ==
    ASSUME IInv, AloneInv, [Next]_vars
    PROVE  AloneInv'
  <1>1. CASE UNCHANGED vars
    <2>1. UNCHANGED <<committed, pending, pc, todo, seen, overlapped>>
      BY <1>1 DEF vars
    <2> QED BY <2>1, ShopAlone
  <1>2. ASSUME NEW t \in Tx, Insufficient(t) \/ Abort(t), Watch
        PROVE  AloneInv'
    BY <1>2, RollbackAlone DEF Insufficient, Abort
  <1>3. ASSUME NEW t \in Tx, Request(t), Watch
        PROVE  AloneInv'
    BY <1>2, <1>3, ReadAlone, ReadForPostAlone, CountAlone, AdjustLineAlone, PostedAlone,
       CommitAlone, AutocommitAlone DEF Request
  <1>4. ASSUME NEW p \in Product, Sell(p) \/ Deliver(p), Watch
        PROVE  AloneInv'
    BY <1>4, MoveUnitsAlone DEF Sell, Deliver
  <1>5. ASSUME NEW p \in Product, Lose(p), Watch
        PROVE  AloneInv'
    BY <1>5, ShopAlone DEF Lose, requestVars, dbVars
  <1> QED BY <1>1, <1>3, <1>4, <1>5 DEF Next, Live

\* Requests about a session that do not overlap: stock is adjusted by exactly
\* the variances of the lines of a posted session or not at all, whatever is
\* counted, asked for, sold or rolled back (stock-takes.service.ts:158-183).
THEOREM SessionIsPostedAsCounted == Spec => []PostedAsCounted
  <1>1. IInv /\ AloneInv /\ [Next]_vars => AloneInv'
    BY NextAlone
  <1>2. AloneInv => PostedAsCounted
    BY DEF AloneInv, AsCounted, Unposted, PostedAsCounted
  <1> QED BY <1>1, <1>2, SpecIInv, InitAlone, PTL DEF Spec
=============================================================================
