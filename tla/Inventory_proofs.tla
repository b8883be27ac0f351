-------------------------- MODULE Inventory_proofs --------------------------
(***************************************************************************)
(* Theorems of Inventory, for any number of requests, rows and documents:  *)
(* the type invariant, no overselling, a movement history that explains    *)
(* the stock, and that history being append-only.                          *)
(***************************************************************************)
EXTENDS Inventory, ReadCommitted_proofs

USE DEF StockRow

-----------------------------------------------------------------------------
(* One movement on one row. *)

\* The row values whose movements account for the quantity.
Books == [r \in StockRow |-> {v \in RowValue : Accounted(r, v)}]

LEMMA MovedTyped ==
    ASSUME NEW t \in Tx, NEW line \in Line, Sees(t, line.row) \in RowValue,
           Enough(t, line)
    PROVE  Moved(t, line) \in RowValue
  <1> DEFINE v == Sees(t, line.row)
             balance == v.quantity + line.delta
             entry == [delta |-> line.delta, balanceAfter |-> balance, reference |-> t]
  <1>1. balance \in Nat /\ line.delta \in Int
    BY DEF Enough, OnHand, Line, Delta, RowValue
  <1>2. entry \in Movement
    BY <1>1 DEF Movement
  <1>3. Append(v.moves, entry) \in Seq(Movement)
    BY <1>2 DEF RowValue
  <1> QED BY <1>1, <1>3 DEF Moved, OnHand, RowValue

LEMMA MovedAccounted ==
    ASSUME NEW t \in Tx, NEW line \in Line, Sees(t, line.row) \in Books[line.row],
           Enough(t, line)
    PROVE  Moved(t, line) \in Books[line.row]
  <1> DEFINE r == line.row
             v == Sees(t, r)
             n == Len(v.moves)
             w == Moved(t, line)
             balance == v.quantity + line.delta
             entry == [delta |-> line.delta, balanceAfter |-> balance, reference |-> t]
             before(x, i) == IF i = 1 THEN Opening[r] ELSE x.moves[i - 1].balanceAfter
  <1>1. r \in StockRow /\ v \in RowValue /\ Accounted(r, v) /\ line.delta \in Int
    BY DEF Books, Line, Delta
  <1>2. w \in RowValue
    BY <1>1, MovedTyped
  <1>3. w.quantity = balance /\ w.moves = Append(v.moves, entry)
    BY DEF Moved, OnHand
  <1>4. v.moves \in Seq(Movement) /\ n \in Nat
    BY <1>1 DEF RowValue
  <1>5. /\ Len(w.moves) = n + 1
        /\ \A i \in 1 .. n : w.moves[i] = v.moves[i]
        /\ w.moves[n + 1] = entry
    BY <1>3, <1>4
  <1>6. /\ \A i \in 1 .. n : v.moves[i].balanceAfter = before(v, i) + v.moves[i].delta
        /\ v.quantity = before(v, n + 1)
    BY <1>1 DEF Accounted
  <1>7. \A i \in 1 .. n + 1 : before(w, i) = before(v, i)
    BY <1>4, <1>5
  <1>8. ASSUME NEW i \in 1 .. n + 1
        PROVE  w.moves[i].balanceAfter = before(w, i) + w.moves[i].delta
    <2>1. CASE i \in 1 .. n
      BY <2>1, <1>4, <1>5, <1>6, <1>7
    <2>2. CASE i = n + 1
      BY <2>2, <1>4, <1>5, <1>6, <1>7
    <2> QED BY <2>1, <2>2, <1>4
  <1>9. w.quantity = before(w, n + 2)
    BY <1>3, <1>4, <1>5
  <1>10. Accounted(r, w)
    BY <1>4, <1>5, <1>8, <1>9 DEF Accounted
  <1> QED BY <1>1, <1>2, <1>10 DEF Books

-----------------------------------------------------------------------------
(* The inductive invariant.  What is committed is not inductive by itself:  *)
(* a commit publishes pending rows, so they must already be accounted for,  *)
(* and must continue the history they will replace.                         *)

PendingContinues ==
    \A t \in Tx : \A r \in DOMAIN pending[t] :
        Continues(pending[t][r].moves, committed[r].moves)

IInv == TypeOK /\ DbTypeOK(Books) /\ PendingContinues

LEMMA BooksTyped ==
    ASSUME DbTypeOK(Books)
    PROVE  DbTypeOK([r \in StockRow |-> RowValue])
  BY DEF DbTypeOK, Books

LEMMA LineTyped ==
    ASSUME TypeOK, NEW t \in Tx, HasLine(t)
    PROVE  CurrentLine(t) \in Line /\ CurrentLine(t).row \in Row
  <1>1. doc[t] \in Seq(Line) /\ next[t] \in 1 .. Len(doc[t])
    BY DEF TypeOK, HasLine
  <1>2. CurrentLine(t) \in Line
    BY <1>1 DEF CurrentLine
  <1> QED BY <1>2 DEF Line

LEMMA MovedContinues ==
    ASSUME NEW t \in Tx, NEW line, Sees(t, line.row) \in RowValue
    PROVE  Continues(Moved(t, line).moves, Sees(t, line.row).moves)
  <1> DEFINE v == Sees(t, line.row)
             entry == [delta |-> line.delta, balanceAfter |-> v.quantity + line.delta,
                       reference |-> t]
  <1>1. Moved(t, line).moves = Append(v.moves, entry)
    BY DEF Moved, OnHand
  <1>2. v.moves \in Seq(Movement)
    BY DEF RowValue
  <1> QED BY <1>1, <1>2 DEF Continues

LEMMA ContinuesIsTransitive ==
    ASSUME NEW a \in Seq(Movement), NEW b \in Seq(Movement), NEW c \in Seq(Movement),
           Continues(a, b), Continues(b, c)
    PROVE  Continues(a, c)
  BY DEF Continues

LEMMA ContinuesIsReflexive ==
    ASSUME NEW a \in Seq(Movement)
    PROVE  Continues(a, a)
  BY DEF Continues

\* A movement that finds enough stock keeps the books of the database.
LEMMA WriteMoved ==
    ASSUME IInv, NEW t \in Tx, NEW line \in Line, line.row \in Row, Enough(t, line),
           WriteRow(t, line.row, Moved(t, line))
    PROVE  DbTypeOK(Books)' /\ PendingContinues'
  <1> DEFINE r == line.row
             w == Moved(t, line)
  <1>1. Sees(t, r) \in Books[r] /\ Sees(t, r) \in RowValue
    BY SeesTyped DEF IInv, Books
  <1>2. w \in Books[r]
    BY <1>1, MovedAccounted
  <1>3. DbTypeOK(Books)'
    BY <1>2, WriteRowTyped DEF IInv
  <1>4. ASSUME NEW u \in Tx, NEW q \in DOMAIN pending'[u]
        PROVE  Continues(pending'[u][q].moves, committed'[q].moves)
    <2>1. pending' = [pending EXCEPT ![t] = Put(pending[t], r, w)] /\ committed' = committed
      BY DEF WriteRow
    <2>2. DOMAIN pending = Tx /\ DOMAIN committed = Row
      BY DEF IInv, DbTypeOK
    <2>3. CASE u = t /\ q = r
      <3>1. pending'[u][q] = w
        BY <2>1, <2>2, <2>3 DEF Put
      <3>2. Continues(w.moves, Sees(t, r).moves)
        BY <1>1, MovedContinues
      <3>3. Continues(Sees(t, r).moves, committed[r].moves)
        BY <1>1, ContinuesIsReflexive DEF Sees, IInv, PendingContinues, RowValue
      <3>4. /\ w.moves \in Seq(Movement)
            /\ Sees(t, r).moves \in Seq(Movement)
            /\ committed[r].moves \in Seq(Movement)
        BY <1>1, <1>2 DEF Books, RowValue, IInv, DbTypeOK
      <3> QED BY <2>1, <2>3, <3>1, <3>2, <3>3, <3>4, ContinuesIsTransitive
    <2>4. CASE ~(u = t /\ q = r)
      <3>1. q \in DOMAIN pending[u] /\ pending'[u][q] = pending[u][q]
        BY <2>1, <2>2, <2>4 DEF Put
      <3> QED BY <2>1, <3>1 DEF IInv, PendingContinues
    <2> QED BY <2>3, <2>4
  <1> QED BY <1>3, <1>4 DEF PendingContinues

LEMMA CommitContinues ==
    ASSUME IInv, NEW t \in Tx, CommitTx(t)
    PROVE  /\ PendingContinues'
           /\ \A r \in Row : Continues(committed'[r].moves, committed[r].moves)
  <1>1. ASSUME NEW r \in Row
        PROVE  Continues(committed'[r].moves, committed[r].moves)
    <2>1. committed'[r] = Sees(t, r)
      BY DEF CommitTx
    <2>2. committed[r].moves \in Seq(Movement)
      BY DEF IInv, DbTypeOK, Books, RowValue
    <2> QED BY <2>1, <2>2, ContinuesIsReflexive DEF Sees, IInv, PendingContinues
  <1>2. ASSUME NEW u \in Tx, NEW r \in DOMAIN pending'[u]
        PROVE  Continues(pending'[u][r].moves, committed'[r].moves)
    <2>1. u # t /\ pending'[u] = pending[u]
      BY DEF CommitTx, NoWrites, IInv, DbTypeOK
    <2>2. r \in Row /\ r \notin DOMAIN pending[t]
      BY <2>1 DEF IInv, DbTypeOK
    <2>3. committed'[r] = committed[r]
      BY <2>2 DEF CommitTx, Sees
    <2> QED BY <2>1, <2>3 DEF IInv, PendingContinues
  <1> QED BY <1>1, <1>2 DEF PendingContinues

LEMMA RollbackContinues ==
    ASSUME IInv, NEW t \in Tx, RollbackTx(t)
    PROVE  PendingContinues'
  <1>1. ASSUME NEW u \in Tx, NEW r \in DOMAIN pending'[u]
        PROVE  u # t /\ pending'[u] = pending[u]
    BY DEF RollbackTx, NoWrites, IInv, DbTypeOK
  <1> QED BY <1>1 DEF RollbackTx, IInv, PendingContinues

-----------------------------------------------------------------------------
RequestTypeOK ==
    /\ state \in [Tx -> {"idle", "running", "committed", "failed"}]
    /\ doc \in [Tx -> Seq(Line)]
    /\ next \in [Tx -> Nat \ {0}]

LEMMA TypeOKParts ==
    TypeOK <=> DbTypeOK([r \in StockRow |-> RowValue]) /\ RequestTypeOK
  BY DEF TypeOK, RequestTypeOK

LEMMA InitIInv == Init => IInv
  <1> SUFFICES ASSUME Init PROVE IInv
    OBVIOUS
  <1> DEFINE initial == [r \in Row |-> [quantity |-> Opening[r], moves |-> NoMoves]]
  <1>1. ASSUME NEW r \in Row
        PROVE  initial[r] \in Books[r]
    <2>1. initial[r] \in RowValue
      BY OpeningAssumption DEF RowValue, NoMoves
    <2>2. Len(initial[r].moves) = 0 /\ initial[r].quantity = Opening[r]
      BY DEF NoMoves
    <2>3. Accounted(r, initial[r])
      BY <2>2 DEF Accounted
    <2> QED BY <2>1, <2>3 DEF Books
  <1>2. DbTypeOK(Books)
    BY <1>1, DbInitTyped DEF Init
  <1>3. RequestTypeOK
    BY DEF Init, RequestTypeOK
  <1>4. PendingContinues
    BY DEF Init, DbInit, NoWrites, PendingContinues
  <1> QED BY <1>2, <1>3, <1>4, BooksTyped, TypeOKParts DEF IInv

\* A failing request: the rollback, and the request's state.
LEMMA FailIInv ==
    ASSUME IInv, NEW t \in Tx, Fail(t)
    PROVE  IInv' /\ committed' = committed
  <1>1. DbTypeOK(Books)' /\ PendingContinues' /\ committed' = committed
    BY RollbackTyped, RollbackContinues DEF Fail, IInv, RollbackTx
  <1>2. RequestTypeOK'
    BY TypeOKParts DEF Fail, IInv, RequestTypeOK
  <1>3. DbTypeOK([r \in StockRow |-> RowValue])'
    BY <1>1 DEF DbTypeOK, Books
  <1> QED BY <1>1, <1>2, <1>3 DEF IInv, TypeOK, RequestTypeOK

\* Every step keeps the invariant, and continues every row's history.
LEMMA NextIInv ==
    ASSUME IInv, [Next]_vars
    PROVE  IInv' /\ \A r \in Row : Continues(committed'[r].moves, committed[r].moves)
  <1>1. ASSUME committed' = committed
        PROVE  \A r \in Row : Continues(committed'[r].moves, committed[r].moves)
    BY <1>1, ContinuesIsReflexive DEF IInv, DbTypeOK, Books, RowValue
  <1>2. ASSUME DbTypeOK(Books)', RequestTypeOK', PendingContinues'
        PROVE  IInv'
    <2>1. DbTypeOK([r \in StockRow |-> RowValue])'
      BY <1>2 DEF DbTypeOK, Books
    <2> QED BY <1>2, <2>1 DEF IInv, TypeOK, RequestTypeOK
  <1>3. RequestTypeOK
    BY TypeOKParts DEF IInv
  <1>4. CASE UNCHANGED vars
    <2>1. DbTypeOK(Books)' /\ PendingContinues' /\ RequestTypeOK'
      BY <1>3, <1>4 DEF vars, IInv, DbTypeOK, PendingContinues, RequestTypeOK
    <2> QED BY <1>1, <1>2, <1>4, <2>1 DEF vars
  <1>5. ASSUME NEW t \in Tx, Begin(t)
        PROVE  IInv' /\ committed' = committed
    <2>1. DbTypeOK(Books)' /\ PendingContinues' /\ committed' = committed
      BY <1>5 DEF Begin, dbVars, IInv, DbTypeOK, PendingContinues
    <2>2. RequestTypeOK'
      BY <1>3, <1>5, DocumentAssumption DEF Begin, RequestTypeOK
    <2> QED BY <1>2, <2>1, <2>2
  <1>6. ASSUME NEW t \in Tx, MoveIn(t) \/ MoveOut(t)
        PROVE  IInv' /\ committed' = committed
    <2> DEFINE line == CurrentLine(t)
    <2>1. line \in Line /\ line.row \in Row
      BY <1>6, LineTyped DEF MoveIn, MoveOut, IInv
    <2>2. Enough(t, line)
      <3>1. OnHand(t, line.row) \in Nat
        BY <2>1, SeesTyped DEF IInv, OnHand, Books, RowValue
      <3>2. line.delta \in Int
        BY <2>1 DEF Line, Delta
      <3>3. CASE MoveIn(t)
        BY <3>1, <3>2, <3>3 DEF MoveIn, Enough
      <3>4. CASE MoveOut(t)
        BY <3>4 DEF MoveOut
      <3> QED BY <1>6, <3>3, <3>4
    <2>3. WriteRow(t, line.row, Moved(t, line))
      BY <1>6 DEF MoveIn, MoveOut
    <2>4. DbTypeOK(Books)' /\ PendingContinues'
      BY <2>1, <2>2, <2>3, WriteMoved
    <2>5. RequestTypeOK'
      BY <1>3, <1>6 DEF MoveIn, MoveOut, RequestTypeOK
    <2> QED BY <1>2, <2>3, <2>4, <2>5 DEF WriteRow
  <1>7. ASSUME NEW t \in Tx, Commit(t)
        PROVE  /\ IInv'
               /\ \A r \in Row : Continues(committed'[r].moves, committed[r].moves)
    <2>1. DbTypeOK(Books)'
      BY <1>7, CommitTyped DEF Commit, IInv
    <2>2. RequestTypeOK'
      BY <1>3, <1>7 DEF Commit, RequestTypeOK
    <2> QED BY <1>2, <1>7, <2>1, <2>2, CommitContinues DEF Commit
  <1>8. ASSUME NEW t \in Tx,
               RefuseZero(t) \/ Insufficient(t) \/ DeadlockVictim(t) \/ Timeout(t)
        PROVE  IInv' /\ committed' = committed
    BY <1>8, FailIInv DEF RefuseZero, Insufficient, DeadlockVictim, Timeout
  <1> QED BY <1>1, <1>4, <1>5, <1>6, <1>7, <1>8 DEF Next, Step

THEOREM SpecIInv == Spec => []IInv
  <1>1. IInv /\ [Next]_vars => IInv'
    BY NextIInv
  <1> QED BY <1>1, InitIInv, PTL DEF Spec

-----------------------------------------------------------------------------
\* Every reachable state has the column types of the schema, and a row lock is
\* held exactly by the transaction that has written the row.
THEOREM TypeCorrect == Spec => []TypeOK
  <1>1. IInv => TypeOK
    BY DEF IInv
  <1> QED BY <1>1, SpecIInv, PTL

\* However many requests run, and whatever their lines, no product in a
\* warehouse is ever oversold (the conditional decrement of
\* inventory.utils.ts:166-180).
THEOREM NoOverselling == Spec => []NeverOversold
  <1>1. IInv => NeverOversold
    <2> SUFFICES ASSUME IInv, NEW r \in Row
                 PROVE  /\ committed[r].quantity >= 0
                        /\ \A i \in 1 .. Len(committed[r].moves) :
                              committed[r].moves[i].balanceAfter >= 0
      BY DEF NeverOversold
    <2>1. committed[r] \in RowValue
      BY DEF IInv, DbTypeOK, Books
    <2>2. committed[r].quantity \in Nat /\ committed[r].moves \in Seq(Movement)
      BY <2>1 DEF RowValue
    <2>3. \A i \in 1 .. Len(committed[r].moves) : committed[r].moves[i] \in Movement
      BY <2>2
    <2> QED BY <2>2, <2>3 DEF Movement
  <1> QED BY <1>1, SpecIInv, PTL

\* Whatever the order in which requests commit, each row's movements chain from
\* the opening stock to the quantity on hand (inventory.utils.ts:141-208).
THEOREM LedgerIsComplete == Spec => []LedgerExplainsStock
  <1>1. IInv => LedgerExplainsStock
    BY DEF IInv, LedgerExplainsStock, DbTypeOK, Books
  <1> QED BY <1>1, SpecIInv, PTL

\* No step, of any request, rewrites or drops a movement on the books.
THEOREM HistoryIsKept == Spec => HistoryIsAppendOnly
  <1>1. IInv /\ [Next]_vars
          => [\A r \in StockRow : Continues(committed'[r].moves, committed[r].moves)]_vars
    BY NextIInv
  <1> QED BY <1>1, SpecIInv, PTL DEF Spec, HistoryIsAppendOnly-----------------------------------------------------------------------------

(* The ledger that StockLedger promises.  A commit publishes at once what   *)
(* the statements of a document wrote one after the other, each reading     *)
(* what the one before left: that their sum is the document's needs, while  *)
(* the document is halfway, that the transaction reads the committed        *)
(* quantity plus the lines it has applied, although others commit between.  *)

\* What the lines of a document before line n move on row r.
Column(d, r, n) == [i \in DOMAIN d |-> IF d[i].row = r /\ i < n THEN d[i].delta ELSE 0]

Applied(t, r) == Total(Column(doc[t], r, next[t]), DOMAIN doc[t])

HalfWay(t) ==
    /\ state[t] = "idle" => next[t] = 1 /\ DOMAIN pending[t] = {}
    /\ state[t] = "running" =>
          /\ doc[t] \in Document
          /\ \A r \in StockRow : OnHand(t, r) = committed[r].quantity + Applied(t, r)

RInv == IInv /\ \A t \in Tx : HalfWay(t)

LEMMA LinesAreFinite ==
    ASSUME NEW d \in Seq(Line)
    PROVE  IsFiniteSet(DOMAIN d)
  <1>1. DOMAIN d = 1 .. Len(d) /\ Len(d) \in Nat
    OBVIOUS
  <1> QED BY <1>1, FS_Interval

LEMMA ColumnTyped ==
    ASSUME NEW d \in Seq(Line), NEW r, NEW n
    PROVE  Column(d, r, n) \in [DOMAIN d -> Int]
  <1>1. ASSUME NEW i \in DOMAIN d
        PROVE  d[i].delta \in Int
    <2>1. d[i] \in Line
      OBVIOUS
    <2> QED BY <2>1 DEF Line, Delta
  <1> QED BY <1>1 DEF Column

\* What a document adds up to, as the abstract ledger says it.
LEMMA NetIsTotal ==
    ASSUME NEW d \in Seq(Line), NEW r
    PROVE  Abstract!Net(d, r) = Total(Column(d, r, Len(d) + 1), DOMAIN d)
  <1> DEFINE g == Column(d, r, Len(d) + 1)
             S == DOMAIN d
             NetAdds(k) == k = [s \in SUBSET S |-> IF s = {} THEN 0
                  ELSE (IF d[Chosen(s)].row = r THEN d[Chosen(s)].delta ELSE 0) + k[Without(s)]]
  <1>1. IsFiniteSet(S)
    BY LinesAreFinite
  <1>2. \A i \in S : g[i] = IF d[i].row = r THEN d[i].delta ELSE 0
    BY DEF Column
  <1>3. Abstract!Net(d, r) = (CHOOSE k : NetAdds(k))[S]
    BY DEF Abstract!Net, Abstract!MapThenSumSet, Abstract!MapThenFoldSet, Chosen, Without
  <1> HIDE DEF g, S
  <1>4. PICK h : Adds(h, g, S)
    BY <1>1, AddsExists
  <1>5. \A k : Adds(k, g, S) => k[S] = h[S]
    BY <1>1, <1>4, AddsAgree
  <1>6. ASSUME NEW s \in SUBSET S, s # {}
        PROVE  g[Chosen(s)] = IF d[Chosen(s)].row = r THEN d[Chosen(s)].delta ELSE 0
    BY <1>2, <1>6, ChosenIsIn
  <1>7. \A k : NetAdds(k) <=> Adds(k, g, S)
    BY <1>6 DEF Adds
  <1> HIDE DEF NetAdds
  <1>8. (CHOOSE k : NetAdds(k))[S] = h[S]
    BY <1>4, <1>5, <1>7
  <1> QED BY <1>1, <1>3, <1>4, <1>8, TotalUnfolds DEF g, S

LEMMA AppliedTyped ==
    ASSUME NEW d \in Seq(Line), NEW r, NEW n
    PROVE  Total(Column(d, r, n), DOMAIN d) \in Int
  BY LinesAreFinite, ColumnTyped, TotalTyped

LEMMA NothingApplied ==
    ASSUME NEW d \in Seq(Line), NEW r
    PROVE  Total(Column(d, r, 1), DOMAIN d) = 0
  <1>1. \A i \in DOMAIN d : Column(d, r, 1)[i] = 0
    BY DEF Column
  <1> QED BY <1>1, LinesAreFinite, TotalOfZeros

LEMMA OneMoreApplied ==
    ASSUME NEW d \in Seq(Line), NEW r, NEW n \in DOMAIN d
    PROVE  Total(Column(d, r, n + 1), DOMAIN d)
             = Total(Column(d, r, n), DOMAIN d) + (IF d[n].row = r THEN d[n].delta ELSE 0)
  <1> DEFINE f == Column(d, r, n)
             g == Column(d, r, n + 1)
             S == DOMAIN d
  <1>1. S = 1 .. Len(d) /\ Len(d) \in Nat /\ n \in Int
    OBVIOUS
  <1>2. \A x \in S : n # x => g[x] = f[x]
    BY <1>1 DEF Column
  <1>3. f[n] = 0 /\ g[n] = IF d[n].row = r THEN d[n].delta ELSE 0
    BY <1>1 DEF Column
  <1>4. f \in [S -> Int] /\ g \in [S -> Int] /\ IsFiniteSet(S)
    BY ColumnTyped, LinesAreFinite
  <1>5. Total(f, S) \in Int
    BY <1>4, TotalTyped
  <1>6. g[n] \in Int
    BY <1>4
  <1> HIDE DEF f, g, S
  <1>7. Total(g, S) = Total(f, S) - f[n] + g[n]
    BY <1>2, <1>4, TotalChanges DEF S
  <1> QED BY <1>3, <1>5, <1>6, <1>7 DEF f, g, S

\* A document whose lines are all behind has applied what it adds up to.
LEMMA AllApplied ==
    ASSUME NEW d \in Seq(Line), NEW r, NEW n \in Nat, n > Len(d)
    PROVE  Total(Column(d, r, n), DOMAIN d) = Abstract!Net(d, r)
  <1>1. Column(d, r, n) = Column(d, r, Len(d) + 1)
    <2>1. \A i \in DOMAIN d : i < n /\ i < Len(d) + 1
      OBVIOUS
    <2> QED BY <2>1 DEF Column
  <1> QED BY <1>1, NetIsTotal

LEMMA InitRInv == Init => RInv /\ Abstract!Init
  <1> SUFFICES ASSUME Init PROVE RInv /\ Abstract!Init
    OBVIOUS
  <1>1. \A t \in Tx : state[t] = "idle" /\ next[t] = 1 /\ DOMAIN pending[t] = {}
    BY DEF Init, DbInit, NoWrites
  <1>2. \A t \in Tx : HalfWay(t)
    BY <1>1 DEF HalfWay
  <1>3. [r \in StockRow |-> committed[r].quantity] = Opening
    BY OpeningAssumption DEF Init, DbInit
  <1>4. Abstract!Init
    BY <1>1, <1>3 DEF Abstract!Init
  <1> QED BY <1>2, <1>4, InitIInv DEF RInv

\* Quantities are numbers, in whatever version of the row.
LEMMA QuantitiesTyped ==
    ASSUME IInv
    PROVE  /\ \A r \in Row : committed[r].quantity \in Nat
           /\ \A t \in Tx, r \in Row : OnHand(t, r) \in Nat
  <1>1. \A r \in Row : committed[r] \in RowValue
    BY DEF IInv, DbTypeOK, Books
  <1>2. \A t \in Tx, r \in Row : Sees(t, r) \in RowValue
    BY SeesTyped DEF IInv, Books
  <1> QED BY <1>1, <1>2 DEF RowValue, OnHand

\* A step that is not u's leaves u halfway where it was, if what it does to
\* the rows moves what u reads as it moves what is committed.
LEMMA StaysHalfWay ==
    ASSUME NEW u \in Tx, HalfWay(u),
           doc'[u] = doc[u], next'[u] = next[u], state'[u] = state[u],
           DOMAIN pending'[u] = DOMAIN pending[u],
           state[u] = "running" =>
               \A r \in StockRow :
                   OnHand(u, r) = committed[r].quantity + Applied(u, r)
                     => OnHand(u, r)' = committed'[r].quantity + Applied(u, r)
    PROVE  HalfWay(u)'
  <1>1. \A r \in StockRow : Applied(u, r)' = Applied(u, r)
    BY DEF Applied
  <1> QED BY <1>1 DEF HalfWay

\* A step that writes rows of t only, or none, leaves the others alone.
LEMMA OthersStayHalfWay ==
    ASSUME NEW t \in Tx, \A u \in Tx : HalfWay(u), committed' = committed,
           \A u \in Tx : u # t => /\ pending'[u] = pending[u]
                                  /\ doc'[u] = doc[u] /\ next'[u] = next[u]
                                  /\ state'[u] = state[u]
    PROVE  \A u \in Tx : u # t => HalfWay(u)'
  <1> SUFFICES ASSUME NEW u \in Tx, u # t PROVE HalfWay(u)'
    OBVIOUS
  <1>1. \A r \in StockRow : OnHand(u, r)' = OnHand(u, r)
    BY DEF OnHand, Sees
  <1> QED BY <1>1, StaysHalfWay

-----------------------------------------------------------------------------
(* Each step keeps everybody halfway, and is a step of the ledger or none.   *)

\* A movement: what t reads of the row, and what it has applied, grow alike.
LEMMA MovedHalfWay ==
    ASSUME RInv, NEW t \in Tx, MoveIn(t) \/ MoveOut(t)
    PROVE  \A u \in Tx : HalfWay(u)'
  <1> PICK line, n : line = CurrentLine(t) /\ n = next[t]
    OBVIOUS
  <1>1. line \in Line /\ line.row \in Row /\ HasLine(t) /\ IInv
    BY LineTyped DEF MoveIn, MoveOut, RInv, IInv
  <1>2. n \in DOMAIN doc[t] /\ doc[t] \in Seq(Line) /\ line = doc[t][n] /\ state[t] = "running"
    BY <1>1 DEF HasLine, CurrentLine, IInv, TypeOK
  <1>3. /\ WriteRow(t, line.row, Moved(t, line))
        /\ next' = [next EXCEPT ![t] = @ + 1]
        /\ UNCHANGED <<state, doc>>
    BY DEF MoveIn, MoveOut
  <1>4. /\ committed' = committed
        /\ Sees(t, line.row)' = Moved(t, line)
        /\ \A q \in Row : q # line.row => Sees(t, q)' = Sees(t, q)
        /\ \A u \in Tx : u # t => pending'[u] = pending[u]
    BY <1>1, <1>3, WriteRowSeen DEF IInv
  <1>5. next'[t] = n + 1 /\ \A u \in Tx : u # t => next'[u] = next[u]
    BY <1>1, <1>3 DEF IInv, TypeOK
  <1>6. \A u \in Tx : u # t => HalfWay(u)'
    BY <1>3, <1>4, <1>5, OthersStayHalfWay DEF RInv
  <1>7. HalfWay(t)'
    <2>1. ASSUME NEW r \in StockRow
          PROVE  OnHand(t, r)' = committed'[r].quantity + Applied(t, r)'
      <3>1. Applied(t, r)' = Total(Column(doc[t], r, n + 1), DOMAIN doc[t])
        BY <1>3, <1>5 DEF Applied
      <3>2. Applied(t, r) = Total(Column(doc[t], r, n), DOMAIN doc[t]) /\ Applied(t, r) \in Int
        BY <1>2, AppliedTyped DEF Applied
      <3>3. Applied(t, r)' = Applied(t, r) + (IF line.row = r THEN line.delta ELSE 0)
        BY <1>2, <3>1, <3>2, OneMoreApplied
      <3>4. OnHand(t, r) = committed[r].quantity + Applied(t, r)
        BY <1>2 DEF RInv, HalfWay
      <3>5. OnHand(t, r)' = OnHand(t, r) + (IF line.row = r THEN line.delta ELSE 0)
        <4>1. OnHand(t, r) \in Nat
          BY <1>1, QuantitiesTyped
        <4>2. CASE r = line.row
          BY <1>4, <4>1, <4>2 DEF Moved, OnHand
        <4>3. CASE r # line.row
          <5>1. OnHand(t, r)' = OnHand(t, r)
            BY <1>4, <4>3 DEF OnHand
          <5> QED BY <4>1, <4>3, <5>1
        <4> QED BY <4>2, <4>3
      <3>6. line.delta \in Int /\ committed[r].quantity \in Int
        BY <1>1, QuantitiesTyped DEF Line, Delta
      <3> QED BY <1>4, <3>2, <3>3, <3>4, <3>5, <3>6
    <2>2. doc'[t] \in Document /\ state'[t] = "running"
      BY <1>2, <1>3 DEF RInv, HalfWay
    <2> QED BY <2>1, <2>2 DEF HalfWay
  <1> QED BY <1>6, <1>7

\* A request that begins has applied nothing, and reads what is committed.
LEMMA BegunHalfWay ==
    ASSUME RInv, NEW t \in Tx, Begin(t)
    PROVE  \A u \in Tx : HalfWay(u)'
  <1>1. PICK d \in Document : doc' = [doc EXCEPT ![t] = d]
    BY DEF Begin
  <1>2. /\ doc'[t] = d /\ \A u \in Tx : u # t => doc'[u] = doc[u]
        /\ state'[t] = "running" /\ \A u \in Tx : u # t => state'[u] = state[u]
        /\ next' = next /\ next[t] = 1
        /\ committed' = committed /\ pending' = pending
        /\ DOMAIN pending[t] = {}
    BY <1>1 DEF Begin, dbVars, RInv, IInv, TypeOK, HalfWay
  <1>3. \A u \in Tx : u # t => HalfWay(u)'
    BY <1>2, OthersStayHalfWay DEF RInv
  <1>4. ASSUME NEW r \in StockRow
        PROVE  OnHand(t, r)' = committed'[r].quantity + Applied(t, r)'
    <2>1. Applied(t, r)' = 0
      BY <1>2, DocumentAssumption, NothingApplied DEF Applied
    <2>2. OnHand(t, r)' = committed[r].quantity
      BY <1>2 DEF OnHand, Sees
    <2>3. committed[r].quantity \in Nat
      BY QuantitiesTyped DEF RInv
    <2> QED BY <1>2, <2>1, <2>2, <2>3
  <1>5. HalfWay(t)'
    BY <1>2, <1>4 DEF HalfWay
  <1> QED BY <1>3, <1>5

LEMMA FailedHalfWay ==
    ASSUME RInv, NEW t \in Tx, Fail(t), state[t] = "running"
    PROVE  (\A u \in Tx : HalfWay(u)') /\ Abstract!Reject(t)
  <1>1. /\ committed' = committed
        /\ \A u \in Tx : u # t => pending'[u] = pending[u]
    BY RollbackSeen DEF Fail, RInv, IInv
  <1>2. /\ state' = [state EXCEPT ![t] = "failed"] /\ DOMAIN state = Tx
        /\ doc' = doc /\ next' = next
    BY DEF Fail, RInv, IInv, TypeOK
  <1>3. \A u \in Tx : u # t => HalfWay(u)'
    BY <1>1, <1>2, OthersStayHalfWay DEF RInv
  <1>4. HalfWay(t)'
    BY <1>2 DEF HalfWay
  <1>5. Abstract!Reject(t)
    BY <1>1, <1>2 DEF Abstract!Reject
  <1> QED BY <1>3, <1>4, <1>5

\* A commit publishes the sum of the lines, and leaves no row below zero.
LEMMA CommittedHalfWay ==
    ASSUME RInv, NEW t \in Tx, Commit(t)
    PROVE  (\A u \in Tx : HalfWay(u)') /\ Abstract!Apply(t)
  <1>1. /\ \A r \in Row : committed'[r] = Sees(t, r)
        /\ DOMAIN pending'[t] = {}
        /\ \A u \in Tx : u # t => pending'[u] = pending[u]
        /\ \A u \in Tx, r \in Row :
              u # t /\ r \in DOMAIN pending[u] => committed'[r] = committed[r]
        /\ \A u \in Tx, r \in Row :
              u # t => Sees(u, r)' = IF r \in DOMAIN pending[u] THEN Sees(u, r) ELSE Sees(t, r)
    BY CommitSeen DEF Commit, RInv, IInv
  <1>2. /\ state[t] = "running" /\ next[t] > Len(doc[t]) /\ doc' = doc /\ next' = next
        /\ state' = [state EXCEPT ![t] = "committed"] /\ DOMAIN state = Tx
        /\ doc[t] \in Seq(Line) /\ next[t] \in Nat
    BY DEF Commit, RInv, IInv, TypeOK
  <1>3. ASSUME NEW u \in Tx, u # t PROVE HalfWay(u)'
    <2>1. ASSUME NEW r \in StockRow,
                 OnHand(u, r) = committed[r].quantity + Applied(u, r)
          PROVE  OnHand(u, r)' = committed'[r].quantity + Applied(u, r)
      <3>1. CASE r \in DOMAIN pending[u]
        BY <1>1, <1>3, <2>1, <3>1 DEF OnHand
      <3>2. CASE r \notin DOMAIN pending[u]
        <4>1. Applied(u, r) = 0
          <5>1. OnHand(u, r) = committed[r].quantity /\ committed[r].quantity \in Nat
            BY <3>2, QuantitiesTyped DEF OnHand, Sees, RInv
          <5>2. Applied(u, r) \in Int
            BY AppliedTyped DEF Applied, RInv, IInv, TypeOK
          <5> QED BY <2>1, <5>1, <5>2
        <4>2. OnHand(u, r)' = committed'[r].quantity /\ committed'[r].quantity \in Nat
          BY <1>1, <1>3, <3>2, QuantitiesTyped DEF OnHand, RInv
        <4> QED BY <4>1, <4>2
      <3> QED BY <3>1, <3>2
    <2> QED BY <1>1, <1>2, <1>3, <2>1, StaysHalfWay DEF RInv
  <1>4. HalfWay(t)'
    BY <1>2 DEF HalfWay
  <1>5. Abstract!Apply(t)
    <2>1. ASSUME NEW r \in StockRow
          PROVE  /\ committed'[r].quantity = committed[r].quantity + Abstract!Net(doc[t], r)
                 /\ committed'[r].quantity >= 0
      <3>1. Applied(t, r) = Abstract!Net(doc[t], r)
        BY <1>2, AllApplied DEF Applied
      <3>2. OnHand(t, r) = committed[r].quantity + Applied(t, r)
        BY <1>2 DEF RInv, HalfWay
      <3>3. committed'[r].quantity = OnHand(t, r) /\ OnHand(t, r) \in Nat
        BY <1>1, QuantitiesTyped DEF OnHand, RInv
      <3> QED BY <3>1, <3>2, <3>3
    <2>2. doc[t] \in Document
      BY <1>2 DEF RInv, HalfWay
    <2>3. [u \in Tx |-> IF state'[u] \in {"idle", "running"} THEN "open" ELSE state'[u]]
            = [[u \in Tx |-> IF state[u] \in {"idle", "running"} THEN "open" ELSE state[u]]
                  EXCEPT ![t] = "committed"]
      BY <1>2
    <2> QED BY <1>2, <2>1, <2>2, <2>3 DEF Abstract!Apply
  <1> QED BY <1>3, <1>4, <1>5

LEMMA NextRInv ==
    ASSUME RInv, [Next]_vars
    PROVE  RInv' /\ [Abstract!Next]_(Abstract!vars)
  <1>1. IInv'
    BY NextIInv DEF RInv
  <1>2. CASE UNCHANGED vars
    <2>1. \A u \in Tx : HalfWay(u)'
      <3>1. \A u \in Tx, r \in StockRow : OnHand(u, r)' = OnHand(u, r)
        BY <1>2 DEF OnHand, Sees, vars
      <3> QED BY <1>2, <3>1, StaysHalfWay DEF RInv, vars
    <2>2. UNCHANGED Abstract!vars
      BY <1>2 DEF vars, Abstract!vars
    <2> QED BY <1>1, <2>1, <2>2 DEF RInv
  <1>3. ASSUME NEW t \in Tx, Begin(t)
        PROVE  RInv' /\ [Abstract!Next]_(Abstract!vars)
    <2>1. UNCHANGED Abstract!vars
      <3>1. state[t] = "idle" /\ state' = [state EXCEPT ![t] = "running"] /\ DOMAIN state = Tx
            /\ committed' = committed
        BY <1>3 DEF Begin, dbVars, RInv, IInv, TypeOK
      <3> QED BY <3>1 DEF Abstract!vars
    <2> QED BY <1>1, <1>3, <2>1, BegunHalfWay DEF RInv
  <1>4. ASSUME NEW t \in Tx, MoveIn(t) \/ MoveOut(t)
        PROVE  RInv' /\ [Abstract!Next]_(Abstract!vars)
    <2>1. UNCHANGED Abstract!vars
      BY <1>4 DEF MoveIn, MoveOut, WriteRow, Abstract!vars
    <2> QED BY <1>1, <1>4, <2>1, MovedHalfWay DEF RInv
  <1>5. ASSUME NEW t \in Tx, Commit(t)
        PROVE  RInv' /\ [Abstract!Next]_(Abstract!vars)
    BY <1>1, <1>5, CommittedHalfWay DEF RInv, Abstract!Next
  <1>6. ASSUME NEW t \in Tx,
               RefuseZero(t) \/ Insufficient(t) \/ DeadlockVictim(t) \/ Timeout(t)
        PROVE  RInv' /\ [Abstract!Next]_(Abstract!vars)
    <2>1. Fail(t) /\ state[t] = "running"
      BY <1>6 DEF RefuseZero, Insufficient, DeadlockVictim, Timeout, HasLine, OnCycle, WaitsFor
    <2> QED BY <1>1, <2>1, FailedHalfWay DEF RInv, Abstract!Next
  <1> QED BY <1>2, <1>3, <1>4, <1>5, <1>6 DEF Next, Step

\* Requests that interleave statement by statement, wait for locks, time out
\* and break each other's deadlocks still move stock as the ledger says: every
\* document at once and whole, or not at all, and never below zero
\* (inventory.utils.ts:143-208, inside the services' $transaction).
THEOREM DocumentsMoveWhole == Spec => ImplementsLedger
  <1>1. RInv /\ [Next]_vars => RInv' /\ [Abstract!Next]_(Abstract!vars)
    BY NextRInv
  <1> QED BY <1>1, InitRInv, PTL DEF Spec, ImplementsLedger, Abstract!Spec
=============================================================================
