------------------------ MODULE ReadCommitted_proofs ------------------------
(***************************************************************************)
(* What the three ways a transaction touches the database preserve, for    *)
(* any number of transactions and rows and any choice value[r] of the      *)
(* values row r may hold.                                                  *)
(***************************************************************************)
EXTENDS ReadCommitted, Integers, FiniteSetTheorems, FiniteSetsExt, Functions, TLAPS

USE NoTxAssumption

LEMMA DbInitTyped ==
    ASSUME NEW value, NEW initial, DbInit(initial),
           DOMAIN initial = Row, \A r \in Row : initial[r] \in value[r]
    PROVE  DbTypeOK(value)
  BY DEF DbInit, DbTypeOK, NoWrites

LEMMA SeesTyped ==
    ASSUME NEW value, DbTypeOK(value), NEW t \in Tx, NEW r \in Row
    PROVE  Sees(t, r) \in value[r]
  BY DEF DbTypeOK, Sees

LEMMA WriteRowTyped ==
    ASSUME NEW value, DbTypeOK(value), NEW t \in Tx, NEW r \in Row, NEW v \in value[r],
           WriteRow(t, r, v)
    PROVE  DbTypeOK(value)'
  <1>1. /\ DOMAIN committed' = Row
        /\ \A q \in Row : committed'[q] \in value[q]
    BY DEF DbTypeOK, WriteRow
  <1>2. holder' \in [Row -> Tx \cup {NoTx}]
    BY DEF DbTypeOK, WriteRow
  <1>3. DOMAIN pending' = Tx
    BY DEF DbTypeOK, WriteRow
  <1>4. ASSUME NEW u \in Tx
        PROVE  /\ DOMAIN pending'[u] = {q \in Row : holder'[q] = u}
               /\ \A q \in DOMAIN pending'[u] : pending'[u][q] \in value[q]
    <2>1. CASE u = t
      <3>1. pending'[u] = Put(pending[t], r, v)
        BY <2>1 DEF DbTypeOK, WriteRow
      <3>2. DOMAIN pending'[u] = DOMAIN pending[t] \cup {r}
        BY <3>1 DEF Put
      <3>3. \A q \in DOMAIN pending'[u] :
               pending'[u][q] = IF q = r THEN v ELSE pending[t][q]
        BY <3>1 DEF Put
      <3>4. {q \in Row : holder'[q] = u} = {q \in Row : holder[q] = t} \cup {r}
        BY <2>1 DEF DbTypeOK, WriteRow
      <3> QED BY <3>2, <3>3, <3>4 DEF DbTypeOK
    <2>2. CASE u # t
      <3>1. pending'[u] = pending[u]
        BY <2>2 DEF DbTypeOK, WriteRow
      <3>2. {q \in Row : holder'[q] = u} = {q \in Row : holder[q] = u}
        BY <2>2 DEF DbTypeOK, WriteRow, Lockable
      <3> QED BY <3>1, <3>2 DEF DbTypeOK
    <2> QED BY <2>1, <2>2
  <1> QED BY <1>1, <1>2, <1>3, <1>4 DEF DbTypeOK

LEMMA RollbackTyped ==
    ASSUME NEW value, DbTypeOK(value), NEW t \in Tx, RollbackTx(t)
    PROVE  DbTypeOK(value)'
  <1>1. holder' \in [Row -> Tx \cup {NoTx}]
    BY DEF DbTypeOK, RollbackTx, Unlocked
  <1>2. ASSUME NEW u \in Tx
        PROVE  /\ DOMAIN pending'[u] = {q \in Row : holder'[q] = u}
               /\ \A q \in DOMAIN pending'[u] : pending'[u][q] \in value[q]
    <2>1. CASE u = t
      <3>1. DOMAIN pending'[u] = {}
        BY <2>1 DEF DbTypeOK, RollbackTx, NoWrites
      <3>2. {q \in Row : holder'[q] = u} = {}
        BY <2>1 DEF RollbackTx, Unlocked
      <3> QED BY <3>1, <3>2
    <2>2. CASE u # t
      <3>1. pending'[u] = pending[u]
        BY <2>2 DEF DbTypeOK, RollbackTx
      <3>2. {q \in Row : holder'[q] = u} = {q \in Row : holder[q] = u}
        BY <2>2 DEF RollbackTx, Unlocked
      <3> QED BY <3>1, <3>2 DEF DbTypeOK
    <2> QED BY <2>1, <2>2
  <1>3. DOMAIN pending' = Tx /\ committed' = committed
    BY DEF DbTypeOK, RollbackTx
  <1> QED BY <1>1, <1>2, <1>3 DEF DbTypeOK

LEMMA CommitTyped ==
    ASSUME NEW value, DbTypeOK(value), NEW t \in Tx, CommitTx(t)
    PROVE  DbTypeOK(value)'
  <1>1. holder' \in [Row -> Tx \cup {NoTx}]
    BY DEF DbTypeOK, CommitTx, Unlocked
  <1>2. ASSUME NEW u \in Tx
        PROVE  /\ DOMAIN pending'[u] = {q \in Row : holder'[q] = u}
               /\ \A q \in DOMAIN pending'[u] : pending'[u][q] \in value[q]
    <2>1. CASE u = t
      <3>1. DOMAIN pending'[u] = {}
        BY <2>1 DEF DbTypeOK, CommitTx, NoWrites
      <3>2. {q \in Row : holder'[q] = u} = {}
        BY <2>1 DEF CommitTx, Unlocked
      <3> QED BY <3>1, <3>2
    <2>2. CASE u # t
      <3>1. pending'[u] = pending[u]
        BY <2>2 DEF DbTypeOK, CommitTx
      <3>2. {q \in Row : holder'[q] = u} = {q \in Row : holder[q] = u}
        BY <2>2 DEF CommitTx, Unlocked
      <3> QED BY <3>1, <3>2 DEF DbTypeOK
    <2> QED BY <2>1, <2>2
  <1>3. DOMAIN pending' = Tx
    BY DEF DbTypeOK, CommitTx
  <1>4. DOMAIN committed' = Row /\ \A q \in Row : committed'[q] \in value[q]
    BY SeesTyped DEF CommitTx
  <1> QED BY <1>1, <1>2, <1>3, <1>4 DEF DbTypeOK

LEMMA WriteRowsTyped ==
    ASSUME NEW value, DbTypeOK(value), NEW t \in Tx, NEW values, DOMAIN values \subseteq Row,
           \A r \in DOMAIN values : values[r] \in value[r], WriteRows(t, values)
    PROVE  DbTypeOK(value)'
  <1>1. /\ DOMAIN committed' = Row
        /\ \A q \in Row : committed'[q] \in value[q]
    BY DEF DbTypeOK, WriteRows
  <1>2. holder' \in [Row -> Tx \cup {NoTx}]
    BY DEF DbTypeOK, WriteRows
  <1>3. DOMAIN pending' = Tx
    BY DEF DbTypeOK, WriteRows
  <1>4. ASSUME NEW u \in Tx
        PROVE  /\ DOMAIN pending'[u] = {q \in Row : holder'[q] = u}
               /\ \A q \in DOMAIN pending'[u] : pending'[u][q] \in value[q]
    <2>1. CASE u = t
      <3>1. /\ DOMAIN pending'[u] = DOMAIN pending[t] \cup DOMAIN values
            /\ \A q \in DOMAIN pending'[u] :
                  pending'[u][q] = IF q \in DOMAIN values THEN values[q] ELSE pending[t][q]
        BY <2>1 DEF DbTypeOK, WriteRows
      <3>2. {q \in Row : holder'[q] = u} = {q \in Row : holder[q] = t} \cup DOMAIN values
        BY <2>1 DEF DbTypeOK, WriteRows
      <3> QED BY <3>1, <3>2 DEF DbTypeOK
    <2>2. CASE u # t
      <3>1. pending'[u] = pending[u]
        BY <2>2 DEF DbTypeOK, WriteRows
      <3>2. {q \in Row : holder'[q] = u} = {q \in Row : holder[q] = u}
        BY <2>2 DEF DbTypeOK, WriteRows, Lockable
      <3> QED BY <3>1, <3>2 DEF DbTypeOK
    <2> QED BY <2>1, <2>2
  <1> QED BY <1>1, <1>2, <1>3, <1>4 DEF DbTypeOK

LEMMA AutocommitTyped ==
    ASSUME NEW value, DbTypeOK(value), NEW values, DOMAIN values \subseteq Row,
           \A r \in DOMAIN values : values[r] \in value[r], Autocommit(values)
    PROVE  DbTypeOK(value)'
  <1>1. /\ DOMAIN committed' = Row
        /\ \A q \in Row : committed'[q] \in value[q]
    BY DEF DbTypeOK, Autocommit
  <1>2. pending' = pending /\ holder' = holder
    BY DEF Autocommit
  <1> QED BY <1>1, <1>2 DEF DbTypeOK

-----------------------------------------------------------------------------
(* What the transactions read after a step.                                  *)

\* A statement of t adds its own write to what t reads, and to nothing else.
LEMMA WriteRowSeen ==
    ASSUME NEW value, DbTypeOK(value), NEW t \in Tx, NEW r \in Row, NEW v, WriteRow(t, r, v)
    PROVE  /\ committed' = committed
           /\ DOMAIN pending'[t] = DOMAIN pending[t] \cup {r}
           /\ pending'[t][r] = v
           /\ \A q \in DOMAIN pending[t] : q # r => pending'[t][q] = pending[t][q]
           /\ Sees(t, r)' = v
           /\ \A q \in Row : q # r => Sees(t, q)' = Sees(t, q)
           /\ \A u \in Tx : u # t => pending'[u] = pending[u]
  <1>1. pending'[t] = Put(pending[t], r, v) /\ committed' = committed
    BY DEF DbTypeOK, WriteRow
  <1>2. /\ DOMAIN pending'[t] = DOMAIN pending[t] \cup {r}
        /\ \A q \in DOMAIN pending'[t] : pending'[t][q] = IF q = r THEN v ELSE pending[t][q]
    BY <1>1 DEF Put
  <1>3. \A u \in Tx : u # t => pending'[u] = pending[u]
    BY DEF DbTypeOK, WriteRow
  <1>4. Sees(t, r)' = v
    BY <1>2 DEF Sees
  <1>5. \A q \in Row : q # r => Sees(t, q)' = Sees(t, q)
    BY <1>1, <1>2 DEF Sees
  <1> QED BY <1>1, <1>2, <1>3, <1>4, <1>5

\* The same of a step that writes several rows, each of which t could lock.
LEMMA WriteRowsSeen ==
    ASSUME NEW value, DbTypeOK(value), NEW t \in Tx, NEW values, DOMAIN values \subseteq Row,
           WriteRows(t, values)
    PROVE  /\ committed' = committed
           /\ DOMAIN pending'[t] = DOMAIN pending[t] \cup DOMAIN values
           /\ \A r \in DOMAIN values : pending'[t][r] = values[r] /\ Sees(t, r)' = values[r]
           /\ \A r \in DOMAIN pending[t] : r \notin DOMAIN values => pending'[t][r] = pending[t][r]
           /\ \A r \in Row : r \notin DOMAIN values => Sees(t, r)' = Sees(t, r)
           /\ \A u \in Tx : u # t =>
                 pending'[u] = pending[u] /\ DOMAIN pending[u] \cap DOMAIN values = {}
  <1>1. /\ DOMAIN pending'[t] = DOMAIN pending[t] \cup DOMAIN values
        /\ \A r \in DOMAIN pending'[t] :
              pending'[t][r] = IF r \in DOMAIN values THEN values[r] ELSE pending[t][r]
        /\ committed' = committed
    BY DEF DbTypeOK, WriteRows
  <1>2. \A u \in Tx : u # t =>
           pending'[u] = pending[u] /\ DOMAIN pending[u] \cap DOMAIN values = {}
    BY DEF DbTypeOK, WriteRows, Lockable
  <1>3. \A r \in DOMAIN values : pending'[t][r] = values[r] /\ Sees(t, r)' = values[r]
    BY <1>1 DEF Sees
  <1>4. \A r \in Row : r \notin DOMAIN values => Sees(t, r)' = Sees(t, r)
    BY <1>1 DEF Sees
  <1> QED BY <1>1, <1>2, <1>3, <1>4

\* A statement outside a transaction touches no row that a transaction has written.
LEMMA AutocommitSeen ==
    ASSUME NEW value, DbTypeOK(value), NEW values, DOMAIN values \subseteq Row,
           Autocommit(values)
    PROVE  /\ pending' = pending
           /\ \A r \in Row : committed'[r] = IF r \in DOMAIN values THEN values[r] ELSE committed[r]
           /\ \A u \in Tx : DOMAIN pending[u] \cap DOMAIN values = {}
           /\ \A u \in Tx, r \in Row :
                 Sees(u, r)' = IF r \in DOMAIN values THEN values[r] ELSE Sees(u, r)
  <1>1. /\ pending' = pending
        /\ \A r \in Row : committed'[r] = IF r \in DOMAIN values THEN values[r] ELSE committed[r]
    BY DEF Autocommit
  <1>2. \A u \in Tx : DOMAIN pending[u] \cap DOMAIN values = {}
    BY DEF DbTypeOK, Autocommit
  <1> QED BY <1>1, <1>2 DEF Sees

\* When t ends, it has no writes left; what the others wrote is theirs still.
LEMMA RollbackSeen ==
    ASSUME NEW value, DbTypeOK(value), NEW t \in Tx, RollbackTx(t)
    PROVE  /\ committed' = committed
           /\ DOMAIN pending'[t] = {}
           /\ \A u \in Tx : u # t => pending'[u] = pending[u]
  BY DEF DbTypeOK, RollbackTx, NoWrites

\* What a commit publishes touches no row that another transaction has written.
LEMMA CommitSeen ==
    ASSUME NEW value, DbTypeOK(value), NEW t \in Tx, CommitTx(t)
    PROVE  /\ \A r \in Row : committed'[r] = Sees(t, r)
           /\ DOMAIN pending'[t] = {}
           /\ \A u \in Tx : u # t => pending'[u] = pending[u]
           /\ \A u \in Tx, r \in Row :
                 u # t /\ r \in DOMAIN pending[u] => committed'[r] = committed[r]
           /\ \A u \in Tx, r \in Row :
                 u # t => Sees(u, r)' = IF r \in DOMAIN pending[u] THEN Sees(u, r) ELSE Sees(t, r)
  <1>1. /\ \A r \in Row : committed'[r] = Sees(t, r)
        /\ DOMAIN pending'[t] = {}
        /\ \A u \in Tx : u # t => pending'[u] = pending[u]
    BY DEF DbTypeOK, CommitTx, NoWrites
  <1>2. ASSUME NEW u \in Tx, NEW r \in Row, u # t, r \in DOMAIN pending[u]
        PROVE  committed'[r] = committed[r]
    <2>1. r \notin DOMAIN pending[t]
      BY <1>2 DEF DbTypeOK
    <2> QED BY <1>1, <2>1 DEF Sees
  <1>3. ASSUME NEW u \in Tx, NEW r \in Row, u # t
        PROVE  Sees(u, r)' = IF r \in DOMAIN pending[u] THEN Sees(u, r) ELSE Sees(t, r)
    BY <1>1, <1>3 DEF Sees
  <1> QED BY <1>1, <1>2, <1>3

-----------------------------------------------------------------------------
(* Sums over the rows of a table.  The library's induction theorems cannot   *)
(* be instantiated by the provers used here; that a set of subsets of a      *)
(* finite set has a smallest member can, and does as well.                   *)

LEMMA SmallestSubset ==
    ASSUME NEW S, IsFiniteSet(S), NEW T \in SUBSET SUBSET S, T # {}
    PROVE  \E s \in T : \A u \in T : ~(u \subseteq s /\ u # s)
  <1> DEFINE R == StrictSubsetOrdering(S)
  <1>1. IsWellFoundedOn(R, SUBSET S)
    <2>1. IsWellFoundedOn(R, FiniteSubsetsOf(S))
      BY FS_StrictSubsetOrderingWellFounded
    <2>2. FiniteSubsetsOf(S) = SUBSET S
      BY FS_FiniteSubsetsOfFinite
    <2> QED BY <2>1, <2>2
  <1>2. PICK s \in T : \A u \in T : <<u, s>> \notin R
    BY <1>1, WFMin
  <1>3. ASSUME NEW u \in T, u \subseteq s, u # s
        PROVE  <<u, s>> \in R
    BY <1>3 DEF StrictSubsetOrdering
  <1>4. \A u \in T : ~(u \subseteq s /\ u # s)
    <2> HIDE DEF R
    <2> QED BY <1>2, <1>3
  <1> QED BY <1>4

Chosen(s) == CHOOSE x \in s : TRUE
Without(s) == s \ {Chosen(s)}

\* h[s] is the sum of g over s, for each subset s of S.
Adds(h, g, S) ==
    h = [s \in SUBSET S |-> IF s = {} THEN 0 ELSE g[Chosen(s)] + h[Without(s)]]

Total(g, S) == MapThenSumSet(LAMBDA x : g[x], S)

LEMMA ChosenIsIn ==
    ASSUME NEW s, s # {}
    PROVE  Chosen(s) \in s /\ Without(s) \subseteq s /\ Without(s) # s
  BY DEF Chosen, Without

LEMMA AddsStep ==
    ASSUME NEW g, NEW S, NEW h, Adds(h, g, S), NEW s \in SUBSET S
    PROVE  h[s] = IF s = {} THEN 0 ELSE g[Chosen(s)] + h[Without(s)]
  BY DEF Adds

LEMMA AddsNothing ==
    ASSUME NEW g, NEW S, NEW h, Adds(h, g, S)
    PROVE  h[{}] = 0
  BY DEF Adds

\* Two sums agree where both are defined.
LEMMA AddsAgree ==
    ASSUME NEW g, NEW S, IsFiniteSet(S), NEW h, Adds(h, g, S),
           NEW T \in SUBSET S, NEW k, Adds(k, g, T)
    PROVE  \A s \in SUBSET T : h[s] = k[s]
  <1> DEFINE Bad == {s \in SUBSET T : h[s] # k[s]}
  <1> SUFFICES ASSUME Bad # {} PROVE FALSE
    OBVIOUS
  <1>1. PICK s \in Bad : \A u \in Bad : ~(u \subseteq s /\ u # s)
    <2>1. Bad \in SUBSET SUBSET S
      OBVIOUS
    <2> HIDE DEF Bad
    <2> QED BY <2>1, SmallestSubset
  <1>2. s # {}
    BY <1>1, AddsStep
  <1>3. Without(s) \in SUBSET T /\ Without(s) \notin Bad
    BY <1>1, <1>2, ChosenIsIn
  <1>4. h[s] = g[Chosen(s)] + h[Without(s)] /\ k[s] = g[Chosen(s)] + k[Without(s)]
    BY <1>1, <1>2, AddsStep
  <1> QED BY <1>1, <1>3, <1>4

LEMMA AddsExists ==
    ASSUME NEW g, NEW S, IsFiniteSet(S)
    PROVE  \E h : Adds(h, g, S)
  <1> DEFINE Bad == {s \in SUBSET S : ~\E h : Adds(h, g, s)}
  <1> SUFFICES ASSUME Bad # {} PROVE FALSE
    OBVIOUS
  <1>1. PICK s \in Bad : \A u \in Bad : ~(u \subseteq s /\ u # s)
    <2>1. Bad \in SUBSET SUBSET S
      OBVIOUS
    <2> HIDE DEF Bad
    <2> QED BY <2>1, SmallestSubset
  <1> DEFINE sum(u) == CHOOSE h : Adds(h, g, u)
             k == [u \in SUBSET s |-> IF u = {} THEN 0 ELSE g[Chosen(u)] + sum(Without(u))[Without(u)]]
  <1>2. \A u \in SUBSET s : u # s => Adds(sum(u), g, u)
    <2> TAKE u \in SUBSET s
    <2> HAVE u # s
    <2>1. \E h : Adds(h, g, u)
      BY <1>1
    <2> QED BY <2>1
  <1>3. ASSUME NEW u \in SUBSET s, u # s PROVE k[u] = sum(u)[u]
    <2>1. Adds(sum(u), g, u) /\ IsFiniteSet(u)
      BY <1>2, <1>3, FS_Subset
    <2> HIDE DEF sum
    <2>2. CASE u = {}
      BY <2>1, <2>2, AddsStep
    <2>3. CASE u # {}
      <3>1. Without(u) \in SUBSET u /\ Without(u) \in SUBSET s /\ Without(u) # s
        BY <2>3, <1>3, ChosenIsIn
      <3>2. Adds(sum(Without(u)), g, Without(u))
        BY <1>2, <3>1
      <3>3. sum(u)[Without(u)] = sum(Without(u))[Without(u)]
        BY <2>1, <3>1, <3>2, AddsAgree
      <3>4. sum(u)[u] = g[Chosen(u)] + sum(u)[Without(u)]
        BY <2>1, <2>3, AddsStep
      <3> QED BY <2>3, <3>3, <3>4
    <2> QED BY <2>2, <2>3
  <1>4. \A u \in SUBSET s : u # {} => k[Without(u)] = sum(Without(u))[Without(u)]
    <2> TAKE u \in SUBSET s
    <2> HAVE u # {}
    <2>1. Without(u) \in SUBSET s /\ Without(u) # s
      BY ChosenIsIn
    <2> HIDE DEF k
    <2> QED BY <1>3, <2>1
  <1>5. Adds(k, g, s)
    <2> HIDE DEF sum
    <2>1. k = [u \in SUBSET s |-> IF u = {} THEN 0 ELSE g[Chosen(u)] + k[Without(u)]]
      BY <1>4
    <2> QED BY <2>1 DEF Adds
  <1> QED BY <1>1, <1>5

LEMMA TotalUnfolds ==
    ASSUME NEW g, NEW S, IsFiniteSet(S), NEW h, Adds(h, g, S)
    PROVE  Total(g, S) = h[S]
  <1>1. \A k : Adds(k, g, S) => k[S] = h[S]
    BY AddsAgree
  <1> QED
    BY <1>1 DEF Total, MapThenSumSet, MapThenFoldSet, Adds, Chosen, Without

\* If two columns differ in one row at most, so do their sums.
LEMMA TotalChanges ==
    ASSUME NEW S, IsFiniteSet(S), NEW f \in [S -> Int], NEW g \in [S -> Int],
           NEW y \in S, \A x \in S : x # y => g[x] = f[x]
    PROVE  /\ Total(f, S) \in Int
           /\ Total(g, S) = Total(f, S) - f[y] + g[y]
  <1>1. PICK h : Adds(h, f, S)
    BY AddsExists
  <1>2. PICK k : Adds(k, g, S)
    BY AddsExists
  <1> DEFINE OK(s) == /\ h[s] \in Int
                      /\ k[s] = h[s] + (IF y \in s THEN g[y] - f[y] ELSE 0)
             Bad == {s \in SUBSET S : ~OK(s)}
  <1>3. Bad = {}
    <2> SUFFICES ASSUME Bad # {} PROVE FALSE
      OBVIOUS
    <2>1. PICK s \in Bad : \A u \in Bad : ~(u \subseteq s /\ u # s)
      <3>1. Bad \in SUBSET SUBSET S
        OBVIOUS
      <3> HIDE DEF Bad
      <3> QED BY <3>1, SmallestSubset
    <2>2. s # {}
      <3>1. h[{}] = 0 /\ k[{}] = 0
        BY <1>1, <1>2, AddsNothing
      <3>2. OK({})
        BY <3>1
      <3> QED BY <2>1, <3>2
    <2>3. Chosen(s) \in s /\ Without(s) \in SUBSET S /\ OK(Without(s))
      BY <2>1, <2>2, ChosenIsIn
    <2>4. h[s] = f[Chosen(s)] + h[Without(s)] /\ k[s] = g[Chosen(s)] + k[Without(s)]
      BY <1>1, <1>2, <2>1, <2>2, AddsStep
    <2>5. y \in Without(s) <=> y \in s /\ y # Chosen(s)
      BY <2>3 DEF Without
    <2>6. Chosen(s) \in S /\ f[Chosen(s)] \in Int /\ g[Chosen(s)] \in Int /\ f[y] \in Int /\ g[y] \in Int
      BY <2>1, <2>3
    <2>7. OK(s)
      <3>1. CASE y = Chosen(s)
        BY <2>3, <2>4, <2>5, <2>6, <3>1
      <3>2. CASE y # Chosen(s)
        <4>1. g[Chosen(s)] = f[Chosen(s)]
          BY <2>6, <3>2
        <4> QED BY <2>3, <2>4, <2>5, <2>6, <3>2, <4>1
      <3> QED BY <3>1, <3>2
    <2> QED BY <2>1, <2>7
  <1>4. OK(S)
    BY <1>3
  <1>5. Total(f, S) = h[S] /\ Total(g, S) = k[S]
    BY <1>1, <1>2, TotalUnfolds
  <1> QED BY <1>4, <1>5

\* A column of integers adds up to an integer.
LEMMA TotalTyped ==
    ASSUME NEW S, IsFiniteSet(S), NEW f \in [S -> Int]
    PROVE  Total(f, S) \in Int
  <1>1. CASE S = {}
    <2>1. PICK h : Adds(h, f, S)
      BY AddsExists
    <2>2. h[{}] = 0
      BY <2>1, AddsNothing
    <2> QED BY <1>1, <2>1, <2>2, TotalUnfolds
  <1>2. CASE S # {}
    <2>1. PICK y \in S : TRUE
      BY <1>2
    <2> QED BY <2>1, TotalChanges
  <1> QED BY <1>1, <1>2

\* A column of zeros adds up to zero.
LEMMA TotalOfZeros ==
    ASSUME NEW S, IsFiniteSet(S), NEW f, \A x \in S : f[x] = 0
    PROVE  Total(f, S) = 0
  <1>1. PICK h : Adds(h, f, S)
    BY AddsExists
  <1> DEFINE Bad == {s \in SUBSET S : h[s] # 0}
  <1>2. Bad = {}
    <2> SUFFICES ASSUME Bad # {} PROVE FALSE
      OBVIOUS
    <2>1. PICK s \in Bad : \A u \in Bad : ~(u \subseteq s /\ u # s)
      <3>1. Bad \in SUBSET SUBSET S
        OBVIOUS
      <3> HIDE DEF Bad
      <3> QED BY <3>1, SmallestSubset
    <2>2. s # {}
      BY <1>1, <2>1, AddsNothing
    <2>3. Chosen(s) \in s /\ Without(s) \in SUBSET S /\ h[Without(s)] = 0
      BY <2>1, <2>2, ChosenIsIn
    <2>4. h[s] = f[Chosen(s)] + h[Without(s)]
      BY <1>1, <2>1, <2>2, AddsStep
    <2> QED BY <2>1, <2>3, <2>4
  <1>3. h[S] = 0
    BY <1>2
  <1> QED BY <1>1, <1>3, TotalUnfolds
\* The sum of a column that is zero in every row but one.
LEMMA TotalOfOneRow ==
    ASSUME NEW S, IsFiniteSet(S), NEW g \in [S -> Int], NEW y \in S,
           \A x \in S : x # y => g[x] = 0
    PROVE  Total(g, S) = g[y]
  <1> DEFINE zeros == [x \in S |-> 0]
  <1>1. zeros \in [S -> Int] /\ zeros[y] = 0 /\ \A x \in S : x # y => g[x] = zeros[x]
    OBVIOUS
  <1>2. Total(zeros, S) = 0
    BY TotalOfZeros
  <1> HIDE DEF zeros
  <1>3. Total(g, S) = Total(zeros, S) - zeros[y] + g[y]
    BY <1>1, TotalChanges
  <1> QED BY <1>1, <1>2, <1>3

LEMMA SumIsTotal ==
    ASSUME NEW S, NEW g \in [S -> Int]
    PROVE  SumFunction(g) = Total(g, S)
  BY DEF SumFunction, SumFunctionOnSet, FoldFunctionOnSet, Total, MapThenSumSet, MapThenFoldSet

=============================================================================
