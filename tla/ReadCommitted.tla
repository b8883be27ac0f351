--------------------------- MODULE ReadCommitted ---------------------------
(***************************************************************************)
(* The database as the backend's services meet it: PostgreSQL at its       *)
(* default isolation level, reached through prisma.$transaction.           *)
(*                                                                         *)
(* PostgreSQL and Prisma are outside the repository; this module states    *)
(* the part of their behaviour the services rely on.  A statement reads    *)
(* what is committed at that moment plus the transaction's own writes; a   *)
(* write takes the row's lock and keeps it until the transaction ends;     *)
(* commit publishes every write at once, rollback none of them.  A cycle   *)
(* of transactions waiting for each other's rows is broken by failing one. *)
(***************************************************************************)
EXTENDS Naturals, FiniteSets

CONSTANTS
    Tx,     \* the requests, each running at most one transaction at a time
    NoTx,   \* the holder of an unlocked row
    Row     \* the rows of the tables a service touches

ASSUME NoTxAssumption == NoTx \notin Tx

VARIABLES
    committed,  \* committed[r]: the row as other transactions read it
    pending,    \* pending[t]: the rows t has written and not yet committed
    holder      \* holder[r]: the transaction holding r's lock, or NoTx

dbVars == <<committed, pending, holder>>

NoWrites == [r \in {} |-> r]

DbInit(initial) ==
    /\ committed = initial
    /\ pending = [t \in Tx |-> NoWrites]
    /\ holder = [r \in Row |-> NoTx]

\* What a statement of t reads from row r.
Sees(t, r) == IF r \in DOMAIN pending[t] THEN pending[t][r] ELSE committed[r]

Put(f, r, value) == [q \in DOMAIN f \cup {r} |-> IF q = r THEN value ELSE f[q]]

Lockable(t, r) == holder[r] \in {NoTx, t}

\* An UPDATE or upsert of row r by t: waits for the lock, then writes.
WriteRow(t, r, value) ==
    /\ Lockable(t, r)
    /\ holder' = [holder EXCEPT ![r] = t]
    /\ pending' = [pending EXCEPT ![t] = Put(@, r, value)]
    /\ UNCHANGED committed

\* One step that writes the rows of DOMAIN values.
WriteRows(t, values) ==
    /\ \A r \in DOMAIN values : Lockable(t, r)
    /\ holder' = [r \in Row |-> IF r \in DOMAIN values THEN t ELSE holder[r]]
    /\ pending' = [pending EXCEPT ![t] =
                      [r \in DOMAIN @ \cup DOMAIN values |->
                          IF r \in DOMAIN values THEN values[r] ELSE @[r]]]
    /\ UNCHANGED committed

\* A single statement outside a transaction, writing the rows of DOMAIN values:
\* it waits for their locks, and is committed when it returns.
Autocommit(values) ==
    /\ \A r \in DOMAIN values : holder[r] = NoTx
    /\ committed' = [r \in Row |-> IF r \in DOMAIN values THEN values[r] ELSE committed[r]]
    /\ UNCHANGED <<pending, holder>>

Unlocked(t) == [r \in Row |-> IF holder[r] = t THEN NoTx ELSE holder[r]]

CommitTx(t) ==
    /\ committed' = [r \in Row |-> Sees(t, r)]
    /\ pending' = [pending EXCEPT ![t] = NoWrites]
    /\ holder' = Unlocked(t)

RollbackTx(t) ==
    /\ pending' = [pending EXCEPT ![t] = NoWrites]
    /\ holder' = Unlocked(t)
    /\ UNCHANGED committed

\* The shape every transaction keeps, given the values a row may hold: a lock
\* is held exactly by the transaction with an uncommitted write on the row.
DbTypeOK(value) ==
    /\ DOMAIN committed = Row
    /\ \A r \in Row : committed[r] \in value[r]
    /\ holder \in [Row -> Tx \cup {NoTx}]
    /\ DOMAIN pending = Tx
    /\ \A t \in Tx :
          /\ DOMAIN pending[t] = {r \in Row : holder[r] = t}
          /\ \A r \in DOMAIN pending[t] : pending[t][r] \in value[r]

\* t is on a cycle of the waits-for graph.  A transaction waits for one row at
\* a time, so the sets in which everybody waits for a member and is waited for
\* by a member are the unions of cycles.
OnCycle(t, WaitsFor(_, _)) ==
    \E S \in SUBSET Tx :
        /\ t \in S
        /\ \A u \in S : \E v \in S : WaitsFor(u, v)
        /\ \A v \in S : \E u \in S : WaitsFor(u, v)
=============================================================================
