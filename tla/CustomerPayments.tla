-------------------------- MODULE CustomerPayments --------------------------
(***************************************************************************)
(* CustomersService: the credit accounts of customers.  Payments are     *)
(* recorded, corrected and deleted; each has its voucher in the accounts,  *)
(* and the customer's due_balance is written with every one of them.       *)
(* Requests run concurrently; each runs once.  A payout is a payment of    *)
(* the other sign and is not told apart.  A sale on credit writes neither  *)
(* the due_balance nor a ledger entry, and is no step here.                *)
(***************************************************************************)
EXTENDS Posting, FiniteSetsExt, Functions

CONSTANTS
    Amount,      \* the amounts customers pay
    CustomerOf,  \* CustomerOf[s]: the customer payment s is of
    OpeningDue   \* each due_balance before the payments

VARIABLES
    old,         \* old[t]: the payment's amount, as first read
    due,         \* due[t]: the customer's due_balance, as first read
    overlapped   \* two requests were being served at once (history)

vars == <<dbVars, postingVars, old, due, overlapped>>

Buyer == Range(CustomerOf)
Customer(c) == <<"customer", c>>
Payment(s) == <<"payment", s>>
NoPayment == 0

ASSUME RowAssumption ==
    Row = PostingRows \cup {Customer(c) : c \in Buyer} \cup {Payment(s) : s \in Source}
ASSUME AmountAssumption ==
    /\ Amount \subseteq Nat \ {0}
    /\ CustomerOf \in [Source -> Buyer] /\ IsFiniteSet(Source)
    /\ OpeningDue \in Int

InitialRow(r) ==
    CASE r \in PostingRows -> PostingInitialRow(r)
      [] r \in {Customer(c) : c \in Buyer} -> OpeningDue
      [] OTHER -> NoPayment

Init ==
    /\ DbInit([r \in Row |-> InitialRow(r)])
    /\ PostingInit
    /\ old = [t \in Tx |-> 0]
    /\ due = [t \in Tx |-> 0]
    /\ overlapped = FALSE

Done == {"committed", "failed", "number_taken"}

SeenPayment(t) == Sees(t, Payment(source[t]))
Payer(t) == Customer(CustomerOf[source[t]])

-----------------------------------------------------------------------------
(* recordCreditPayment *)

\* The balance is read before the transaction starts.  The payment gets a new
\* id: no request has been about it.
ReadForRecord(t) ==
    /\ pc[t] = "idle"
    /\ \A u \in Tx : source[u] = source[t] => pc[u] = "idle"
    /\ \E a \in Amount : amount' = [amount EXCEPT ![t] = a]
    /\ due' = [due EXCEPT ![t] = Sees(t, Payer(t))]
    /\ Goto(t, "insert")
    /\ UNCHANGED <<dbVars, source, found, number, ruleActive, old>>

InsertPayment(t) ==
    /\ pc[t] = "insert"
    /\ WriteRow(t, Payment(source[t]), amount[t])
    /\ Goto(t, "balance")
    /\ UNCHANGED <<locals, old, due>>

(* updateCreditPayment, deleteCreditPayment *)

\* amount[t] is the corrected amount, or NoPayment to delete.
ReadForChange(t) ==
    /\ pc[t] = "idle"
    /\ SeenPayment(t) # NoPayment
    /\ \E a \in Amount \cup {NoPayment} : amount' = [amount EXCEPT ![t] = a]
    /\ old' = [old EXCEPT ![t] = SeenPayment(t)]
    /\ Goto(t, "customer")
    /\ UNCHANGED <<dbVars, source, found, number, ruleActive, due>>

ReadCustomer(t) ==
    /\ pc[t] = "customer"
    /\ due' = [due EXCEPT ![t] = Sees(t, Payer(t))]
    /\ Goto(t, "void")
    /\ UNCHANGED <<dbVars, locals, old>>

ChangePayment(t) ==
    /\ pc[t] = "voided"
    /\ SeenPayment(t) # NoPayment
    /\ WriteRow(t, Payment(source[t]), amount[t])
    /\ Goto(t, "balance")
    /\ UNCHANGED <<locals, old, due>>

PaymentGone(t) ==
    /\ pc[t] = "voided"
    /\ Lockable(t, Payment(source[t]))
    /\ SeenPayment(t) = NoPayment
    /\ Fail(t, "failed")
    /\ UNCHANGED <<old, due>>

-----------------------------------------------------------------------------
(* All three end alike. *)

BalanceWithoutReversal(t) == due[t] - amount[t]

\* The balance to write: what was read, the old amount reversed, the new one
\* applied.
Balance(t) == due[t] + old[t] - amount[t]

WriteBalance(t) ==
    /\ pc[t] = "balance"
    /\ WriteRow(t, Payer(t), Balance(t))
    /\ Goto(t, IF amount[t] = NoPayment THEN "commit" ELSE "post")
    /\ UNCHANGED <<locals, old, due>>

Commit(t) ==
    /\ pc[t] = "commit"
    /\ CommitTx(t)
    /\ Goto(t, "committed")
    /\ UNCHANGED <<locals, old, due>>

\* A timeout, a deadlock's victim, or the end of the process.
Abort(t) ==
    /\ pc[t] \notin {"idle", "retry"} \cup Done
    /\ Fail(t, "failed")
    /\ UNCHANGED <<old, due>>

Serve ==
    \/ \E t \in Tx :
        \/ ReadForRecord(t) \/ InsertPayment(t)
        \/ ReadForChange(t) \/ ReadCustomer(t) \/ ChangePayment(t) \/ PaymentGone(t)
        \/ WriteBalance(t) \/ Commit(t) \/ Abort(t)
        \/ PostingStep(t) /\ UNCHANGED <<old, due>>
        \/ ReadForRetry(t) /\ UNCHANGED <<old, due>>
    \/ SwitchRule /\ UNCHANGED <<old, due>>

\* Not a part of the code: remembers whether requests have ever overlapped.
Watch ==
    overlapped' = (overlapped \/ \E t, u \in Tx :
                                    t # u /\ {pc'[t], pc'[u]} \cap ({"idle"} \cup Done) = {})

Next == Serve /\ Watch

Spec == Init /\ [][Next]_vars

-----------------------------------------------------------------------------
(* The tables, as anyone outside a transaction reads them. *)

DueBalance(c) == committed[Customer(c)]
Paid(s) == committed[Payment(s)]
EventOf(s) == committed[Event(s)]
VoucherAt(n) == committed[Number(n)]
PaidBy(c) == MapThenSumSet(Paid, {s \in Source : CustomerOf[s] = c})

\* Corrections, deletions and retries race, and still every payment on the
\* books has its posting event, a posted event has a voucher of the payment's
\* amount, and a voucher has the payment it is for: none is orphaned, doubled
\* or left at an old amount (updateCreditPayment, customers.service.ts:530-589,
\* with posting.utils.ts:126-314).
VouchersMatchPayments ==
    /\ \A s \in Source :
          /\ Paid(s) = NoPayment <=> EventOf(s) = NoEvent
          /\ EventOf(s).status = "posted" <=> EventOf(s).voucher # NoNumber
          /\ EventOf(s).voucher # NoNumber
                => VoucherAt(EventOf(s).voucher) = [source |-> s, amount |-> Paid(s)]
    /\ \A n \in VoucherNumber :
          VoucherAt(n) # NoVoucher => EventOf(VoucherAt(n).source).voucher = n

-----------------------------------------------------------------------------
(* What holds as long as requests do not overlap: the balance and the number  *)
(* they have read are then the last ones written.                             *)

\* The due balance is the opening balance less the payments on the books,
\* whatever was recorded, corrected, deleted or rolled back (customers.service.ts:540-581).
DueIsExplained == ~overlapped => \A c \in Buyer : DueBalance(c) = OpeningDue - PaidBy(c)
=============================================================================
