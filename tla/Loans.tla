-------------------------------- MODULE Loans --------------------------------
(***************************************************************************)
(* LoansService: what is lent or borrowed, its repayments, and its status. *)
(* A payment is checked against what was repaid before its transaction.    *)
(***************************************************************************)
EXTENDS Requests

CONSTANTS
    Loan,       \* the documents that are loans
    LoanOf,     \* LoanOf[p]: the loan that payment p repays
    Principal   \* Principal[l]: of a loan there is at the start, or 0

LoanPayment == DOMAIN LoanOf
PaymentsOf(l) == {p \in LoanPayment : LoanOf[p] = l}

LoanRow(l) == <<"loan", l>>
Repaid(p) == <<"repaid", p>>   \* the amount of the LoanPayment, or 0
LoanRows == {LoanRow(l) : l \in Loan} \cup {Repaid(p) : p \in LoanPayment}

NoLoan == [status |-> "none", principal |-> 0]
NewLoan(principal) == [status |-> "ACTIVE", principal |-> principal]

LoanInitialRow(r) ==
    IF r[1] = "loan"
    THEN IF Principal[r[2]] = 0 THEN NoLoan ELSE NewLoan(Principal[r[2]])
    ELSE 0

LoanFor(t) == IF source[t] \in LoanPayment THEN LoanOf[source[t]] ELSE source[t]
SeenLoan(t) == Sees(t, LoanRow(LoanFor(t)))
SeenRepaid(t) == MapThenSumSet(LAMBDA p : Sees(t, Repaid(p)), PaymentsOf(LoanFor(t)))

\* The loan was deleted since it was read: an update or an insert fails.
LoanGone(t) ==
    /\ pc[t] \in {"repay", "reopen", "edit_loan"}
    /\ Lockable(t, LoanRow(LoanFor(t)))
    /\ SeenLoan(t) = NoLoan
    /\ Throws(t, "failed")

-----------------------------------------------------------------------------
(* createLoan, updateLoan, deleteLoan *)

Lend(t) ==
    /\ At(t, "lend", "idle")
    /\ SeenLoan(t) = NoLoan
    /\ ReadsToPost(t, Nothing, task[t].n, "lend")

InsertLoan(t) ==
    /\ pc[t] = "lend"
    /\ Writes(t, LoanRow(source[t]) :> NewLoan(task[t].n), "post")

FindLoan(t) ==
    /\ pc[t] = "idle"
    /\ task[t].op \in {"edit_loan", "delete_loan"}
    /\ SeenLoan(t) # NoLoan
    /\ Reads(t, Nothing, task[t].op)

EditLoan(t) ==
    /\ pc[t] = "edit_loan"
    /\ SeenLoan(t) # NoLoan
    /\ Stores(t, LoanRow(source[t]) :> [status |-> task[t].status, principal |-> task[t].n], "committed")

\* Its payments go with it.
DeleteLoan(t) ==
    /\ pc[t] = "delete_loan"
    /\ Stores(t, LoanRow(source[t]) :> NoLoan @@ [r \in {Repaid(p) : p \in PaymentsOf(source[t])} |-> 0],
              "committed")

-----------------------------------------------------------------------------
(* addPayment *)

ReadForRepayment(t) ==
    /\ At(t, "repay", "idle")
    /\ SeenLoan(t) # NoLoan
    /\ Reads(t, SeenLoan(t), "total_paid")

CoversWithoutPayments(loan, paid, n) == n <= loan.principal

Covers(loan, paid, n) == n <= loan.principal - paid

CheckOutstanding(t) ==
    /\ pc[t] = "total_paid"
    /\ IF Covers(read[t], SeenRepaid(t), task[t].n)
       THEN ReadsToPost(t, SeenRepaid(t) + task[t].n >= read[t].principal /\ read[t].status # "CLOSED",
                        task[t].n, "repay")
       ELSE Throws(t, "refused")

\* The payment, and the status of the loan once it is repaid.
Repay(t) ==
    /\ pc[t] = "repay"
    /\ SeenLoan(t) # NoLoan
    /\ Writes(t, Repaid(source[t]) :> task[t].n
                    @@ IF read[t] THEN LoanRow(LoanFor(t)) :> [SeenLoan(t) EXCEPT !.status = "CLOSED"]
                       ELSE << >>,
              "post")

FinishLoan(t) == pc[t] = "commit" /\ task[t].op \in {"lend", "repay"} /\ Ends(t, << >>)

-----------------------------------------------------------------------------
(* deletePayment: two statements, with no transaction around them *)

ReadForUnpaying(t) ==
    /\ At(t, "unpay", "idle")
    /\ Sees(t, Repaid(source[t])) # 0
    /\ Reads(t, Nothing, "unpay")

DeletePayment(t) ==
    /\ pc[t] = "unpay"
    /\ Sees(t, Repaid(source[t])) # 0
    /\ Stores(t, Repaid(source[t]) :> 0, "reopen")

PaymentGone(t) ==
    /\ pc[t] = "unpay"
    /\ Sees(t, Repaid(source[t])) = 0
    /\ Throws(t, "failed")

Reopen(t) ==
    /\ pc[t] = "reopen"
    /\ SeenLoan(t) # NoLoan
    /\ Stores(t, LoanRow(LoanFor(t)) :> [SeenLoan(t) EXCEPT !.status = "ACTIVE"], "committed")

LoanStep(t) ==
    \/ Lend(t) \/ InsertLoan(t) \/ FindLoan(t) \/ EditLoan(t) \/ DeleteLoan(t) \/ LoanGone(t)
    \/ ReadForRepayment(t) \/ CheckOutstanding(t) \/ Repay(t) \/ FinishLoan(t)
    \/ ReadForUnpaying(t) \/ DeletePayment(t) \/ PaymentGone(t) \/ Reopen(t)
=============================================================================
