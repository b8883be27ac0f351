-------------------------- MODULE SupplierPayments --------------------------
(***************************************************************************)
(* SuppliersService: recordCreditPayment, updateCreditPayment and          *)
(* deleteCreditPayment, of one supplier.  Each computes the due balance    *)
(* from one it has read, and writes it.                                    *)
(***************************************************************************)
EXTENDS Requests

CONSTANTS
    SupplierPayment,     \* the documents that are payments to or from the supplier
    OpeningSupplierDue

Due == <<"due">>
PaymentRow(p) == <<"payment", p>>
SupplierPaymentRows == {Due} \cup {PaymentRow(p) : p \in SupplierPayment}

\* serial is payment_number: the prefix of the direction it was made with, and a
\* number; it is unique.
NoPayment == [type |-> "none", n |-> 0, serial |-> <<"none", 0>>]

SupplierPaymentInitialRow(r) == IF r = Due THEN OpeningSupplierDue ELSE NoPayment

SeenPayment(t) == Sees(t, PaymentRow(source[t]))

\* dueDelta
DueChange(payment) ==
    CASE payment.type = "PAYMENT" -> -payment.n
      [] payment.type = "PAYOUT" -> payment.n
      [] OTHER -> 0

ReadForPayment(t) ==
    /\ At(t, "pay_supplier", "idle")
    /\ SeenPayment(t) = NoPayment
    /\ Reads(t, Sees(t, Due) + DueChange(task[t]), "number_payment")

\* The greatest number among payments of the type that have its prefix, plus one.
NextSerial(t, type) ==
    LET payments == {Sees(t, PaymentRow(p)) : p \in SupplierPayment}
        numbers == {p.serial[2] : p \in {q \in payments : q.type = type /\ q.serial[1] = type}}
    IN <<type, Max(numbers \cup {0}) + 1>>

NumberPayment(t) ==
    /\ pc[t] = "number_payment"
    /\ Reads(t, [due |-> read[t], serial |-> NextSerial(t, task[t].type)], "pay_supplier")

\* The unique index sees the numbers of open transactions too, and waits for them.
SerialTakers(t) ==
    {p \in SupplierPayment : /\ Sees(t, PaymentRow(p)).serial = read[t].serial
                             /\ p # source[t]}
SerialAwaited(t) ==
    \E u \in Tx \ {t} : \E r \in DOMAIN pending[u] :
        r[1] = "payment" /\ pending[u][r].serial = read[t].serial

PaySupplier(t) ==
    /\ pc[t] = "pay_supplier"
    /\ ~SerialAwaited(t)
    /\ SerialTakers(t) = {}
    /\ Writes(t, PaymentRow(source[t]) :> [type |-> task[t].type, n |-> task[t].n, serial |-> read[t].serial],
              "set_due")

SerialTaken(t) ==
    /\ pc[t] = "pay_supplier"
    /\ ~SerialAwaited(t)
    /\ SerialTakers(t) # {}
    /\ Throws(t, "number_taken")

SetDue(t) ==
    /\ pc[t] = "set_due"
    /\ Ends(t, Due :> read[t].due)

-----------------------------------------------------------------------------
(* update and delete: the payment is read before the transaction, the due  *)
(* balance in it                                                           *)

FindPayment(t) ==
    /\ pc[t] = "idle"
    /\ task[t].op \in {"edit_payment", "delete_payment"}
    /\ SeenPayment(t) # NoPayment
    /\ Reads(t, SeenPayment(t), "read_due")

DueWithBoth(t) == Sees(t, Due) + DueChange(task[t])

DueReplaced(t) == Sees(t, Due) - DueChange(read[t]) + DueChange(task[t])

\* A payment that is deleted becomes one of type "none".
ReadDue(t) ==
    /\ pc[t] = "read_due"
    /\ Reads(t, [due |-> DueReplaced(t)], task[t].op)

EditPayment(t) ==
    /\ pc[t] = "edit_payment"
    /\ SeenPayment(t) # NoPayment
    /\ Writes(t, PaymentRow(source[t]) :> [SeenPayment(t) EXCEPT !.type = task[t].type, !.n = task[t].n],
              "set_due")

DropPayment(t) ==
    /\ pc[t] = "delete_payment"
    /\ SeenPayment(t) # NoPayment
    /\ Writes(t, PaymentRow(source[t]) :> NoPayment, "set_due")

NoSuchPayment(t) ==
    /\ pc[t] \in {"edit_payment", "delete_payment"}
    /\ Lockable(t, PaymentRow(source[t]))
    /\ SeenPayment(t) = NoPayment
    /\ Throws(t, "failed")

SupplierPaymentStep(t) ==
    \/ ReadForPayment(t) \/ NumberPayment(t) \/ PaySupplier(t) \/ SerialTaken(t) \/ SetDue(t)
    \/ FindPayment(t) \/ ReadDue(t) \/ EditPayment(t) \/ DropPayment(t) \/ NoSuchPayment(t)
=============================================================================
