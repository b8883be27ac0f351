---------------------------- MODULE FundTransfers ----------------------------
(***************************************************************************)
(* FundTransfersService: initiate and receive, each one transaction, which *)
(* numbers its voucher from a sequence of its own in two statements.       *)
(***************************************************************************)
EXTENDS Requests

CONSTANTS
    Fund,     \* the documents that are fund transfers
    MaxFunds  \* bound: the numbers of their vouchers

FundRow(f) == <<"fund", f>>
FundSequence == <<"fund_sequence">>
FundVoucher(n) == <<"fund_voucher", n>>
FundNumber == 1 .. MaxFunds
FundRows ==
    {FundSequence} \cup {FundRow(f) : f \in Fund} \cup {FundVoucher(n) : n \in FundNumber}

NoFund == [status |-> "none", sent |-> 0, arrived |-> 0]
NoFundVoucher == [fund |-> "none", kind |-> "none"]

FundInitialRow(r) ==
    CASE r = FundSequence -> 1
      [] r[1] = "fund" -> NoFund
      [] OTHER -> NoFundVoucher

SeenFund(t) == Sees(t, FundRow(source[t]))

\* The transfer, INITIATED until the voucher is there.
Initiate(t) ==
    /\ At(t, "send_funds", "idle")
    /\ SeenFund(t) = NoFund
    /\ Writes(t, FundRow(source[t]) :> [NoFund EXCEPT !.status = "INITIATED"], "fund_number")

ReceivableUnlessCancelled(transfer) == transfer.sent # 0

Receivable(transfer) ==
    /\ transfer.status \notin {"RECEIVED", "CANCELLED"}
    /\ transfer.sent # 0

\* The transfer is read without a lock.
ReadForReceipt(t) ==
    /\ At(t, "receive_funds", "idle")
    /\ SeenFund(t) # NoFund
    /\ Receivable(SeenFund(t))
    /\ Reads(t, Nothing, "fund_number")

ReadFundNumber(t) ==
    /\ pc[t] = "fund_number"
    /\ Reads(t, Sees(t, FundSequence), "fund_increment")

IncrementFundSequence(t) ==
    /\ pc[t] = "fund_increment"
    /\ Writes(t, FundSequence :> Sees(t, FundSequence) + 1, "fund_voucher")

FundNumberFree(t) == Sees(t, FundVoucher(read[t])) = NoFundVoucher

InsertFundVoucher(t) ==
    /\ pc[t] = "fund_voucher"
    /\ read[t] \in FundNumber
    /\ FundNumberFree(t)
    /\ Writes(t, FundVoucher(read[t]) :> [fund |-> source[t], kind |-> task[t].op], "fund_status")

FundNumberTaken(t) ==
    /\ pc[t] = "fund_voucher"
    /\ Lockable(t, FundVoucher(read[t]))
    /\ ~FundNumberFree(t)
    /\ Throws(t, "number_taken")

\* The status, and the voucher it came with.
SetFundStatus(t) ==
    /\ pc[t] = "fund_status"
    /\ Ends(t, FundRow(source[t]) :>
                 IF task[t].op = "send_funds"
                 THEN [SeenFund(t) EXCEPT !.status = "IN_TRANSIT", !.sent = read[t]]
                 ELSE [SeenFund(t) EXCEPT !.status = "RECEIVED", !.arrived = read[t]])

FundStep(t) ==
    \/ Initiate(t) \/ ReadForReceipt(t) \/ ReadFundNumber(t) \/ IncrementFundSequence(t)
    \/ InsertFundVoucher(t) \/ FundNumberTaken(t) \/ SetFundStatus(t)
=============================================================================
