--------------------------- MODULE JournalVouchers ---------------------------
(***************************************************************************)
(* AccountingService: createVoucher, updateVoucher and deleteVoucher of a  *)
(* manual voucher, and the recurring vouchers, which a user or the daily   *)
(* job posts through createVoucher.  createVoucher is serializable: it     *)
(* sees the sequence as of its start, and starts again, at most three      *)
(* times in all, when another transaction has changed it.  And             *)
(* runDepreciation: every asset's charge for a month, as an entry and in   *)
(* the asset's accumulated depreciation, in two statements per asset with  *)
(* no transaction around them.                                             *)
(***************************************************************************)
EXTENDS Requests

CONSTANTS
    Journal,    \* the documents that are manual vouchers
    Recurring,  \* the documents that are recurring vouchers
    Today,      \* dates are numbered from 1, the first due date of each
    Month,      \* the documents that are months to depreciate
    Terms       \* Terms[a]: cost, residual value, life and method of the fixed asset a

Attempts == 3

NextDue(v) == <<"next_due", v>>
JournalRows == {NextDue(v) : v \in Recurring}
Deleted == 0
JournalInitialRow(r) == 1

VouchersOf(t, d) == {n \in VoucherNumber : Sees(t, Number(n)).source = d}

\* What createVoucher reads first, and what its caller has read before.
Attempt(t, k, due) == [attempt |-> k, sequence |-> Sees(t, Sequence), due |-> due]

Journalize(t) ==
    /\ At(t, "journal", "idle")
    /\ VouchersOf(t, source[t]) = {}
    /\ Reads(t, Attempt(t, 1, Deleted), "take_number")

Conflict(t) == Sees(t, Sequence) # read[t].sequence

\* The increment, whose result tells the number.
TakeNumber(t) ==
    /\ pc[t] = "take_number"
    /\ ~Conflict(t)
    /\ Writes(t, Sequence :> Sees(t, Sequence) + 1, "new_voucher")

\* P2034: all over again, or enough.
Conflicts(t) ==
    /\ pc[t] = "take_number"
    /\ Lockable(t, Sequence)
    /\ Conflict(t)
    /\ IF read[t].attempt < Attempts
       THEN Reads(t, Attempt(t, read[t].attempt + 1, read[t].due), "take_number")
       ELSE Throws(t, "failed")

\* The number is free: whoever used one had incremented the sequence first.  A
\* recurring voucher goes on after the commit.
NewVoucher(t) ==
    /\ pc[t] = "new_voucher"
    /\ read[t].sequence \in VoucherNumber
    /\ Sees(t, Number(read[t].sequence)) = NoVoucher
    /\ CommitsTo(t, Number(read[t].sequence) :> [source |-> source[t], amount |-> task[t].n],
                 IF source[t] \in Recurring THEN "advance" ELSE "committed")

-----------------------------------------------------------------------------
(* updateVoucher and deleteVoucher, of vouchers no module has posted *)

FindVoucher(t) ==
    /\ pc[t] = "idle"
    /\ task[t].op \in {"edit_journal", "delete_journal"}
    /\ \E n \in VouchersOf(t, source[t]) : Reads(t, n, task[t].op)

Found(t) == Sees(t, Number(read[t])).source = source[t]

EditVoucher(t) ==
    /\ pc[t] = "edit_journal"
    /\ Found(t)
    /\ Ends(t, Number(read[t]) :> [source |-> source[t], amount |-> task[t].n])

DropVoucher(t) ==
    /\ pc[t] = "delete_journal"
    /\ Found(t)
    /\ Ends(t, Number(read[t]) :> NoVoucher)

VoucherGone(t) ==
    /\ pc[t] \in {"edit_journal", "delete_journal"}
    /\ Lockable(t, Number(read[t]))
    /\ ~Found(t)
    /\ Throws(t, "failed")

-----------------------------------------------------------------------------
(* Recurring vouchers *)

SeenDue(t) == Sees(t, NextDue(source[t]))

\* The job's list of what is due; it does not ask again.
FindDue(t) ==
    /\ At(t, "run_due", "idle")
    /\ SeenDue(t) # Deleted
    /\ SeenDue(t) <= Today
    /\ Reads(t, Nothing, "read_template")

\* postRecurringVoucher of the job, or of a user, who asks for no date.
ReadTemplate(t) ==
    /\ \/ At(t, "run_due", "read_template")
       \/ At(t, "post_recurring", "idle")
    /\ IF SeenDue(t) = Deleted
       THEN Throws(t, "refused")
       ELSE Reads(t, Attempt(t, 1, SeenDue(t)), "take_number")

DueAgain(t) == read[t].due

FollowingDate(t) == read[t].due + 1

\* Another statement, after the commit of the voucher.
Advance(t) ==
    /\ pc[t] = "advance"
    /\ SeenDue(t) # Deleted
    /\ Stores(t, NextDue(source[t]) :> FollowingDate(t), "committed")

TemplateGone(t) ==
    /\ pc[t] = "advance"
    /\ SeenDue(t) = Deleted
    /\ Throws(t, "failed")

DeleteTemplate(t) ==
    /\ At(t, "delete_recurring", "idle")
    /\ SeenDue(t) # Deleted
    /\ Stores(t, NextDue(source[t]) :> Deleted, "committed")

JournalStep(t) ==
    \/ Journalize(t) \/ TakeNumber(t) \/ Conflicts(t) \/ NewVoucher(t)
    \/ FindVoucher(t) \/ EditVoucher(t) \/ DropVoucher(t) \/ VoucherGone(t)
    \/ FindDue(t) \/ ReadTemplate(t) \/ Advance(t) \/ TemplateGone(t) \/ DeleteTemplate(t)

-----------------------------------------------------------------------------
(* Fixed assets *)

Asset == DOMAIN Terms
Accumulated(a) == <<"accumulated", a>>
ChargeEntry(a, m) == <<"entry", a, m>>   \* the AssetDepreciationEntry of month m, or 0
DepreciationRows ==
    {Accumulated(a) : a \in Asset} \cup {ChargeEntry(a, m) : a \in Asset, m \in Month}

Rounded(n, d) == (2 * n + d) \div (2 * d)
Depreciable(a) == Terms[a].cost - Terms[a].residual

ChargeInFull(a, accumulated) ==
    IF Terms[a].method = "STRAIGHT_LINE"
    THEN Rounded(Depreciable(a), Terms[a].life)
    ELSE Rounded(2 * (Terms[a].cost - accumulated), Terms[a].life)

\* Never below the residual value, of an asset as it was read.
Charge(a, accumulated) ==
    Min({ChargeInFull(a, accumulated), Depreciable(a) - accumulated})

\* All assets are read at once; each is then dealt with in turn.
FindAssets(t) ==
    /\ At(t, "depreciate", "idle")
    /\ Reads(t, [seen |-> [a \in Asset |-> Sees(t, Accumulated(a))], left |-> Asset, charge |-> << >>],
             "next_asset")

ChargeOf(t, a) == Charge(a, read[t].seen[a])

\* An asset that has its entry, or is written off, is skipped.
NextAsset(t) ==
    /\ pc[t] = "next_asset"
    /\ \E a \in read[t].left :
          LET skipped == Sees(t, ChargeEntry(a, source[t])) # 0 \/ ChargeOf(t, a) <= 0
          IN Reads(t, [read[t] EXCEPT !.left = @ \ {a}, !.charge = IF skipped THEN << >> ELSE a :> ChargeOf(t, a)],
                   IF skipped THEN "next_asset" ELSE "enter")

TheAsset(t) == CHOOSE a \in DOMAIN read[t].charge : TRUE
TheCharge(t) == read[t].charge[TheAsset(t)]
TheEntry(t) == ChargeEntry(TheAsset(t), source[t])

EnterCharge(t) ==
    /\ pc[t] = "enter"
    /\ Sees(t, TheEntry(t)) = 0
    /\ Stores(t, TheEntry(t) :> TheCharge(t), "accumulate")

\* The unique index, on an entry made since: the rest of the assets wait.
ChargeEntered(t) ==
    /\ pc[t] = "enter"
    /\ Sees(t, TheEntry(t)) # 0
    /\ Throws(t, "refused")

Accumulate(t) ==
    /\ pc[t] = "accumulate"
    /\ Stores(t, Accumulated(TheAsset(t)) :> Sees(t, Accumulated(TheAsset(t))) + TheCharge(t), "next_asset")

FinishDepreciation(t) ==
    /\ pc[t] = "next_asset"
    /\ read[t].left = {}
    /\ Stores(t, << >>, "committed")

DepreciationStep(t) ==
    \/ FindAssets(t) \/ NextAsset(t) \/ EnterCharge(t) \/ ChargeEntered(t)
    \/ Accumulate(t) \/ FinishDepreciation(t)
=============================================================================
