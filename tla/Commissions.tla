----------------------------- MODULE Commissions -----------------------------
(***************************************************************************)
(* BillingService.earnReferralCommission, and ReferralsService             *)
(* recordPayment of the commissions a referee has earned.                  *)
(***************************************************************************)
EXTENDS Requests

CONSTANTS
    RefereeOf   \* RefereeOf[x]: the document that is the referee of signup x

Signup == DOMAIN RefereeOf
SignupsOf(f) == {x \in Signup : RefereeOf[x] = f}

SignupRow(x) == <<"signup", x>>
RefereePayment(t) == <<"referee_payment", t>>   \* the signups t has paid
CommissionRows == {SignupRow(x) : x \in Signup} \cup {RefereePayment(t) : t \in Tx}

CommissionInitialRow(r) == IF r[1] = "signup" THEN "PENDING" ELSE {}

\* Called as a payment activates a subscription, its result awaited by nobody.
ReadForEarning(t) ==
    /\ At(t, "earn_commission", "idle")
    /\ Sees(t, SignupRow(source[t])) = "PENDING"
    /\ Reads(t, Nothing, "earn_commission")

EarnCommission(t) ==
    /\ pc[t] = "earn_commission"
    /\ Stores(t, SignupRow(source[t]) :> "EARNED", "committed")

AllOfReferee(t) == SignupsOf(source[t])

\* Those among the referee's that are EARNED now.
EarnedOf(t) == {x \in SignupsOf(source[t]) : Sees(t, SignupRow(x)) = "EARNED"}

ReadEarned(t) ==
    /\ At(t, "pay_commissions", "idle")
    /\ EarnedOf(t) # {}
    /\ Reads(t, EarnedOf(t), "pay_commissions")

\* They are marked whatever their status has become.
PayCommissions(t) ==
    /\ pc[t] = "pay_commissions"
    /\ Ends(t, RefereePayment(t) :> read[t] @@ [r \in {SignupRow(x) : x \in read[t]} |-> "PAID"])

CommissionStep(t) == ReadForEarning(t) \/ EarnCommission(t) \/ ReadEarned(t) \/ PayCommissions(t)
=============================================================================
