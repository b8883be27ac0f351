----------------------------- MODULE SmsCredits -----------------------------
(***************************************************************************)
(* SmsCreditService and SmsService.sendSms: one tenant's prepaid balance   *)
(* and its ledger.  Nothing runs in a transaction: a step is a statement,  *)
(* committed when it returns, and a request may die between two of them.   *)
(* Sends and confirmed purchases run concurrently; each request runs once. *)
(***************************************************************************)
EXTENDS Integers, Sequences, SequencesExt, FiniteSetsExt

CONSTANTS
    Request,      \* the sends and confirmations
    Segments,     \* the credits a send can cost
    Package,      \* the credits a purchase can bring
    Opening,      \* the balance at the start
    MaxCrashes    \* bound: requests that die half-way

ASSUME CreditsAssumption ==
    Segments \subseteq Nat \ {0} /\ Package \subseteq Nat \ {0} /\ Opening \in Nat

VARIABLES
    balance,      \* Tenant.sms_credits
    ledger,       \* the SmsTransaction rows, in the order they were created
    completed,    \* the references with a SMS_TOPUP_CONFIRMED event
    pc,           \* pc[r]: the statement request r is about to run
    credits,      \* credits[r]: what it adds to the balance, negative for a send
    read,         \* read[r]: the balance it has read
    handed,       \* credits' worth of messages handed to the SMS gateway
    crashes

vars == <<balance, ledger, completed, pc, credits, read, handed, crashes>>

Init ==
    /\ balance = Opening
    /\ ledger = << >>
    /\ completed = {}
    /\ pc = [r \in Request |-> "idle"]
    /\ credits = [r \in Request |-> 0]
    /\ read = [r \in Request |-> 0]
    /\ handed = 0
    /\ crashes = 0

Done == {"sent", "refused", "confirmed", "dead"}

Goto(r, statement) == pc' = [pc EXCEPT ![r] = statement]

-----------------------------------------------------------------------------
(* sendSms, from consume on *)

EnoughAnyway(cost) == TRUE
Enough(cost) == balance >= cost

\* The conditional decrement matched the tenant.
Decrement(r) ==
    /\ pc[r] = "idle"
    /\ \E cost \in Segments :
          /\ Enough(cost)
          /\ balance' = balance - cost
          /\ credits' = [credits EXCEPT ![r] = -cost]
    /\ Goto(r, "read balance")
    /\ UNCHANGED <<ledger, completed, read, handed, crashes>>

\* It did not: the message is skipped.
Refuse(r) ==
    /\ pc[r] = "idle"
    /\ \E cost \in Segments : ~Enough(cost)
    /\ Goto(r, "refused")
    /\ UNCHANGED <<balance, ledger, completed, credits, read, handed, crashes>>

ReadBalance(r) ==
    /\ pc[r] = "read balance"
    /\ read' = [read EXCEPT ![r] = balance]
    /\ Goto(r, "usage")
    /\ UNCHANGED <<balance, ledger, completed, credits, handed, crashes>>

EntryWithoutSign(r) ==
    [credits |-> IF credits[r] < 0 THEN -credits[r] ELSE credits[r], balanceAfter |-> read[r]]

\* A ledger entry, with the balance that was read.
EntryOf(r) == [credits |-> credits[r], balanceAfter |-> read[r]]

RecordUsage(r) ==
    /\ pc[r] = "usage"
    /\ ledger' = Append(ledger, EntryOf(r))
    /\ Goto(r, "send")
    /\ UNCHANGED <<balance, completed, credits, read, handed, crashes>>

\* Whatever the gateway answers, the send is reported as sent.
Send(r) ==
    /\ pc[r] = "send"
    /\ handed' = handed - credits[r]
    /\ Goto(r, "sent")
    /\ UNCHANGED <<balance, ledger, completed, credits, read, crashes>>

-----------------------------------------------------------------------------
(* confirmPurchase *)

\* grantCredits: the increment returns the balance it leaves.
Increment(r) ==
    /\ pc[r] = "idle"
    /\ \E bought \in Package :
          /\ balance' = balance + bought
          /\ read' = [read EXCEPT ![r] = balance + bought]
          /\ credits' = [credits EXCEPT ![r] = bought]
    /\ Goto(r, "purchase")
    /\ UNCHANGED <<ledger, completed, handed, crashes>>

RecordPurchase(r) ==
    /\ pc[r] = "purchase"
    /\ ledger' = Append(ledger, EntryOf(r))
    /\ Goto(r, "complete")
    /\ UNCHANGED <<balance, completed, credits, read, handed, crashes>>

Complete(r) ==
    /\ pc[r] = "complete"
    /\ completed' = completed \cup {r}
    /\ Goto(r, "confirmed")
    /\ UNCHANGED <<balance, ledger, credits, read, handed, crashes>>

-----------------------------------------------------------------------------
\* The process dies, or a statement fails: nothing is undone.
Die(r) ==
    /\ pc[r] \notin {"idle"} \cup Done
    /\ crashes < MaxCrashes
    /\ crashes' = crashes + 1
    /\ Goto(r, "dead")
    /\ UNCHANGED <<balance, ledger, completed, credits, read, handed>>

Next ==
    \E r \in Request :
        \/ Decrement(r) \/ Refuse(r) \/ ReadBalance(r) \/ RecordUsage(r) \/ Send(r)
        \/ Increment(r) \/ RecordPurchase(r) \/ Complete(r)
        \/ Die(r)

Spec == Init /\ [][Next]_vars

-----------------------------------------------------------------------------
Entered == FoldSeq(LAMBDA entry, sum : sum + entry.credits, 0, ledger)
Unentered == {r \in Request : pc[r] \in {"read balance", "usage", "purchase"}}

\* As long as no request dies, the ledger and the requests about to write to
\* it account for every credit of the balance, however purchases and sends
\* interleave (sms-credit.service.ts:94-121, 241-257).
LedgerExplainsBalance ==
    crashes = 0
        => balance = Opening + Entered + MapThenSumSet(LAMBDA r : credits[r], Unentered)

Bought == MapThenSumSet(LAMBDA r : IF credits[r] > 0 THEN credits[r] ELSE 0, Request)

\* No message is handed to the gateway that was not paid for in credits, even
\* when the sender dies half-way and others race for what is left
\* (sms.service.ts:57-70).
SentWasPaid == handed <= Opening + Bought
=============================================================================
