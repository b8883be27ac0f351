------------------------------ MODULE Posting ------------------------------
(***************************************************************************)
(* accounting/posting.utils.ts: the statements by which a business         *)
(* document posts its voucher (autoPostFromRules, generateVoucherNumber)   *)
(* and takes it back (voidAutoPostedVoucher), inside the transaction of    *)
(* the document's own service; and retryPostingException.                  *)
(*                                                                         *)
(* Rows: the PostingEvent of each source document, unique by its           *)
(* idempotency key; the vouchers by voucher_number, unique per tenant; and *)
(* the VoucherSequence.  A service's module gives the statements before    *)
(* and after; it enters here at pc "post" or "void" and resumes at         *)
(* "commit" or "voided".                                                   *)
(***************************************************************************)
EXTENDS Integers, ReadCommitted

CONSTANTS
    Source,      \* the documents that post
    MaxNumber    \* bound: the voucher numbers

ASSUME NumberAssumption == MaxNumber \in Nat

VARIABLES
    pc,          \* pc[t]: the statement request t is about to run
    source,      \* source[t]: the document it is about
    amount,      \* amount[t]: the amount to post
    found,       \* found[t]: the event voidAutoPostedVoucher or a retry has read
    number,      \* number[t]: the voucher number it has read from the sequence
    ruleActive   \* an active posting rule matches the documents

postingVars == <<pc, source, amount, found, number, ruleActive>>
locals == <<source, amount, found, number, ruleActive>>

Event(s) == <<"event", s>>
Number(n) == <<"number", n>>
Sequence == <<"sequence">>
VoucherNumber == 1 .. MaxNumber
NoNumber == 0

PostingRows ==
    {Sequence} \cup {Event(s) : s \in Source} \cup {Number(n) : n \in VoucherNumber}

\* An event's id is that of the request that created it, which creates one.
NoEvent == [status |-> "none", voucher |-> NoNumber, id |-> NoTx]
NoVoucher == [source |-> "none", amount |-> 0]

PostingInitialRow(r) ==
    CASE r = Sequence -> 1
      [] r \in {Event(s) : s \in Source} -> NoEvent
      [] OTHER -> NoVoucher

PostingInit ==
    /\ pc = [t \in Tx |-> "idle"]
    /\ source \in [Tx -> Source]
    /\ amount = [t \in Tx |-> 0]
    /\ found = [t \in Tx |-> NoEvent]
    /\ number = [t \in Tx |-> NoNumber]
    /\ ruleActive \in BOOLEAN

Goto(t, statement) == pc' = [pc EXCEPT ![t] = statement]

Fail(t, outcome) ==
    /\ RollbackTx(t)
    /\ Goto(t, outcome)
    /\ UNCHANGED locals

SeenEvent(t) == Sees(t, Event(source[t]))

-----------------------------------------------------------------------------
(* autoPostFromRules *)

\* An event that is already posted is returned; another one is taken up
\* again; and a document without one gets its own.
TakeEvent(t) ==
    /\ pc[t] = "post"
    /\ IF SeenEvent(t).status = "posted"
       THEN /\ Goto(t, "commit")
            /\ UNCHANGED dbVars
       ELSE /\ WriteRow(t, Event(source[t]),
                        [SeenEvent(t) EXCEPT !.status = "pending",
                                             !.id = IF @ = NoTx THEN t ELSE @])
            /\ Goto(t, "rule")
    /\ UNCHANGED locals

\* No active rule: the event says so, and the document goes ahead.
SkipPosting(t) ==
    /\ pc[t] = "rule"
    /\ ~ruleActive
    /\ WriteRow(t, Event(source[t]), [SeenEvent(t) EXCEPT !.status = "skipped"])
    /\ Goto(t, "commit")
    /\ UNCHANGED locals

\* generateVoucherNumber: an upsert with nothing to update only reads...
ReadNumber(t) ==
    /\ pc[t] = "rule"
    /\ ruleActive
    /\ number' = [number EXCEPT ![t] = Sees(t, Sequence)]
    /\ Goto(t, "increment")
    /\ UNCHANGED <<dbVars, source, amount, found, ruleActive>>

\* ...and the next statement increments whatever the sequence is by then.
IncrementSequence(t) ==
    /\ pc[t] = "increment"
    /\ WriteRow(t, Sequence, Sees(t, Sequence) + 1)
    /\ Goto(t, "voucher")
    /\ UNCHANGED locals

NumberFree(t) == Sees(t, Number(number[t])) = NoVoucher

\* The voucher and the posted event; t already has the event's lock.
InsertVoucher(t) ==
    /\ pc[t] = "voucher"
    /\ number[t] \in VoucherNumber
    /\ NumberFree(t)
    /\ WriteRows(t, [r \in {Number(number[t]), Event(source[t])} |->
                        IF r = Event(source[t])
                        THEN [SeenEvent(t) EXCEPT !.status = "posted", !.voucher = number[t]]
                        ELSE [source |-> source[t], amount |-> amount[t]]])
    /\ Goto(t, "commit")
    /\ UNCHANGED locals

\* The unique index on voucher_number refuses the insert.
NumberTaken(t) ==
    /\ pc[t] = "voucher"
    /\ number[t] \in VoucherNumber
    /\ Lockable(t, Number(number[t]))
    /\ ~NumberFree(t)
    /\ Fail(t, "number_taken")

-----------------------------------------------------------------------------
(* voidAutoPostedVoucher *)

FindPosted(t) ==
    /\ pc[t] = "void"
    /\ IF SeenEvent(t) = NoEvent
       THEN Goto(t, "voided") /\ UNCHANGED found
       ELSE Goto(t, "delete") /\ found' = [found EXCEPT ![t] = SeenEvent(t)]
    /\ UNCHANGED <<dbVars, source, amount, number, ruleActive>>

StillThere(t) == SeenEvent(t).id = found[t].id

EventRows(t) ==
    {Event(source[t])} \cup
        {Number(n) : n \in {found[t].voucher} \ {NoNumber}}

DeleteEventOnly(t) ==
    /\ pc[t] = "delete"
    /\ StillThere(t)
    /\ WriteRow(t, Event(source[t]), NoEvent)
    /\ Goto(t, "voided")
    /\ UNCHANGED locals

\* The voucher found, then its event.
DeletePosted(t) ==
    /\ pc[t] = "delete"
    /\ StillThere(t)
    /\ WriteRows(t, [r \in EventRows(t) |-> IF r = Event(source[t]) THEN NoEvent ELSE NoVoucher])
    /\ Goto(t, "voided")
    /\ UNCHANGED locals

\* Another request deleted them first: "record to delete does not exist".
DeletedMeanwhile(t) ==
    /\ pc[t] = "delete"
    /\ Lockable(t, Event(source[t]))
    /\ ~StillThere(t)
    /\ Fail(t, "failed")

-----------------------------------------------------------------------------
(* retryPostingException: a read and an update, each a statement of its own *)

ReadForRetry(t) ==
    /\ pc[t] = "idle"
    /\ SeenEvent(t).status \notin {"none", "posted"}
    /\ found' = [found EXCEPT ![t] = SeenEvent(t)]
    /\ Goto(t, "retry")
    /\ UNCHANGED <<dbVars, source, amount, number, ruleActive>>

UpdateForRetry(t) ==
    /\ pc[t] = "retry"
    /\ IF StillThere(t)
       THEN /\ Autocommit([r \in {Event(source[t])} |->
                              [committed[r] EXCEPT !.status = "pending"]])
            /\ Goto(t, "committed")
       ELSE /\ holder[Event(source[t])] = NoTx
            /\ Goto(t, "failed")
            /\ UNCHANGED dbVars
    /\ UNCHANGED locals

\* updatePostingRule switches the rule on or off.
SwitchRule ==
    /\ ruleActive' = ~ruleActive
    /\ UNCHANGED <<dbVars, pc, source, amount, found, number>>

PostingStep(t) ==
    \/ TakeEvent(t) \/ SkipPosting(t) \/ ReadNumber(t) \/ IncrementSequence(t)
    \/ InsertVoucher(t) \/ NumberTaken(t)
    \/ FindPosted(t) \/ DeletePosted(t) \/ DeletedMeanwhile(t)
    \/ UpdateForRetry(t)
=============================================================================
