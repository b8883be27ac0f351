--------------------------- MODULE Billing_proofs ---------------------------
(***************************************************************************)
(* Theorems of Billing, for any number of payments, handlers and workers,  *)
(* any period and grace, and any bounds: what an active plan rests on, how *)
(* often a day's reminder is mailed, and what overlapping requests are     *)
(* needed for.                                                             *)
(***************************************************************************)
EXTENDS Billing, TLAPS

Call ==
    [kind : {"success", "ipn", "fail", "cancel", "webhook", "refund"},
     attempt : Attempt, provider : Provider]

Subscription ==
    [plan : {"PAID", "FREE"}, status : {"TRIALING", "ACTIVE", "PAST_DUE", "CANCELLED"},
     left : Int, cancel : BOOLEAN, provider : Provider]

Event ==
    [type : {"none", "IPN", "CALLBACK_SUCCESS", "CALLBACK_FAIL", "CALLBACK_CANCEL",
             "MANUAL_WEBHOOK", "REFUND"},
     status : {"none", "VALID", "ACTIVE", "CANCELLED", "FAILED", "INVALID_TRANSACTION",
               "COMPLETED"}]

StoreTypeOK ==
    /\ subscription \in Subscription
    /\ event \in [EventId -> Event]
    /\ payment \in [Attempt -> {"none", "open", "paid", "invalid", "failed", "cancelled"}]

HandlerTypeOK ==
    /\ pc \in [Handler -> {"idle", "apply", "record", "record refund", "downgrade"}]
    /\ call \in [Handler -> Call \cup {NoCall}]

DailyTypeOK ==
    /\ job \in [Worker -> {"idle", "reminder", "email", "dunning"}]
    /\ reminder \in {"today", "yesterday", "earlier"}
    /\ emailed \in Nat

CountTypeOK ==
    /\ activations \in [Attempt -> Nat]
    /\ notices \in [Attempt -> Nat]
    /\ requests \in Nat
    /\ crashes \in Nat

TypeOK ==
    /\ StoreTypeOK /\ HandlerTypeOK /\ DailyTypeOK /\ CountTypeOK
    /\ byHand \in BOOLEAN /\ overlapped \in BOOLEAN

-----------------------------------------------------------------------------
(* The inductive invariants, one for each property.                         *)

Verified == {"success", "ipn"}

\* A handler that runs has a request: a refund where it may downgrade, and of
\* the gateway where it may activate.
CallIsServed ==
    \A h \in Handler : pc[h] # "idle" =>
        /\ call[h] \in Call
        /\ pc[h] \in {"record refund", "downgrade"} <=> call[h].kind = "refund"
        /\ call[h].kind \in Verified => call[h].provider = "ssl-wireless"

\* One worker mails the day's reminder, and only after recording it.
MailingIsRecorded ==
    /\ emailed > 0 => reminder = "today"
    /\ \A w \in Worker : job[w] = "email" =>
          /\ reminder = "today" /\ emailed = 0
          /\ \A v \in Worker : job[v] = "email" => v = w

\* Unless requests and jobs have overlapped, one of them runs at a time.
OneAtATime ==
    ~overlapped =>
        /\ \A h, g \in Handler : pc[h] # "idle" /\ pc[g] # "idle" => h = g
        /\ \A w, v \in Worker : job[w] # "idle" /\ job[v] # "idle" => w = v
        /\ \A h \in Handler, w \in Worker : pc[h] = "idle" \/ job[w] = "idle"

\* What a payment activated it went through for.  Unless requests overlap or
\* die, the handler that is about to apply it is the first to, and the one that
\* has applied it records it before another may look.
AppliedOnce(a) ==
    /\ \A h \in Handler :
          pc[h] = "apply" /\ call[h].kind \in Verified /\ call[h].attempt = a
              => activations[a] = 0
    /\ \/ activations[a] = 0
       \/ Processed(Validated(a))
       \/ \E h \in Handler :
             pc[h] = "record" /\ call[h].kind \in Verified /\ call[h].attempt = a
    /\ activations[a] <= 1

ActivatesOnce ==
    \A a \in Attempt :
        /\ activations[a] > 0 => payment[a] = "paid"
        /\ ~overlapped /\ crashes = 0 => AppliedOnce(a)

\* Unless requests overlap, dunning finds the tenant as its query did.
DunningIsDue ==
    ~overlapped => \A w \in Worker : job[w] = "dunning" => Overdue

IInv ==
    /\ TypeOK /\ CallIsServed
    /\ ActivePlanWasPaid
    /\ RemindedOnceADay /\ MailingIsRecorded
    /\ OneAtATime /\ ActivatesOnce /\ DunningIsDue

-----------------------------------------------------------------------------
(* The kinds of steps.                                                       *)

GatewayStep == \E a \in Attempt : Checkout(a) \/ Settle(a) \/ Replay(a)
EnterStep(h) == \E a \in Attempt : Receive(h, a) \/ ManualWebhook(h, a) \/ Refund(h, a)
ReturnStep(h) == Record(h) \/ RecordRefund(h) \/ Downgrade(h) \/ CrashHandler(h)
UserStep == ChooseFree \/ ConfirmCheckout \/ CancelAtPeriodEnd
WorkerStep(w) == Work(w) \/ CrashWorker(w)

LEMMA LiveIsAKindOfStep ==
    Live <=>
        \/ GatewayStep
        \/ \E h \in Handler : EnterStep(h) \/ Apply(h) \/ ReturnStep(h)
        \/ UserStep
        \/ \E w \in Worker : WorkerStep(w)
        \/ NextDay
  BY Zenon DEF Live, Serve, GatewayStep, EnterStep, ReturnStep, UserStep, WorkerStep

USE DEF handlerVars, dailyVars, ghostVars, requestVars

LEMMA InitIInv == Init => IInv
  <1> SUFFICES ASSUME Init PROVE IInv
    OBVIOUS
  <1> USE DEF Init
  <1>1. subscription = Subscribed("PAID", "TRIALING", "manual")
    OBVIOUS
  <1>2. subscription \in Subscription
    BY <1>1, DaysAssumption DEF Subscribed, Subscription, Provider
  <1>3. TypeOK
    <2>1. StoreTypeOK
      BY <1>2 DEF StoreTypeOK, Event, NoEvent
    <2>2. HandlerTypeOK /\ DailyTypeOK /\ CountTypeOK
      BY DEF HandlerTypeOK, DailyTypeOK, CountTypeOK
    <2>3. byHand \in BOOLEAN /\ overlapped \in BOOLEAN
      OBVIOUS
    <2> QED BY <2>1, <2>2, <2>3 DEF TypeOK
  <1>4. ActivePlanWasPaid
    BY <1>1 DEF Subscribed, ActivePlanWasPaid
  <1>5. CallIsServed /\ OneAtATime
    BY DEF CallIsServed, OneAtATime
  <1>6. RemindedOnceADay /\ MailingIsRecorded
    BY DEF RemindedOnceADay, MailingIsRecorded
  <1>7. ActivatesOnce /\ DunningIsDue
    BY DEF ActivatesOnce, AppliedOnce, DunningIsDue
  <1> QED BY <1>3, <1>4, <1>5, <1>6, <1>7 DEF IInv

LEMMA SubscribedTyped ==
    ASSUME NEW plan \in {"PAID", "FREE"},
           NEW status \in {"TRIALING", "ACTIVE", "PAST_DUE", "CANCELLED"},
           NEW provider \in Provider
    PROVE  Subscribed(plan, status, provider) \in Subscription
  BY DaysAssumption DEF Subscribed, Subscription

\* A request c enters an idle handler.
EnteredWith(h, c, statement) ==
    /\ pc[h] = "idle" /\ pc' = [pc EXCEPT ![h] = statement]
    /\ call' = [call EXCEPT ![h] = c]
    /\ statement = "record refund" <=> c.kind = "refund"
    /\ c.kind \in Verified =>
          c.provider = "ssl-wireless" /\ ~Processed(Validated(c.attempt))
    /\ UNCHANGED <<subscription, event, payment, dailyVars, ghostVars, crashes>>
    /\ notices' \in [Attempt -> Nat] /\ requests' \in Nat

LEMMA Entered ==
    ASSUME TypeOK, NEW h \in Handler, EnterStep(h)
    PROVE  \E c \in Call, statement \in {"apply", "record refund"} : EnteredWith(h, c, statement)
  <1>1. PICK a \in Attempt : Receive(h, a) \/ ManualWebhook(h, a) \/ Refund(h, a)
    BY DEF EnterStep
  <1>2. CASE Receive(h, a)
    <2>1. PICK kind \in Notices(a) :
             /\ kind \in {"success", "ipn"} => ~Processed(Validated(a))
             /\ Enter(h, kind, a, "ssl-wireless", "apply")
      BY <1>2 DEF Receive
    <2>2. kind \in {"success", "ipn", "fail", "cancel"}
      BY <2>1 DEF Notices
    <2> DEFINE c == [kind |-> kind, attempt |-> a, provider |-> "ssl-wireless"]
    <2>3. c \in Call
      BY <2>2 DEF Call, Provider
    <2>4. UNCHANGED <<subscription, event, payment, dailyVars, ghostVars, crashes>>
      BY <1>2 DEF Receive
    <2>5. notices' \in [Attempt -> Nat] /\ requests' \in Nat
      BY <1>2 DEF Receive, TypeOK, CountTypeOK
    <2>6. EnteredWith(h, c, "apply")
      BY <2>1, <2>2, <2>4, <2>5 DEF EnteredWith, Enter, Verified
    <2> QED BY <2>3, <2>6
  <1>3. CASE ManualWebhook(h, a)
    <2> DEFINE c == [kind |-> "webhook", attempt |-> a, provider |-> "manual"]
    <2>1. c \in Call
      BY DEF Call, Provider
    <2>2. notices' \in [Attempt -> Nat] /\ requests' \in Nat
      BY <1>3 DEF ManualWebhook, Ask, TypeOK, CountTypeOK
    <2>3. EnteredWith(h, c, "apply")
      BY <1>3, <2>2 DEF ManualWebhook, EnteredWith, Enter, Verified
    <2> QED BY <2>1, <2>3
  <1>4. CASE Refund(h, a)
    <2> DEFINE c == [kind |-> "refund", attempt |-> a, provider |-> subscription.provider]
    <2>1. c \in Call
      BY DEF Call, TypeOK, StoreTypeOK, Subscription
    <2>2. notices' \in [Attempt -> Nat] /\ requests' \in Nat
      <3>1. UNCHANGED notices /\ requests' = requests + 1
        BY <1>4 DEF Refund, Ask
      <3> QED BY <3>1 DEF TypeOK, CountTypeOK
    <2>3. EnteredWith(h, c, "record refund")
      BY <1>4, <2>2 DEF Refund, EnteredWith, Enter, Verified
    <2> QED BY <2>1, <2>3
  <1> QED BY <1>1, <1>2, <1>3, <1>4

\* A handler has recorded or downgraded what it had to, or has died.
LEMMA Returned ==
    ASSUME HandlerTypeOK, NEW h \in Handler, ReturnStep(h)
    PROVE  /\ pc' \in [Handler -> {"idle", "apply", "record", "record refund", "downgrade"}]
           /\ call' \in [Handler -> Call \cup {NoCall}]
           /\ \A g \in Handler : g # h => pc'[g] = pc[g] /\ call'[g] = call[g]
           /\ \/ pc'[h] = "idle"
              \/ pc[h] = "record refund" /\ pc'[h] = "downgrade" /\ call'[h] = call[h]
           /\ UNCHANGED <<payment, dailyVars, ghostVars, notices, requests>>
  <1> USE DEF Goto, Return
  <1>1. CASE Record(h)
    BY <1>1 DEF Record, HandlerTypeOK
  <1>2. CASE RecordRefund(h)
    BY <1>2 DEF RecordRefund, HandlerTypeOK
  <1>3. CASE Downgrade(h)
    BY <1>3 DEF Downgrade, HandlerTypeOK
  <1>4. CASE CrashHandler(h)
    BY <1>4 DEF CrashHandler, HandlerTypeOK
  <1> QED BY <1>1, <1>2, <1>3, <1>4 DEF ReturnStep

\* A job goes to its next statement, ends, or dies.
LEMMA Worked ==
    ASSUME DailyTypeOK, crashes \in Nat, NEW w \in Worker, WorkerStep(w)
    PROVE  /\ job' \in [Worker -> {"idle", "reminder", "email", "dunning"}]
           /\ \A v \in Worker : v # w => job'[v] = job[v]
           /\ UNCHANGED <<event, payment, handlerVars, ghostVars, notices, requests>>
           /\ reminder' \in {"today", "yesterday", "earlier"} /\ emailed' \in Nat
           /\ crashes' \in Nat /\ crashes' >= crashes
  <1>1. CASE Remind(w)
    BY <1>1 DEF Remind, DailyTypeOK
  <1>2. CASE ReminderExists(w)
    BY <1>2 DEF ReminderExists, DailyTypeOK
  <1>3. CASE RecordReminder(w)
    BY <1>3 DEF RecordReminder, DailyTypeOK
  <1>4. CASE EmailReminder(w)
    BY <1>4 DEF EmailReminder, DailyTypeOK
  <1>5. CASE FindOverdue(w)
    BY <1>5 DEF FindOverdue, DailyTypeOK
  <1>6. CASE Dun(w)
    BY <1>6 DEF Dun, DailyTypeOK
  <1>7. CASE CrashWorker(w)
    BY <1>7 DEF CrashWorker, DailyTypeOK
  <1> QED BY <1>1, <1>2, <1>3, <1>4, <1>5, <1>6, <1>7 DEF WorkerStep, Work

-----------------------------------------------------------------------------
(* Types.                                                                    *)

LEMMA StatusesTyped ==
    ASSUME NEW c \in Call
    PROVE  /\ SubscriptionStatus(ProviderStatus(c)) \in {"ACTIVE", "PAST_DUE", "CANCELLED"}
           /\ [type |-> EventType(c), status |-> ProviderStatus(c)] \in Event
           /\ c.kind \in Verified =>
                 SubscriptionStatus(ProviderStatus(c)) = "ACTIVE"
                     <=> payment[c.attempt] = "paid"
           /\ c.kind \in {"fail", "cancel"} =>
                 SubscriptionStatus(ProviderStatus(c)) # "ACTIVE"
  <1>1. c.kind \in {"success", "ipn", "fail", "cancel", "webhook", "refund"}
    BY DEF Call
  <1>2. ProviderStatus(c) \in {"ACTIVE", "CANCELLED", "FAILED", "VALID", "INVALID_TRANSACTION"}
    BY DEF ProviderStatus
  <1>3. EventType(c) \in
           {"IPN", "CALLBACK_SUCCESS", "CALLBACK_FAIL", "CALLBACK_CANCEL", "MANUAL_WEBHOOK"}
    BY DEF EventType
  <1>4. SubscriptionStatus(ProviderStatus(c)) \in {"ACTIVE", "PAST_DUE", "CANCELLED"}
    BY <1>2 DEF SubscriptionStatus
  <1>5. [type |-> EventType(c), status |-> ProviderStatus(c)] \in Event
    BY <1>2, <1>3 DEF Event
  <1>6. ASSUME c.kind \in Verified
        PROVE  SubscriptionStatus(ProviderStatus(c)) = "ACTIVE" <=> payment[c.attempt] = "paid"
    <2>1. ProviderStatus(c) = IF payment[c.attempt] = "paid" THEN "VALID" ELSE "INVALID_TRANSACTION"
      BY <1>6 DEF ProviderStatus, Verified
    <2> QED BY <2>1 DEF SubscriptionStatus
  <1>7. ASSUME c.kind \in {"fail", "cancel"}
        PROVE  SubscriptionStatus(ProviderStatus(c)) # "ACTIVE"
    <2>1. ProviderStatus(c) \in {"CANCELLED", "FAILED"}
      BY <1>7 DEF ProviderStatus
    <2> QED BY <2>1 DEF SubscriptionStatus
  <1> QED BY <1>4, <1>5, <1>6, <1>7

\* Events and payments keep their types whoever writes them.
LEMMA StoreTyped ==
    ASSUME TypeOK, CallIsServed, Live
    PROVE  StoreTypeOK'
  <1> USE DEF TypeOK, StoreTypeOK
  <1>1. CASE GatewayStep
    <2>1. PICK a \in Attempt : Checkout(a) \/ Settle(a) \/ Replay(a)
      BY <1>1 DEF GatewayStep
    <2> QED BY <2>1 DEF Checkout, Settle, Replay
  <1>2. ASSUME NEW h \in Handler, EnterStep(h)
        PROVE  StoreTypeOK'
    BY <1>2, Entered DEF EnteredWith
  <1>3. ASSUME NEW h \in Handler, Apply(h)
        PROVE  StoreTypeOK'
    <2>1. call[h] \in Call
      BY <1>3 DEF Apply, CallIsServed
    <2>2. call[h].provider \in Provider
      BY <2>1 DEF Call
    <2>3. subscription' \in Subscription
      BY <1>3, <2>1, <2>2, StatusesTyped, SubscribedTyped DEF Apply
    <2> QED BY <1>3, <2>3 DEF Apply
  <1>4. ASSUME NEW h \in Handler, ReturnStep(h)
        PROVE  StoreTypeOK'
    <2>1. CASE Record(h)
      <3>1. call[h] \in Call
        BY <2>1 DEF Record, CallIsServed
      <3>2. [type |-> EventType(call[h]), status |-> ProviderStatus(call[h])] \in Event
        BY <3>1, StatusesTyped
      <3> QED BY <2>1, <3>2 DEF Record
    <2>2. CASE RecordRefund(h)
      <3>1. [type |-> "REFUND", status |-> "COMPLETED"] \in Event
        BY DEF Event
      <3> QED BY <2>2, <3>1 DEF RecordRefund
    <2>3. CASE Downgrade(h)
      <3>1. call[h] \in Call
        BY <2>3 DEF Downgrade, CallIsServed
      <3>2. call[h].provider \in Provider
        BY <3>1 DEF Call
      <3>3. subscription' \in Subscription
        BY <2>3, <3>2, SubscribedTyped DEF Downgrade
      <3> QED BY <2>3, <3>3 DEF Downgrade
    <2>4. CASE CrashHandler(h)
      BY <2>4 DEF CrashHandler
    <2> QED BY <1>4, <2>1, <2>2, <2>3, <2>4 DEF ReturnStep
  <1>5. CASE UserStep
    <2>1. CASE ChooseFree
      BY <2>1, SubscribedTyped DEF ChooseFree, Provider
    <2>2. CASE ConfirmCheckout
      BY <2>2, SubscribedTyped DEF ConfirmCheckout, Provider
    <2>3. CASE CancelAtPeriodEnd
      BY <2>3 DEF CancelAtPeriodEnd, Subscription
    <2> QED BY <1>5, <2>1, <2>2, <2>3 DEF UserStep
  <1>6. ASSUME NEW w \in Worker, WorkerStep(w)
        PROVE  StoreTypeOK'
    <2>1. subscription' \in Subscription
      <3>1. CASE Dun(w)
        BY <3>1 DEF Dun, Subscription
      <3>2. CASE ~Dun(w)
        BY <1>6, <3>2 DEF WorkerStep, Work, Remind, ReminderExists, RecordReminder,
                          EmailReminder, FindOverdue, CrashWorker
      <3> QED BY <3>1, <3>2
    <2>2. UNCHANGED <<event, payment>>
      BY <1>6, Worked DEF DailyTypeOK, CountTypeOK
    <2> QED BY <2>1, <2>2
  <1>7. CASE NextDay
    <2>1. subscription' \in Subscription
      BY <1>7 DEF NextDay, Subscription
    <2> QED BY <1>7, <2>1 DEF NextDay
  <1> QED BY <1>1, <1>2, <1>3, <1>4, <1>5, <1>6, <1>7, LiveIsAKindOfStep

\* The rest of the state: what handlers and workers keep, and the counters.
LEMMA OthersTyped ==
    ASSUME TypeOK, CallIsServed, Live
    PROVE  HandlerTypeOK' /\ DailyTypeOK' /\ CountTypeOK' /\ byHand' \in BOOLEAN /\ CallIsServed'
  <1> USE DEF TypeOK
  <1>1. ASSUME UNCHANGED <<handlerVars, dailyVars, activations, byHand>>,
               notices' \in [Attempt -> Nat], requests' \in Nat, crashes' \in Nat
        PROVE  /\ HandlerTypeOK' /\ DailyTypeOK' /\ CountTypeOK'
               /\ byHand' \in BOOLEAN /\ CallIsServed'
    <2>1. HandlerTypeOK' /\ DailyTypeOK' /\ CountTypeOK'
      BY <1>1 DEF HandlerTypeOK, DailyTypeOK, CountTypeOK
    <2>2. byHand' \in BOOLEAN /\ CallIsServed'
      BY <1>1 DEF CallIsServed
    <2> QED BY <2>1, <2>2
  <1>2. CASE GatewayStep
    <2>1. PICK a \in Attempt : Checkout(a) \/ Settle(a) \/ Replay(a)
      BY <1>2 DEF GatewayStep
    <2>2. notices' \in [Attempt -> Nat] /\ requests' \in Nat /\ crashes' \in Nat
      BY <2>1 DEF Checkout, Settle, Replay, CountTypeOK
    <2>3. UNCHANGED <<handlerVars, dailyVars, activations, byHand>>
      BY <2>1 DEF Checkout, Settle, Replay
    <2> QED BY <1>1, <2>2, <2>3
  <1>3. ASSUME NEW h \in Handler, EnterStep(h)
        PROVE  /\ HandlerTypeOK' /\ DailyTypeOK' /\ CountTypeOK'
               /\ byHand' \in BOOLEAN /\ CallIsServed'
    <2>1. PICK c \in Call, statement \in {"apply", "record refund"} : EnteredWith(h, c, statement)
      BY <1>3, Entered
    <2>2. HandlerTypeOK' /\ DailyTypeOK' /\ CountTypeOK'
      BY <2>1 DEF EnteredWith, HandlerTypeOK, DailyTypeOK, CountTypeOK
    <2>3. byHand' \in BOOLEAN
      BY <2>1 DEF EnteredWith
    <2>4. CallIsServed'
      BY <2>1 DEF EnteredWith, HandlerTypeOK, CallIsServed
    <2> QED BY <2>2, <2>3, <2>4
  <1>4. ASSUME NEW h \in Handler, Apply(h)
        PROVE  /\ HandlerTypeOK' /\ DailyTypeOK' /\ CountTypeOK'
               /\ byHand' \in BOOLEAN /\ CallIsServed'
    <2>1. /\ pc[h] = "apply" /\ pc' = [pc EXCEPT ![h] = "record"] /\ call' = call
          /\ UNCHANGED <<dailyVars, requestVars>>
      BY <1>4 DEF Apply, Goto
    <2>2. activations' \in [Attempt -> Nat]
      BY <1>4 DEF Apply, CountTypeOK
    <2>3. HandlerTypeOK' /\ DailyTypeOK' /\ CountTypeOK'
      BY <2>1, <2>2 DEF HandlerTypeOK, DailyTypeOK, CountTypeOK
    <2>4. byHand' \in BOOLEAN
      BY <1>4 DEF Apply
    <2>5. CallIsServed'
      BY <2>1 DEF HandlerTypeOK, CallIsServed
    <2> QED BY <2>3, <2>4, <2>5
  <1>5. ASSUME NEW h \in Handler, ReturnStep(h)
        PROVE  /\ HandlerTypeOK' /\ DailyTypeOK' /\ CountTypeOK'
               /\ byHand' \in BOOLEAN /\ CallIsServed'
    <2>1. crashes' \in Nat
      <3>1. crashes' = crashes \/ crashes' = crashes + 1
        BY <1>5 DEF ReturnStep, Record, RecordRefund, Downgrade, CrashHandler
      <3> QED BY <3>1 DEF CountTypeOK
    <2>2. HandlerTypeOK' /\ DailyTypeOK' /\ CountTypeOK'
      BY <1>5, <2>1, Returned DEF HandlerTypeOK, DailyTypeOK, CountTypeOK
    <2>3. byHand' \in BOOLEAN
      BY <1>5, Returned
    <2>4. ASSUME NEW g \in Handler, pc'[g] # "idle"
          PROVE  pc[g] # "idle" /\ call'[g] = call[g]
                 /\ (pc'[g] \in {"record refund", "downgrade"}
                        <=> pc[g] \in {"record refund", "downgrade"})
      BY <1>5, <2>4, Returned
    <2>5. CallIsServed'
      BY <2>4 DEF CallIsServed
    <2> QED BY <2>2, <2>3, <2>5
  <1>6. CASE UserStep
    <2>1. notices' \in [Attempt -> Nat] /\ requests' \in Nat /\ crashes' \in Nat
      BY <1>6 DEF UserStep, ChooseFree, ConfirmCheckout, CancelAtPeriodEnd, Ask, CountTypeOK
    <2>2. UNCHANGED <<handlerVars, dailyVars, activations>>
      BY <1>6 DEF UserStep, ChooseFree, ConfirmCheckout, CancelAtPeriodEnd
    <2>3. byHand' \in BOOLEAN
      BY <1>6 DEF UserStep, ChooseFree, ConfirmCheckout, CancelAtPeriodEnd
    <2>4. HandlerTypeOK' /\ DailyTypeOK' /\ CountTypeOK' /\ CallIsServed'
      BY <2>1, <2>2 DEF HandlerTypeOK, DailyTypeOK, CountTypeOK, CallIsServed
    <2> QED BY <2>3, <2>4
  <1>7. ASSUME NEW w \in Worker, WorkerStep(w)
        PROVE  /\ HandlerTypeOK' /\ DailyTypeOK' /\ CountTypeOK'
               /\ byHand' \in BOOLEAN /\ CallIsServed'
    <2>1. crashes \in Nat
      BY DEF CountTypeOK
    <2>2. HandlerTypeOK' /\ DailyTypeOK' /\ CountTypeOK'
      BY <1>7, <2>1, Worked DEF HandlerTypeOK, DailyTypeOK, CountTypeOK
    <2>3. byHand' \in BOOLEAN /\ CallIsServed'
      BY <1>7, <2>1, Worked DEF CallIsServed
    <2> QED BY <2>2, <2>3
  <1>8. CASE NextDay
    <2>1. HandlerTypeOK' /\ DailyTypeOK' /\ CountTypeOK'
      BY <1>8 DEF NextDay, HandlerTypeOK, DailyTypeOK, CountTypeOK
    <2>2. byHand' \in BOOLEAN /\ CallIsServed'
      BY <1>8 DEF NextDay, CallIsServed
    <2> QED BY <2>1, <2>2
  <1> QED BY <1>2, <1>3, <1>4, <1>5, <1>6, <1>7, <1>8, LiveIsAKindOfStep

-----------------------------------------------------------------------------
(* An active plan rests on a payment.                                        *)

\* A payment that went through stays so, and what it activated stays counted.
LEMMA PaymentsStay ==
    ASSUME TypeOK, Live, NEW a \in Attempt
    PROVE  /\ payment[a] = "paid" => payment'[a] = "paid"
           /\ activations'[a] >= activations[a]
  <1> USE DEF TypeOK, StoreTypeOK, CountTypeOK
  <1>1. CASE GatewayStep
    <2>1. PICK b \in Attempt : Checkout(b) \/ Settle(b) \/ Replay(b)
      BY <1>1 DEF GatewayStep
    <2>2. payment[a] = "paid" => payment'[a] = "paid"
      BY <2>1 DEF Checkout, Settle, Replay
    <2>3. activations' = activations
      BY <2>1 DEF Checkout, Settle, Replay
    <2> QED BY <2>2, <2>3
  <1>2. ASSUME NEW h \in Handler, EnterStep(h)
        PROVE  UNCHANGED <<payment, activations>>
    BY <1>2, Entered DEF EnteredWith
  <1>3. ASSUME NEW h \in Handler, Apply(h)
        PROVE  payment' = payment /\ activations'[a] >= activations[a]
    <2>1. payment' = payment
      BY <1>3 DEF Apply
    <2>2. \/ activations' = activations
          \/ activations' = [activations EXCEPT ![call[h].attempt] = @ + 1]
      BY <1>3 DEF Apply
    <2> QED BY <2>1, <2>2
  <1>4. ASSUME NEW h \in Handler, ReturnStep(h)
        PROVE  UNCHANGED <<payment, activations>>
    BY <1>4, Returned
  <1>5. CASE UserStep
    BY <1>5 DEF UserStep, ChooseFree, ConfirmCheckout, CancelAtPeriodEnd
  <1>6. ASSUME NEW w \in Worker, WorkerStep(w)
        PROVE  UNCHANGED <<payment, activations>>
    BY <1>6, Worked
  <1>7. CASE NextDay
    BY <1>7 DEF NextDay
  <1> QED BY <1>1, <1>2, <1>3, <1>4, <1>5, <1>6, <1>7, LiveIsAKindOfStep

\* The subscription row after a step, as far as the property reads it.
PaidAndActive == subscription.plan = "PAID" /\ subscription.status = "ACTIVE" /\ ~byHand

LEMMA PaidStep ==
    ASSUME TypeOK, CallIsServed, ActivePlanWasPaid, Live
    PROVE  ActivePlanWasPaid'
  <1> SUFFICES ASSUME PaidAndActive'
               PROVE  \E a \in Attempt : payment'[a] = "paid" /\ activations'[a] > 0
    BY DEF ActivePlanWasPaid, PaidAndActive
  <1> USE DEF PaidAndActive
  <1>1. CASE PaidAndActive
    <2>1. PICK a \in Attempt : payment[a] = "paid" /\ activations[a] > 0
      BY <1>1 DEF ActivePlanWasPaid
    <2>2. activations[a] \in Nat /\ activations'[a] \in Nat
      BY OthersTyped DEF TypeOK, CountTypeOK
    <2> QED BY <2>1, <2>2, PaymentsStay
  <1>2. CASE ~PaidAndActive
    <2>1. ~GatewayStep
      BY <1>2 DEF GatewayStep, Checkout, Settle, Replay
    <2>2. ASSUME NEW h \in Handler, EnterStep(h)
          PROVE  FALSE
      BY <1>2, <2>2, Entered DEF EnteredWith
    <2>3. ASSUME NEW h \in Handler, Apply(h)
          PROVE  \E a \in Attempt : payment'[a] = "paid" /\ activations'[a] > 0
      <3> DEFINE c == call[h]
                 status == SubscriptionStatus(ProviderStatus(c))
      <3>1. /\ c \in Call /\ c.kind # "refund" /\ pc[h] = "apply"
            /\ c.kind \in {"success", "ipn", "fail", "cancel", "webhook", "refund"}
            /\ c.attempt \in Attempt
        BY <2>3 DEF Apply, CallIsServed, Call
      <3>2. status = "ACTIVE"
        BY <2>3 DEF Apply, Subscribed
      <3>3. c.kind # "webhook"
        BY <2>3 DEF Apply
      <3>4. payment[c.attempt] = "paid"
        BY <3>1, <3>2, <3>3, StatusesTyped DEF Verified
      <3>5. payment' = payment /\ activations' = [activations EXCEPT ![c.attempt] = @ + 1]
        BY <2>3, <3>2, <3>3 DEF Apply
      <3>6. activations'[c.attempt] > 0
        BY <3>1, <3>5 DEF TypeOK, CountTypeOK
      <3> QED BY <3>1, <3>4, <3>5, <3>6
    <2>4. ASSUME NEW h \in Handler, ReturnStep(h)
          PROVE  FALSE
      <3>1. ~Downgrade(h)
        BY DEF Downgrade, Subscribed
      <3>2. UNCHANGED <<subscription, byHand>>
        BY <2>4, <3>1 DEF ReturnStep, Record, RecordRefund, CrashHandler
      <3> QED BY <1>2, <3>2
    <2>5. ~UserStep
      <3>1. ~ChooseFree
        BY DEF ChooseFree, Subscribed
      <3>2. ~ConfirmCheckout
        BY DEF ConfirmCheckout
      <3>3. ~CancelAtPeriodEnd
        BY <1>2 DEF CancelAtPeriodEnd, TypeOK, StoreTypeOK, Subscription
      <3> QED BY <3>1, <3>2, <3>3 DEF UserStep
    <2>6. ASSUME NEW w \in Worker, WorkerStep(w)
          PROVE  FALSE
      <3>1. ~Dun(w)
        BY DEF Dun, TypeOK, StoreTypeOK, Subscription
      <3>2. UNCHANGED <<subscription, byHand>>
        BY <2>6, <3>1 DEF WorkerStep, Work, Remind, ReminderExists, RecordReminder,
                          EmailReminder, FindOverdue, CrashWorker
      <3> QED BY <1>2, <3>2
    <2>7. ~NextDay
      BY <1>2 DEF NextDay, TypeOK, StoreTypeOK, Subscription
    <2> QED BY <2>1, <2>2, <2>3, <2>4, <2>5, <2>6, <2>7, LiveIsAKindOfStep
  <1> QED BY <1>1, <1>2

-----------------------------------------------------------------------------
(* A day's reminder is mailed once.                                          *)

LEMMA RemindStep ==
    ASSUME TypeOK, RemindedOnceADay, MailingIsRecorded, Live
    PROVE  RemindedOnceADay' /\ MailingIsRecorded'
  <1> USE DEF TypeOK, DailyTypeOK, RemindedOnceADay, MailingIsRecorded
  <1>1. ASSUME UNCHANGED dailyVars
        PROVE  RemindedOnceADay' /\ MailingIsRecorded'
    BY <1>1
  <1>2. CASE GatewayStep
    BY <1>1, <1>2 DEF GatewayStep, Checkout, Settle, Replay
  <1>3. ASSUME NEW h \in Handler, EnterStep(h)
        PROVE  UNCHANGED dailyVars
    BY <1>3, Entered DEF EnteredWith
  <1>4. ASSUME NEW h \in Handler, Apply(h)
        PROVE  UNCHANGED dailyVars
    BY <1>4 DEF Apply
  <1>5. ASSUME NEW h \in Handler, ReturnStep(h)
        PROVE  UNCHANGED dailyVars
    BY <1>5, Returned
  <1>6. CASE UserStep
    BY <1>1, <1>6 DEF UserStep, ChooseFree, ConfirmCheckout, CancelAtPeriodEnd
  <1>7. ASSUME NEW w \in Worker, WorkerStep(w)
        PROVE  RemindedOnceADay' /\ MailingIsRecorded'
    <2>1. CASE RecordReminder(w)
      BY <2>1 DEF RecordReminder
    <2>2. CASE EmailReminder(w)
      BY <2>2 DEF EmailReminder
    <2>3. CASE ~RecordReminder(w) /\ ~EmailReminder(w)
      <3>1. /\ UNCHANGED <<reminder, emailed>>
            /\ job' \in [Worker -> {"idle", "reminder", "email", "dunning"}]
            /\ \A v \in Worker : v # w => job'[v] = job[v]
            /\ job'[w] # "email"
        BY <1>7, <2>3 DEF WorkerStep, Work, Remind, ReminderExists, FindOverdue, Dun, CrashWorker
      <3> QED BY <3>1
    <2> QED BY <2>1, <2>2, <2>3
  <1>8. CASE NextDay
    BY <1>8 DEF NextDay, Idle
  <1> QED BY <1>1, <1>2, <1>3, <1>4, <1>5, <1>6, <1>7, <1>8, LiveIsAKindOfStep

-----------------------------------------------------------------------------
(* What holds unless requests and jobs overlap.                              *)

\* A request or a job that starts alone finds nothing running.
LEMMA StartsAlone ==
    ASSUME Watch, ~overlapped'
    PROVE  ~overlapped /\ (Starting => Idle)
  BY DEF Watch

\* A step runs one handler's statement, one job's, or none.
LEMMA OneActor ==
    ASSUME TypeOK, Live
    PROVE  \/ UNCHANGED <<pc, call, job>>
           \/ job' = job /\ \E h \in Handler : \A g \in Handler : g # h =>
                 pc'[g] = pc[g] /\ call'[g] = call[g]
           \/ UNCHANGED <<pc, call>> /\ \E w \in Worker : \A v \in Worker : v # w =>
                 job'[v] = job[v]
  <1> USE DEF TypeOK, HandlerTypeOK
  <1>1. CASE GatewayStep
    BY <1>1 DEF GatewayStep, Checkout, Settle, Replay
  <1>2. ASSUME NEW h \in Handler, EnterStep(h)
        PROVE  job' = job /\ \A g \in Handler : g # h => pc'[g] = pc[g] /\ call'[g] = call[g]
    <2>1. PICK c \in Call, statement \in {"apply", "record refund"} : EnteredWith(h, c, statement)
      BY <1>2, Entered
    <2> QED BY <2>1 DEF EnteredWith
  <1>3. ASSUME NEW h \in Handler, Apply(h)
        PROVE  job' = job /\ \A g \in Handler : g # h => pc'[g] = pc[g] /\ call'[g] = call[g]
    <2>1. job' = job /\ pc' = [pc EXCEPT ![h] = "record"] /\ call' = call
      BY <1>3 DEF Apply, Goto
    <2> QED BY <2>1
  <1>4. ASSUME NEW h \in Handler, ReturnStep(h)
        PROVE  job' = job /\ \A g \in Handler : g # h => pc'[g] = pc[g] /\ call'[g] = call[g]
    BY <1>4, Returned
  <1>5. CASE UserStep
    BY <1>5 DEF UserStep, ChooseFree, ConfirmCheckout, CancelAtPeriodEnd
  <1>6. ASSUME NEW w \in Worker, WorkerStep(w)
        PROVE  UNCHANGED <<pc, call>> /\ \A v \in Worker : v # w => job'[v] = job[v]
    BY <1>6, Worked DEF CountTypeOK
  <1>7. CASE NextDay
    BY <1>7 DEF NextDay
  <1> QED BY <1>1, <1>2, <1>3, <1>4, <1>5, <1>6, <1>7, LiveIsAKindOfStep

LEMMA OneAtATimeStep ==
    ASSUME TypeOK, OneAtATime, Live, Watch
    PROVE  OneAtATime'
  <1> SUFFICES ASSUME ~overlapped' PROVE OneAtATime'
    BY DEF OneAtATime
  <1>1. ~overlapped /\ (Starting => Idle)
    BY StartsAlone
  <1>2. CASE Idle
    BY <1>2, OneActor DEF Idle, OneAtATime
  <1>3. CASE ~Starting
    <2>1. /\ \A h \in Handler : pc'[h] # "idle" => pc[h] # "idle"
          /\ \A w \in Worker : job'[w] # "idle" => job[w] # "idle"
      BY <1>3 DEF Starting
    <2> QED BY <1>1, <2>1 DEF OneAtATime
  <1> QED BY <1>1, <1>2, <1>3

LEMMA DunningStep ==
    ASSUME TypeOK, OneAtATime, DunningIsDue, Live, Watch
    PROVE  DunningIsDue'
  <1> SUFFICES ASSUME ~overlapped', NEW w \in Worker, job'[w] = "dunning"
               PROVE  Overdue'
    BY DEF DunningIsDue
  <1>1. ~overlapped /\ (Starting => Idle)
    BY StartsAlone
  <1>2. CASE job[w] # "dunning"
    <2>1. FindOverdue(w)
      <3>1. ASSUME NEW v \in Worker, WorkerStep(v)
            PROVE  FindOverdue(w)
        <4>1. v = w
          BY <1>2, <3>1, Worked DEF TypeOK, CountTypeOK
        <4>2. CASE ~FindOverdue(w)
          BY <1>2, <3>1, <4>1, <4>2 DEF WorkerStep, Work, Remind, ReminderExists, RecordReminder,
             EmailReminder, Dun, CrashWorker, TypeOK, DailyTypeOK
        <4> QED BY <4>2
      <3>2. ASSUME ~\E v \in Worker : WorkerStep(v)
            PROVE  job' = job
        <4>1. CASE GatewayStep \/ UserStep \/ NextDay
          BY <4>1 DEF GatewayStep, UserStep, NextDay, Checkout, Settle, Replay, ChooseFree,
                      ConfirmCheckout, CancelAtPeriodEnd
        <4>2. ASSUME NEW h \in Handler, EnterStep(h)
              PROVE  job' = job
          BY <4>2, Entered DEF EnteredWith
        <4>3. ASSUME NEW h \in Handler, Apply(h) \/ ReturnStep(h)
              PROVE  job' = job
          BY <4>3, Returned DEF Apply, TypeOK
        <4> QED BY <3>2, <4>1, <4>2, <4>3, LiveIsAKindOfStep
      <3> QED BY <1>2, <3>1, <3>2
    <2> QED BY <2>1 DEF FindOverdue, Overdue
  <1>3. CASE job[w] = "dunning"
    <2>1. Overdue /\ ~Idle
      BY <1>1, <1>3 DEF DunningIsDue, Idle
    <2>2. \A h \in Handler : pc[h] = "idle"
      BY <1>1, <1>3 DEF OneAtATime
    <2>3. subscription' = subscription
      <3>1. CASE GatewayStep
        BY <3>1 DEF GatewayStep, Checkout, Settle, Replay
      <3>2. ASSUME NEW h \in Handler, EnterStep(h) \/ Apply(h) \/ ReturnStep(h)
            PROVE  subscription' = subscription
        <4>1. CASE EnterStep(h)
          BY <4>1, Entered DEF EnteredWith
        <4>2. ~Apply(h) /\ ~Downgrade(h)
          BY <2>2 DEF Apply, Downgrade
        <4>3. CASE ReturnStep(h)
          BY <4>2, <4>3 DEF ReturnStep, Record, RecordRefund, CrashHandler
        <4> QED BY <3>2, <4>1, <4>2, <4>3
      <3>3. ~UserStep
        <4>1. ASSUME UserStep
              PROVE  requests' # requests
          BY <4>1 DEF UserStep, ChooseFree, ConfirmCheckout, CancelAtPeriodEnd, Ask, TypeOK,
                      CountTypeOK
        <4> QED BY <1>1, <2>1, <4>1 DEF Starting
      <3>4. ASSUME NEW v \in Worker, WorkerStep(v)
            PROVE  subscription' = subscription
        <4>1. ~Dun(v)
          <5> SUFFICES ASSUME Dun(v) PROVE FALSE
            OBVIOUS
          <5>1. v = w
            BY <1>1, <1>3 DEF Dun, OneAtATime
          <5> QED BY <5>1 DEF Dun, TypeOK, DailyTypeOK
        <4> QED BY <3>4, <4>1 DEF WorkerStep, Work, Remind, ReminderExists, RecordReminder,
                                  EmailReminder, FindOverdue, CrashWorker
      <3>5. ~NextDay
        BY <2>1 DEF NextDay
      <3> QED BY <3>1, <3>2, <3>3, <3>4, <3>5, LiveIsAKindOfStep
    <2> QED BY <2>1, <2>3 DEF Overdue
  <1> QED BY <1>2, <1>3

\* Only a notice of attempt a writes the event that says a was applied.
LEMMA OnlyItsNotice ==
    ASSUME NEW c \in Call, NEW a \in Attempt, IdOf(c) = Validated(a)
    PROVE  c.kind \in Verified /\ c.attempt = a
  BY DEF IdOf, Validated, Call, Verified

LEMMA RecordedAsPaid ==
    ASSUME TypeOK, CallIsServed, NEW h \in Handler, Record(h), NEW a \in Attempt,
           payment[a] = "paid"
    PROVE  /\ Processed(Validated(a)) => Processed(Validated(a))'
           /\ call[h].kind \in Verified /\ call[h].attempt = a => Processed(Validated(a))'
  <1> DEFINE c == call[h]
             e == Validated(a)
  <1>1. c \in Call /\ (c.kind \in Verified => c.provider = "ssl-wireless")
    BY DEF Record, CallIsServed
  <1>2. event' = [event EXCEPT ![IdOf(c)] = [type |-> EventType(c), status |-> ProviderStatus(c)]]
    BY DEF Record
  <1>3. e \in EventId /\ event \in [EventId -> Event]
    BY DEF Validated, EventId, Provider, TypeOK, StoreTypeOK
  <1>4. CASE c.kind \in Verified /\ c.attempt = a
    <2>1. IdOf(c) = e
      BY <1>1, <1>4 DEF IdOf, Validated, Verified
    <2>2. EventType(c) \in {"IPN", "CALLBACK_SUCCESS"} /\ ProviderStatus(c) = "VALID"
      BY <1>4 DEF EventType, ProviderStatus, Verified
    <2>3. event'[e] = [type |-> EventType(c), status |-> ProviderStatus(c)]
      BY <1>2, <1>3, <2>1
    <2> QED BY <2>2, <2>3 DEF Processed, Validated
  <1>5. CASE ~(c.kind \in Verified /\ c.attempt = a)
    <2>1. event'[e] = event[e]
      BY <1>1, <1>2, <1>3, <1>5, OnlyItsNotice
    <2> QED BY <1>5, <2>1 DEF Processed, Validated
  <1> QED BY <1>4, <1>5

\* An attempt activates the plan only if its payment went through.
LEMMA ActivatedIsPaid ==
    ASSUME TypeOK, CallIsServed, ActivatesOnce, Live, NEW a \in Attempt, activations'[a] > 0
    PROVE  payment'[a] = "paid"
  <1>1. CASE activations[a] > 0
    BY <1>1, PaymentsStay DEF ActivatesOnce
  <1>2. CASE ~(activations[a] > 0)
    <2>1. PICK h \in Handler : Apply(h)
      <3>1. CASE GatewayStep \/ UserStep \/ NextDay
        BY <1>2, <3>1 DEF GatewayStep, UserStep, NextDay, Checkout, Settle, Replay, ChooseFree,
                    ConfirmCheckout, CancelAtPeriodEnd
      <3>2. ASSUME NEW h \in Handler, EnterStep(h)
            PROVE  FALSE
        BY <1>2, <3>2, Entered DEF EnteredWith
      <3>3. ASSUME NEW h \in Handler, ReturnStep(h)
            PROVE  FALSE
        BY <1>2, <3>3, Returned DEF TypeOK
      <3>4. ASSUME NEW w \in Worker, WorkerStep(w)
            PROVE  FALSE
        BY <1>2, <3>4, Worked DEF TypeOK, CountTypeOK
      <3> QED BY <3>1, <3>2, <3>3, <3>4, LiveIsAKindOfStep
    <2> DEFINE c == call[h]
               status == SubscriptionStatus(ProviderStatus(c))
    <2>2. /\ c \in Call /\ c.kind # "refund"
          /\ c.kind \in {"success", "ipn", "fail", "cancel", "webhook", "refund"}
      BY <2>1 DEF Apply, CallIsServed, Call
    <2>3. payment' = payment /\ status = "ACTIVE" /\ c.kind # "webhook" /\ c.attempt = a
      BY <1>2, <2>1 DEF Apply, TypeOK, CountTypeOK
    <2> QED BY <2>2, <2>3, StatusesTyped DEF Verified
  <1> QED BY <1>1, <1>2

LEMMA ActivateStep ==
    ASSUME TypeOK, CallIsServed, OneAtATime, ActivatesOnce, Live, Watch
    PROVE  ActivatesOnce'
  <1> SUFFICES ASSUME NEW a \in Attempt, ~overlapped', crashes' = 0
               PROVE  AppliedOnce(a)'
    BY ActivatedIsPaid DEF ActivatesOnce
  <1>1. ~overlapped /\ (Starting => Idle)
    BY StartsAlone
  <1>2. ASSUME crashes = 0, UNCHANGED <<event, pc, call, activations>>
        PROVE  AppliedOnce(a)'
    BY <1>1, <1>2 DEF ActivatesOnce, AppliedOnce, Processed
  <1>3. CASE GatewayStep
    <2>1. UNCHANGED <<event, pc, call, activations, crashes>>
      BY <1>3 DEF GatewayStep, Checkout, Settle, Replay
    <2> QED BY <1>2, <2>1
  <1>4. ASSUME NEW h \in Handler, EnterStep(h)
        PROVE  AppliedOnce(a)'
    <2>1. PICK c \in Call, statement \in {"apply", "record refund"} : EnteredWith(h, c, statement)
      BY <1>4, Entered
    <2>2. /\ pc[h] = "idle" /\ pc' = [pc EXCEPT ![h] = statement]
          /\ call' = [call EXCEPT ![h] = c]
          /\ UNCHANGED <<event, activations, crashes>>
          /\ c.kind \in Verified => ~Processed(Validated(c.attempt))
      BY <2>1 DEF EnteredWith
    <2>3. pc'[h] = statement /\ call'[h] = c
      BY <2>2 DEF TypeOK, HandlerTypeOK
    <2>4. Idle
      BY <1>1, <2>2, <2>3 DEF Starting
    <2>5. AppliedOnce(a) /\ \A g \in Handler : pc[g] = "idle"
      BY <1>1, <2>2, <2>4 DEF ActivatesOnce, Idle
    <2>6. activations[a] = 0 \/ Processed(Validated(a))
      BY <2>5 DEF AppliedOnce
    <2>7. \A g \in Handler : pc'[g] = "apply" /\ call'[g].kind \in Verified /\ call'[g].attempt = a
             => activations'[a] = 0
      BY <2>2, <2>3, <2>5, <2>6 DEF TypeOK, HandlerTypeOK
    <2> QED BY <2>2, <2>5, <2>6, <2>7 DEF AppliedOnce, Processed
  <1>5. ASSUME NEW h \in Handler, Apply(h)
        PROVE  AppliedOnce(a)'
    <2> DEFINE c == call[h]
    <2>1. /\ pc[h] = "apply" /\ pc' = [pc EXCEPT ![h] = "record"] /\ call' = call
          /\ UNCHANGED <<event, crashes>>
      BY <1>5 DEF Apply, Goto
    <2>2. AppliedOnce(a) /\ \A g \in Handler : g # h => pc[g] = "idle"
      BY <1>1, <2>1 DEF ActivatesOnce, OneAtATime
    <2>3. \A g \in Handler : pc'[g] # "apply"
      BY <2>1, <2>2 DEF TypeOK, HandlerTypeOK
    <2>4. pc'[h] = "record" /\ c \in Call /\ c.kind # "refund"
          /\ c.kind \in {"success", "ipn", "fail", "cancel", "webhook", "refund"}
      BY <2>1 DEF TypeOK, HandlerTypeOK, CallIsServed, Call
    <2>5. CASE c.kind \in Verified /\ c.attempt = a
      <3>1. activations[a] = 0
        BY <2>1, <2>2, <2>5 DEF AppliedOnce
      <3>2. activations'[a] <= 1
        BY <1>5, <3>1 DEF Apply, TypeOK, CountTypeOK
      <3> QED BY <2>1, <2>3, <2>4, <2>5, <3>2 DEF AppliedOnce
    <2>6. CASE ~(c.kind \in Verified /\ c.attempt = a)
      <3>1. activations'[a] = activations[a]
        <4>1. CASE c.attempt = a
          <5>1. c.kind \in {"fail", "cancel"} \/ c.kind = "webhook"
            BY <2>4, <2>6, <4>1 DEF Verified
          <5>2. c.kind = "webhook" \/ SubscriptionStatus(ProviderStatus(c)) # "ACTIVE"
            BY <2>4, <5>1, StatusesTyped
          <5> QED BY <1>5, <5>2 DEF Apply, TypeOK, CountTypeOK
        <4>2. CASE c.attempt # a
          BY <1>5, <4>2 DEF Apply, TypeOK, CountTypeOK
        <4> QED BY <4>1, <4>2
      <3>2. ~\E g \in Handler :
                pc[g] = "record" /\ call[g].kind \in Verified /\ call[g].attempt = a
        BY <2>1, <2>2
      <3> QED BY <2>1, <2>2, <2>3, <3>1, <3>2 DEF AppliedOnce, Processed
    <2> QED BY <2>5, <2>6
  <1>6. ASSUME NEW h \in Handler, ReturnStep(h)
        PROVE  AppliedOnce(a)'
    <2>1. ~CrashHandler(h)
      BY DEF CrashHandler, TypeOK, CountTypeOK
    <2>2. /\ crashes' = crashes /\ activations' = activations
          /\ \A g \in Handler : pc'[g] = "apply" \/ pc'[g] = "record" =>
                g # h /\ pc[g] = pc'[g] /\ call'[g] = call[g]
          /\ \A g \in Handler : g # h => pc'[g] = pc[g] /\ call'[g] = call[g]
      BY <1>6, <2>1, Returned DEF ReturnStep, Record, RecordRefund, Downgrade, TypeOK
    <2>3. AppliedOnce(a) /\ (activations[a] > 0 => payment[a] = "paid") /\ activations[a] \in Nat
      BY <1>1, <2>2 DEF ActivatesOnce, TypeOK, CountTypeOK
    <2>4. activations[a] > 0 => Processed(Validated(a))' \/ \E g \in Handler :
             pc'[g] = "record" /\ call'[g].kind \in Verified /\ call'[g].attempt = a
      <3>1. CASE Record(h)
        BY <2>2, <2>3, <3>1, RecordedAsPaid DEF AppliedOnce
      <3>2. CASE ~Record(h)
        <4>1. event'[Validated(a)] = event[Validated(a)] /\ pc[h] # "record"
          <5>1. CASE RecordRefund(h)
            <6>1. call[h] \in Call /\ call[h].kind = "refund"
              BY <5>1 DEF RecordRefund, CallIsServed
            <6>2. IdOf(call[h]) # Validated(a)
              BY <6>1, OnlyItsNotice DEF Verified
            <6>3. Validated(a) \in EventId
              BY DEF Validated, EventId, Provider
            <6> QED BY <5>1, <6>2, <6>3 DEF RecordRefund, TypeOK, StoreTypeOK
          <5>2. CASE Downgrade(h)
            BY <5>2 DEF Downgrade
          <5> QED BY <1>6, <2>1, <3>2, <5>1, <5>2 DEF ReturnStep
        <4>2. Processed(Validated(a))' <=> Processed(Validated(a))
          BY <4>1 DEF Processed, Validated
        <4> QED BY <2>2, <2>3, <4>1, <4>2 DEF AppliedOnce
      <3> QED BY <3>1, <3>2
    <2> QED BY <2>2, <2>3, <2>4 DEF AppliedOnce
  <1>7. CASE UserStep
    <2>1. UNCHANGED <<event, pc, call, activations, crashes>>
      BY <1>7 DEF UserStep, ChooseFree, ConfirmCheckout, CancelAtPeriodEnd
    <2> QED BY <1>2, <2>1
  <1>8. ASSUME NEW w \in Worker, WorkerStep(w)
        PROVE  AppliedOnce(a)'
    <2>1. UNCHANGED <<event, pc, call, activations>> /\ crashes' >= crashes /\ crashes \in Nat
      BY <1>8, Worked DEF TypeOK, CountTypeOK
    <2> QED BY <1>2, <2>1
  <1>9. CASE NextDay
    <2>1. UNCHANGED <<event, pc, call, activations, crashes>>
      BY <1>9 DEF NextDay
    <2> QED BY <1>2, <2>1
  <1> QED BY <1>3, <1>4, <1>5, <1>6, <1>7, <1>8, <1>9, LiveIsAKindOfStep

-----------------------------------------------------------------------------
LEMMA NextIInv ==
    ASSUME IInv, [Next]_vars
    PROVE  IInv'
  <1>1. CASE UNCHANGED vars
    <2>1. TypeOK'
      <3>1. StoreTypeOK' /\ HandlerTypeOK'
        BY <1>1 DEF vars, IInv, TypeOK, StoreTypeOK, HandlerTypeOK
      <3>2. DailyTypeOK' /\ CountTypeOK'
        BY <1>1 DEF vars, IInv, TypeOK, DailyTypeOK, CountTypeOK
      <3>3. byHand' \in BOOLEAN /\ overlapped' \in BOOLEAN
        BY <1>1 DEF vars, IInv, TypeOK
      <3> QED BY <3>1, <3>2, <3>3 DEF TypeOK
    <2>2. CallIsServed' /\ ActivePlanWasPaid'
      BY <1>1 DEF vars, IInv, CallIsServed, ActivePlanWasPaid
    <2>3. RemindedOnceADay' /\ MailingIsRecorded'
      BY <1>1 DEF vars, IInv, RemindedOnceADay, MailingIsRecorded
    <2>4. OneAtATime' /\ DunningIsDue'
      BY <1>1 DEF vars, IInv, OneAtATime, DunningIsDue, Overdue
    <2>5. ActivatesOnce'
      BY <1>1 DEF vars, IInv, ActivatesOnce, AppliedOnce, Processed
    <2> QED BY <2>1, <2>2, <2>3, <2>4, <2>5 DEF IInv
  <1>2. CASE Live /\ Watch
    <2> USE <1>2 DEF IInv
    <2>1. overlapped' \in BOOLEAN
      BY Zenon DEF Watch
    <2>2. TypeOK'
      BY <2>1, StoreTyped, OthersTyped DEF TypeOK
    <2> QED BY <2>2, OthersTyped, PaidStep, RemindStep, OneAtATimeStep, ActivateStep, DunningStep
  <1> QED BY <1>1, <1>2 DEF Next

THEOREM SpecIInv == Spec => []IInv
  <1>1. IInv /\ [Next]_vars => IInv'
    BY NextIInv
  <1> QED BY <1>1, InitIInv, PTL DEF Spec

\* For any number of payments and handlers, and however their notices, a
\* user's choices and the daily jobs interleave or die half-way: an active paid
\* plan was paid for, or activated by hand (billing.service.ts:357-370, 849-864).
THEOREM ActiveIsPaid == Spec => []ActivePlanWasPaid
  <1>1. IInv => ActivePlanWasPaid
    BY DEF IInv
  <1> QED BY <1>1, SpecIInv, PTL

\* However many instances run the daily job at once, the event with the day in
\* its id keeps the reminder single (billing-scheduler.service.ts:51-75).
THEOREM OneReminderADay == Spec => []RemindedOnceADay
  <1>1. IInv => RemindedOnceADay
    BY DEF IInv
  <1> QED BY <1>1, SpecIInv, PTL

\* Requests that come one after the other activate a payment once, however
\* often it is reported (billing.service.ts:331-348).
THEOREM NoDoubleActivation == Spec => []ActivatedOnce
  <1>1. IInv => ActivatedOnce
    BY DEF IInv, ActivatesOnce, AppliedOnce, ActivatedOnce
  <1> QED BY <1>1, SpecIInv, PTL

\* Jobs that do not overlap with anything cancel nobody who has paid or is
\* within the grace period (billing-scheduler.service.ts:103-134).
THEOREM DunningIsFair == Spec => DunningSparesThePaid
  <1> DEFINE Spares ==
          ~overlapped' /\ subscription.plan = "PAID" /\ subscription'.plan = "FREE"
             /\ subscription'.status = "CANCELLED" => Overdue
  <1>1. IInv /\ [Next]_vars => [Spares]_vars
    <2> SUFFICES ASSUME IInv, Live, Watch, ~overlapped', subscription.plan = "PAID",
                        subscription'.plan = "FREE", subscription'.status = "CANCELLED"
                 PROVE  Overdue
      BY DEF Next
    <2> USE DEF IInv, TypeOK
    <2>1. PICK w \in Worker : Dun(w)
      <3>1. ~GatewayStep
        BY DEF GatewayStep, Checkout, Settle, Replay
      <3>2. ASSUME NEW h \in Handler, EnterStep(h)
            PROVE  FALSE
        BY <3>2, Entered DEF EnteredWith
      <3>3. ASSUME NEW h \in Handler, Apply(h) \/ ReturnStep(h)
            PROVE  FALSE
        <4>1. ~Apply(h) /\ ~Downgrade(h)
          BY DEF Apply, Downgrade, Subscribed
        <4>2. ~Record(h) /\ ~RecordRefund(h) /\ ~CrashHandler(h)
          BY DEF Record, RecordRefund, CrashHandler
        <4> QED BY <3>3, <4>1, <4>2 DEF ReturnStep
      <3>4. ~UserStep /\ ~NextDay
        <4>1. ~ChooseFree /\ ~ConfirmCheckout
          BY DEF ChooseFree, ConfirmCheckout, Subscribed
        <4>2. ~CancelAtPeriodEnd /\ ~NextDay
          BY DEF CancelAtPeriodEnd, NextDay, StoreTypeOK, Subscription
        <4> QED BY <4>1, <4>2 DEF UserStep
      <3>5. ASSUME NEW v \in Worker, WorkerStep(v)
            PROVE  Dun(v)
        BY <3>5 DEF WorkerStep, Work, Remind, ReminderExists, RecordReminder, EmailReminder,
                    FindOverdue, CrashWorker
      <3> QED BY <3>1, <3>2, <3>3, <3>4, <3>5, LiveIsAKindOfStep
    <2>2. ~overlapped /\ job[w] = "dunning"
      BY <2>1, StartsAlone DEF Dun
    <2> QED BY <2>2 DEF DunningIsDue
  <1> QED BY <1>1, SpecIInv, PTL DEF Spec, DunningSparesThePaid
=============================================================================
