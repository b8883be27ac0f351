------------------------------ MODULE Billing ------------------------------
(***************************************************************************)
(* BillingService and BillingSchedulerService: the subscription of one     *)
(* tenant, the payments it attempts through the SSL Wireless gateway, and  *)
(* the daily jobs.  No operation here runs in a transaction: every         *)
(* statement is committed when it returns, so a step is a statement and a  *)
(* handler may die between two of them.                                    *)
(*                                                                         *)
(* Time passes in days, while no handler and no job is running: they take  *)
(* seconds.  A period end is kept as the days left to it.                  *)
(***************************************************************************)
EXTENDS Integers, FiniteSets

CONSTANTS
    Attempt,        \* the payments attempted, each with its tran_id and val_id
    Handler,        \* the requests the server can be serving at once
    Worker,         \* the server's instances, each running the daily jobs
    Period, Grace,  \* the days of a billing period, and of DUNNING_GRACE_DAYS
    MaxNotices,     \* bound: the notices the gateway sends of an attempt
    MaxRequests,    \* bound: what the users ask for
    MaxCrashes      \* bound: handlers and jobs that die half-way

ASSUME DaysAssumption == Period \in Nat \ {0} /\ Grace \in Nat

VARIABLES
    subscription,   \* the TenantSubscription row
    event,          \* event[e]: the BillingEvent with external id e
    payment,        \* payment[a]: what became of attempt a at the gateway
    pc, call,       \* pc[h], call[h]: the statement and the request of handler h
    job,            \* job[w]: the statement that worker w's job is about to run
    reminder,       \* the last PAYMENT_RETRY_REMINDER: "today", "yesterday", "earlier"
    emailed,        \* the reminders mailed today
    activations,    \* activations[a]: the times attempt a activated the plan
    byHand,         \* a plan was activated by hand, not through the gateway
    overlapped,     \* two requests or jobs were running at once
    notices, requests, crashes

handlerVars == <<pc, call>>
dailyVars == <<job, reminder, emailed>>
ghostVars == <<activations, byHand>>
requestVars == <<notices, requests, crashes>>
vars == <<subscription, event, payment, handlerVars, dailyVars, ghostVars, overlapped,
          requestVars>>

\* A date further past than any comparison reaches.
LongAgo == -(Grace + 1)

Provider == {"manual", "ssl-wireless"}
EventId == Provider \X {"validated", "failed", "cancelled", "webhook", "refund"} \X Attempt
NoEvent == [type |-> "none", status |-> "none"]
NoCall == [kind |-> "none", attempt |-> CHOOSE a \in Attempt : TRUE, provider |-> "manual"]

\* What applySubscriptionChange writes, with the period starting now.
Subscribed(plan, status, provider) ==
    [plan |-> plan, status |-> status, left |-> Period, cancel |-> FALSE, provider |-> provider]

\* A tenant signs up on a trial of its plan.
Init ==
    /\ subscription = Subscribed("PAID", "TRIALING", "manual")
    /\ event = [e \in EventId |-> NoEvent]
    /\ payment = [a \in Attempt |-> "none"]
    /\ pc = [h \in Handler |-> "idle"]
    /\ call = [h \in Handler |-> NoCall]
    /\ job = [w \in Worker |-> "idle"]
    /\ reminder = "earlier"
    /\ emailed = 0
    /\ activations = [a \in Attempt |-> 0]
    /\ byHand = FALSE
    /\ overlapped = FALSE
    /\ notices = [a \in Attempt |-> 0]
    /\ requests = 0
    /\ crashes = 0

Idle == (\A h \in Handler : pc[h] = "idle") /\ (\A w \in Worker : job[w] = "idle")

Enter(h, kind, a, provider, statement) ==
    /\ pc[h] = "idle"
    /\ pc' = [pc EXCEPT ![h] = statement]
    /\ call' = [call EXCEPT ![h] = [kind |-> kind, attempt |-> a, provider |-> provider]]

Goto(h, statement) == pc' = [pc EXCEPT ![h] = statement] /\ UNCHANGED call

Return(h) ==
    /\ pc' = [pc EXCEPT ![h] = "idle"]
    /\ call' = [call EXCEPT ![h] = NoCall]

-----------------------------------------------------------------------------
(* The gateway, and what it tells the backend. *)

\* createCheckoutSession: the customer is sent to the payment page.
Checkout(a) ==
    /\ payment[a] = "none"
    /\ payment' = [payment EXCEPT ![a] = "open"]
    /\ UNCHANGED <<subscription, event, handlerVars, dailyVars, ghostVars, requestVars>>

Settle(a) ==
    /\ payment[a] = "open"
    /\ \E outcome \in {"paid", "invalid", "failed", "cancelled"} :
          payment' = [payment EXCEPT ![a] = outcome]
    /\ UNCHANGED <<subscription, event, handlerVars, dailyVars, ghostVars, requestVars>>

\* The browser's redirect, and for a completed payment the gateway's IPN.
Notices(a) ==
    CASE payment[a] \in {"paid", "invalid"} -> {"success", "ipn"}
      [] payment[a] = "failed" -> {"fail"}
      [] payment[a] = "cancelled" -> {"cancel"}
      [] OTHER -> {}

\* provider_name and external_event_id of the event a request records.
Validated(a) == <<"ssl-wireless", "validated", a>>
IdOf(c) ==
    <<c.provider,
      CASE c.kind \in {"success", "ipn"} -> "validated"
        [] c.kind = "fail" -> "failed"
        [] c.kind = "cancel" -> "cancelled"
        [] OTHER -> c.kind,
      c.attempt>>

\* findProcessedBillingEvent
ProcessedUnlessIpn(e) ==
    /\ event[e].type \in {"CALLBACK_SUCCESS", "MANUAL_WEBHOOK", "REFUND"}
    /\ event[e].status \in {"VALID", "ACTIVE", "COMPLETED"}
Processed(e) ==
    /\ event[e].type \in {"IPN", "CALLBACK_SUCCESS", "MANUAL_WEBHOOK", "REFUND"}
    /\ event[e].status \in {"VALID", "ACTIVE", "COMPLETED"}

-----------------------------------------------------------------------------
(* handleSslWirelessCallback *)

\* A success or an IPN that was processed already is answered at once.
Replay(a) ==
    /\ Notices(a) = {"success", "ipn"}
    /\ notices[a] < MaxNotices
    /\ Processed(Validated(a))
    /\ notices' = [notices EXCEPT ![a] = @ + 1]
    /\ UNCHANGED <<subscription, event, payment, handlerVars, dailyVars, ghostVars, requests,
                    crashes>>

ReceiveRecording(h, a) ==
    \E kind \in Notices(a) :
        /\ kind \in {"success", "ipn"} => ~Processed(Validated(a))
        /\ notices[a] < MaxNotices
        /\ Enter(h, kind, a, "ssl-wireless", "apply")
        /\ event' = [event EXCEPT ![Validated(a)] = [type |-> "IPN", status |-> "VALID"]]
        /\ notices' = [notices EXCEPT ![a] = @ + 1]
        /\ UNCHANGED <<subscription, payment, dailyVars, ghostVars, requests, crashes>>

\* The others go on to the gateway's validation, a failure or a cancellation
\* to applySubscriptionChange at once.
Receive(h, a) ==
    \E kind \in Notices(a) :
        /\ kind \in {"success", "ipn"} => ~Processed(Validated(a))
        /\ notices[a] < MaxNotices
        /\ Enter(h, kind, a, "ssl-wireless", "apply")
        /\ notices' = [notices EXCEPT ![a] = @ + 1]
        /\ UNCHANGED <<subscription, event, payment, dailyVars, ghostVars, requests, crashes>>

\* The status the gateway validates for a transaction, or the notice states.
ProviderStatus(c) ==
    CASE c.kind = "webhook" -> "ACTIVE"
      [] c.kind = "cancel" -> "CANCELLED"
      [] c.kind = "fail" -> "FAILED"
      [] OTHER -> IF payment[c.attempt] = "paid" THEN "VALID" ELSE "INVALID_TRANSACTION"

StatusUnlessCancelled(status) == IF status = "CANCELLED" THEN "CANCELLED" ELSE "ACTIVE"

\* mapSslWirelessStatusToSubscriptionStatus
SubscriptionStatus(status) ==
    CASE status \in {"VALID", "ACTIVE"} -> "ACTIVE"
      [] status = "CANCELLED" -> "CANCELLED"
      [] status \in {"FAILED", "INVALID_TRANSACTION"} -> "PAST_DUE"
      [] OTHER -> "TRIALING"

\* applySubscriptionChange: an upsert of the tenant's only subscription.
Apply(h) ==
    /\ pc[h] = "apply"
    /\ LET status == SubscriptionStatus(ProviderStatus(call[h]))
       IN  /\ subscription' = Subscribed("PAID", status, call[h].provider)
           /\ IF call[h].kind = "webhook"
              THEN byHand' = TRUE /\ UNCHANGED activations
              ELSE /\ activations' = [activations EXCEPT ![call[h].attempt] =
                                         IF status = "ACTIVE" THEN @ + 1 ELSE @]
                   /\ UNCHANGED byHand
    /\ Goto(h, "record")
    /\ UNCHANGED <<event, payment, dailyVars, requestVars>>

EventType(c) ==
    CASE c.kind = "ipn" -> "IPN"
      [] c.kind = "success" -> "CALLBACK_SUCCESS"
      [] c.kind = "fail" -> "CALLBACK_FAIL"
      [] c.kind = "webhook" -> "MANUAL_WEBHOOK"
      [] OTHER -> "CALLBACK_CANCEL"

\* recordBillingEvent: an upsert, whatever was recorded meanwhile.
Record(h) ==
    /\ pc[h] = "record"
    /\ event' = [event EXCEPT ![IdOf(call[h])] =
                    [type |-> EventType(call[h]), status |-> ProviderStatus(call[h])]]
    /\ Return(h)
    /\ UNCHANGED <<subscription, payment, dailyVars, ghostVars, requestVars>>

-----------------------------------------------------------------------------
(* What the users ask for. *)

Ask == requests < MaxRequests /\ requests' = requests + 1

\* createCheckoutSession of the FREE plan; its event is never read.
ChooseFree ==
    /\ Ask
    /\ subscription' = Subscribed("FREE", "ACTIVE", "manual")
    /\ UNCHANGED <<event, payment, handlerVars, dailyVars, ghostVars, notices, crashes>>

\* confirmCheckout, of a checkout that is settled outside the gateway.
ConfirmCheckout ==
    /\ Ask
    /\ subscription' = Subscribed("PAID", "ACTIVE", "manual")
    /\ byHand' = TRUE
    /\ UNCHANGED <<event, payment, handlerVars, dailyVars, activations, notices, crashes>>

\* handleManualWebhook goes the way of the gateway's notices.
ManualWebhook(h, a) ==
    /\ ~Processed(<<"manual", "webhook", a>>)
    /\ Ask
    /\ Enter(h, "webhook", a, "manual", "apply")
    /\ UNCHANGED <<subscription, event, payment, dailyVars, ghostVars, notices, crashes>>

CancelAtPeriodEnd ==
    /\ Ask
    /\ subscription' = [subscription EXCEPT !.cancel = TRUE]
    /\ UNCHANGED <<event, payment, handlerVars, dailyVars, ghostVars, notices, crashes>>

\* processRefund: the event first, under the provider of the subscription...
Refund(h, a) ==
    /\ payment[a] = "paid"
    /\ ~Processed(<<subscription.provider, "refund", a>>)
    /\ Ask
    /\ Enter(h, "refund", a, subscription.provider, "record refund")
    /\ UNCHANGED <<subscription, event, payment, dailyVars, ghostVars, notices, crashes>>

\* ...then, if the request says downgradeToFree, the plan.
RecordRefund(h) ==
    /\ pc[h] = "record refund"
    /\ event' = [event EXCEPT ![IdOf(call[h])] = [type |-> "REFUND", status |-> "COMPLETED"]]
    /\ Goto(h, "downgrade") \/ Return(h)
    /\ UNCHANGED <<subscription, payment, dailyVars, ghostVars, requestVars>>

Downgrade(h) ==
    /\ pc[h] = "downgrade"
    /\ subscription' = Subscribed("FREE", "ACTIVE", call[h].provider)
    /\ Return(h)
    /\ UNCHANGED <<event, payment, dailyVars, ghostVars, requestVars>>

-----------------------------------------------------------------------------
(* The daily jobs. *)

\* retryFailedPayments: a tenant within the grace period that got no reminder
\* in the last 24 hours.  Yesterday's may be less than 24 hours old.
Remind(w) ==
    /\ job[w] = "idle"
    /\ subscription.status = "PAST_DUE"
    /\ subscription.left >= -Grace
    /\ reminder # "today"
    /\ job' = [job EXCEPT ![w] = "reminder"]
    /\ UNCHANGED <<subscription, event, payment, handlerVars, reminder, emailed, ghostVars,
                    requestVars>>

\* The reminder's event has the day in its id: a second one is refused.
ReminderExists(w) ==
    /\ job[w] = "reminder"
    /\ reminder = "today"
    /\ job' = [job EXCEPT ![w] = "idle"]
    /\ UNCHANGED <<subscription, event, payment, handlerVars, reminder, emailed, ghostVars,
                    requestVars>>

RecordAnyReminder(w) ==
    /\ job[w] = "reminder"
    /\ reminder' = "today"
    /\ job' = [job EXCEPT ![w] = "email"]
    /\ UNCHANGED <<subscription, event, payment, handlerVars, emailed, ghostVars, requestVars>>

RecordReminder(w) ==
    /\ job[w] = "reminder"
    /\ reminder # "today"
    /\ reminder' = "today"
    /\ job' = [job EXCEPT ![w] = "email"]
    /\ UNCHANGED <<subscription, event, payment, handlerVars, emailed, ghostVars, requestVars>>

EmailReminder(w) ==
    /\ job[w] = "email"
    /\ emailed' = emailed + 1
    /\ job' = [job EXCEPT ![w] = "idle"]
    /\ UNCHANGED <<subscription, event, payment, handlerVars, reminder, ghostVars, requestVars>>

OverdueIfCancelled == subscription.status = "PAST_DUE" /\ subscription.cancel

\* performDunning's query.
Overdue == subscription.status = "PAST_DUE" /\ subscription.left < -Grace

FindPastDue(w) ==
    /\ job[w] = "idle"
    /\ subscription.status = "PAST_DUE"
    /\ job' = [job EXCEPT ![w] = "dunning"]
    /\ UNCHANGED <<subscription, event, payment, handlerVars, reminder, emailed, ghostVars,
                    requestVars>>

FindOverdue(w) ==
    /\ job[w] = "idle"
    /\ Overdue
    /\ job' = [job EXCEPT ![w] = "dunning"]
    /\ UNCHANGED <<subscription, event, payment, handlerVars, reminder, emailed, ghostVars,
                    requestVars>>

\* The update names the tenant only.
Dun(w) ==
    /\ job[w] = "dunning"
    /\ subscription' = [subscription EXCEPT !.status = "CANCELLED", !.plan = "FREE",
                                            !.cancel = FALSE]
    /\ job' = [job EXCEPT ![w] = "idle"]
    /\ UNCHANGED <<event, payment, handlerVars, reminder, emailed, ghostVars, requestVars>>

-----------------------------------------------------------------------------
(* The environment. *)

\* The process dies, the database or the gateway does not answer.
CrashHandler(h) ==
    /\ pc[h] # "idle"
    /\ crashes < MaxCrashes
    /\ crashes' = crashes + 1
    /\ Return(h)
    /\ UNCHANGED <<subscription, event, payment, dailyVars, ghostVars, notices, requests>>

CrashWorker(w) ==
    /\ job[w] # "idle"
    /\ crashes < MaxCrashes
    /\ crashes' = crashes + 1
    /\ job' = [job EXCEPT ![w] = "idle"]
    /\ UNCHANGED <<subscription, event, payment, handlerVars, reminder, emailed, ghostVars,
                    notices, requests>>

NextDay ==
    /\ Idle
    /\ subscription' = [subscription EXCEPT !.left = IF @ = LongAgo THEN @ ELSE @ - 1]
    /\ reminder' = IF reminder = "today" THEN "yesterday" ELSE "earlier"
    /\ emailed' = 0
    /\ UNCHANGED <<event, payment, handlerVars, job, ghostVars, requestVars>>

Serve(h) == Apply(h) \/ Record(h) \/ RecordRefund(h) \/ Downgrade(h)
Work(w) ==
    \/ Remind(w) \/ ReminderExists(w) \/ RecordReminder(w) \/ EmailReminder(w)
    \/ FindOverdue(w) \/ Dun(w)

Live ==
    \/ \E a \in Attempt : Checkout(a) \/ Settle(a) \/ Replay(a)
    \/ \E h \in Handler :
        \/ \E a \in Attempt : Receive(h, a) \/ ManualWebhook(h, a) \/ Refund(h, a)
        \/ Serve(h) \/ CrashHandler(h)
    \/ \E w \in Worker : Work(w) \/ CrashWorker(w)
    \/ ChooseFree \/ ConfirmCheckout \/ CancelAtPeriodEnd \/ NextDay

\* Not a part of the code: remembers whether a request or a job has ever started
\* before the one before it had ended.
Starting ==
    \/ requests' # requests
    \/ \E h \in Handler : pc[h] = "idle" /\ pc'[h] # "idle"
    \/ \E w \in Worker : job[w] = "idle" /\ job'[w] # "idle"

Watch == overlapped' = (overlapped \/ (~Idle /\ Starting))

Next == Live /\ Watch

Spec == Init /\ [][Next]_vars

\* Handlers that were entered and jobs that are due keep running, days pass,
\* and the gateway repeats a notice until it is answered.  Nobody has to pay,
\* to ask for anything, or to crash.
FairSpec ==
    /\ Spec
    /\ WF_vars(NextDay /\ Watch)
    /\ \A h \in Handler : WF_vars(Serve(h) /\ Watch)
    /\ \A w \in Worker : WF_vars(Work(w) /\ Watch)
    /\ \A a \in Attempt : SF_vars((\E h \in Handler : Receive(h, a)) /\ Watch)

-----------------------------------------------------------------------------
\* However notices of different payments interleave, a paid plan beyond its
\* trial is active only after a payment went through, or somebody activated
\* it by hand (billing.service.ts:357-370, 849-864).
ActivePlanWasPaid ==
    subscription.plan = "PAID" /\ subscription.status = "ACTIVE" /\ ~byHand
        => \E a \in Attempt : payment[a] = "paid" /\ activations[a] > 0

\* Instances running the same job mail a tenant one reminder a day at most
\* (billing-scheduler.service.ts:51-75).
RemindedOnceADay == emailed <= 1

\* A payment that went through is applied in the end, although handlers may
\* die between its statements, because notices are repeated (:322-385).
PaymentsAreApplied ==
    \A a \in Attempt : payment[a] = "paid" ~> Processed(Validated(a)) /\ activations[a] > 0

\* Nobody stays past due: a payment, a choice or the dunning job ends it
\* (billing-scheduler.service.ts:99-160).
PastDueEnds == subscription.status = "PAST_DUE" ~> subscription.status # "PAST_DUE"

-----------------------------------------------------------------------------
(* What holds as long as handlers and jobs do not overlap and none dies. *)

\* A payment activates the plan once, however often the gateway and the
\* browser report it (:331-348).
ActivatedOnce == ~overlapped /\ crashes = 0 => \A a \in Attempt : activations[a] <= 1

\* Dunning takes the plan only from a tenant past due and past its grace
\* period (billing-scheduler.service.ts:103-134).
DunningSparesThePaid ==
    [][~overlapped' /\ subscription.plan = "PAID" /\ subscription'.plan = "FREE"
          /\ subscription'.status = "CANCELLED" => Overdue]_vars

-----------------------------------------------------------------------------
(* What the documents promise. *)

\* A cancelled subscription gives access until its period ends, not beyond.
CancellationTakesEffect ==
    subscription.cancel /\ subscription.left < 0 ~>
        ~subscription.cancel \/ subscription.status \notin {"ACTIVE", "TRIALING"}
=============================================================================
