---------------------------- MODULE OfflineSales ----------------------------
(***************************************************************************)
(* The point of sale through connections that come and go: the checkout of *)
(* the page, the queue of sales it keeps in IndexedDB, and the two that    *)
(* post the queue, syncNow of useOfflineSync.ts and the service worker's   *)
(* syncPendingSales.                                                       *)
(***************************************************************************)
EXTENDS Naturals, FiniteSets

CONSTANTS
    Checkout,   \* the cashier's confirmations, each of the cart at hand
    NoCheckout

ASSUME NoCheckoutAssumption == NoCheckout \notin Checkout

VARIABLES
    connected,      \* navigator.onLine
    isOnline,       \* what the page has noticed of it
    serviceWorker,  \* a service worker controls the page, with Background Sync
    registered,     \* 'pos-sync' is registered
    checkout,       \* checkout[k]: what the cashier was told of confirmation k
    queue,          \* the confirmations in the 'pending-sales' store
    remaining,      \* remaining[j]: what job j has read of the queue and not sent
    sending,        \* sending[j]: what it is sending
    wire,           \* wire[s]: the state of the POST of sender s
    sales           \* sales[k]: the sales on the server from confirmation k: 0, 1 or 2 (more)

vars == <<connected, isOnline, serviceWorker, registered, checkout, queue, remaining,
          sending, wire, sales>>
browser == <<connected, isOnline, serviceWorker, registered>>

\* syncNow, of the page; and syncPendingSales, of the worker.
Job == {"page", "worker"}
Sender == Checkout \cup Job

ASSUME CheckoutAssumption == Checkout \cap Job = {}

Busy(j) == remaining[j] # {} \/ sending[j] # NoCheckout

\* The fields of a body, and those CreateSaleDto declares: main.ts forbids others.
SaleData ==
    {"storeId", "warehouseId", "counterId", "customerId", "discountAmount",
     "pointsToRedeem", "totalAmount", "amountPaid", "items", "payments"}
PendingSale == SaleData \cup {"id", "createdAt", "authToken", "tenantId"}
CreateSaleDto == SaleData \cup {"referenceNumber", "note"}

Body(s) == IF s \in Job THEN PendingSale \ {"id", "authToken", "tenantId"} ELSE SaleData

ValidStrippingOthers(s) == TRUE

Valid(s) == Body(s) \subseteq CreateSaleDto

\* The confirmation that sender s is about.
About(s) == IF s \in Job THEN sending[s] ELSE s

Init ==
    /\ connected \in BOOLEAN
    /\ isOnline = connected
    /\ serviceWorker \in BOOLEAN
    /\ registered = FALSE
    /\ checkout = [k \in Checkout |-> "none"]
    /\ queue = {}
    /\ remaining = [j \in Job |-> {}]
    /\ sending = [j \in Job |-> NoCheckout]
    /\ wire = [s \in Sender |-> "idle"]
    /\ sales = [k \in Checkout |-> 0]

-----------------------------------------------------------------------------
(* The connection, and the page's handlers of its events. *)

Connect ==
    /\ connected' = ~connected
    /\ UNCHANGED <<isOnline, serviceWorker, registered, checkout, queue, remaining, sending, wire, sales>>

Start(j) == remaining' = [remaining EXCEPT ![j] = queue]

NoticeOffline ==
    /\ isOnline /\ ~connected
    /\ isOnline' = FALSE
    /\ UNCHANGED <<connected, serviceWorker, registered, checkout, queue, remaining, sending, wire, sales>>

\* Background Sync is registered; without it, or failing that, syncNow runs,
\* unless it is running.
NoticeOnline ==
    /\ ~isOnline /\ connected
    /\ isOnline' = TRUE
    /\ \/ /\ serviceWorker
          /\ registered' = TRUE
          /\ UNCHANGED remaining
       \/ /\ IF Busy("page") THEN UNCHANGED remaining ELSE Start("page")
          /\ UNCHANGED registered
    /\ UNCHANGED <<connected, serviceWorker, checkout, queue, sending, wire, sales>>

\* The button is there while the page thinks it is offline.
SyncNow ==
    /\ ~isOnline
    /\ ~Busy("page")
    /\ Start("page")
    /\ UNCHANGED <<browser, checkout, queue, sending, wire, sales>>

BackgroundSync ==
    /\ registered /\ connected
    /\ ~Busy("worker")
    /\ registered' = FALSE
    /\ Start("worker")
    /\ UNCHANGED <<connected, isOnline, serviceWorker, checkout, queue, sending, wire, sales>>

\* The tab is closed or reloaded: what it was doing is forgotten.
Reload ==
    /\ isOnline' = connected
    /\ checkout' = [k \in Checkout |-> IF checkout[k] = "posting" THEN "gone" ELSE checkout[k]]
    /\ remaining' = [remaining EXCEPT !["page"] = {}]
    /\ sending' = [sending EXCEPT !["page"] = NoCheckout]
    /\ wire' = [s \in Sender |-> IF s = "worker" THEN wire[s] ELSE "idle"]
    /\ UNCHANGED <<connected, serviceWorker, registered, queue, sales>>

-----------------------------------------------------------------------------
(* handleConfirmCheckout; nothing keeps it from being called again while a   *)
(* POST is on its way.                                                       *)

Told(k, what) == checkout' = [checkout EXCEPT ![k] = what]
Idle(s) == wire' = [wire EXCEPT ![s] = "idle"]

\* Saved, unless IndexedDB fails.
Save(k) ==
    \/ Told(k, "saved") /\ queue' = queue \cup {k}
    \/ Told(k, "failed") /\ UNCHANGED queue

ConfirmOffline(k) ==
    /\ checkout[k] = "none"
    /\ ~isOnline
    /\ Save(k)
    /\ UNCHANGED <<browser, remaining, sending, wire, sales>>

ConfirmOnline(k) ==
    /\ checkout[k] = "none"
    /\ isOnline
    /\ Told(k, "posting")
    /\ wire' = [wire EXCEPT ![k] = "sent"]
    /\ UNCHANGED <<browser, queue, remaining, sending, sales>>

Answered(k) ==
    /\ wire[k] \in {"recorded", "refused"}
    /\ Told(k, IF wire[k] = "recorded" THEN "sold" ELSE "failed")
    /\ Idle(k)
    /\ UNCHANGED <<browser, queue, remaining, sending, sales>>

\* The service worker turns a network error into a 503 whose text is 'offline',
\* which the page takes for a network error only if the browser is offline.
NetworkError == ~connected \/ ~serviceWorker

Unanswered(k) ==
    /\ wire[k] # "idle"
    /\ IF NetworkError THEN Save(k) ELSE Told(k, "failed") /\ UNCHANGED queue
    /\ Idle(k)
    /\ UNCHANGED <<browser, remaining, sending, sales>>

-----------------------------------------------------------------------------
(* The server, and the jobs. *)

\* A valid sale is recorded, or refused for a reason of its own.
Record(s) ==
    /\ wire[s] = "sent" /\ connected
    /\ Valid(s)
    /\ wire' = [wire EXCEPT ![s] = "recorded"]
    /\ sales' = [sales EXCEPT ![About(s)] = IF @ = 2 THEN 2 ELSE @ + 1]
    /\ UNCHANGED <<browser, checkout, queue, remaining, sending>>

Refuse(s) ==
    /\ wire[s] = "sent" /\ connected
    /\ wire' = [wire EXCEPT ![s] = "refused"]
    /\ UNCHANGED <<browser, checkout, queue, remaining, sending, sales>>

Send(j) ==
    /\ sending[j] = NoCheckout
    /\ \E k \in remaining[j] :
          /\ sending' = [sending EXCEPT ![j] = k]
          /\ remaining' = [remaining EXCEPT ![j] = @ \ {k}]
    /\ wire' = [wire EXCEPT ![j] = "sent"]
    /\ UNCHANGED <<browser, checkout, queue, sales>>

GoesOn(j) == Idle(j) /\ sending' = [sending EXCEPT ![j] = NoCheckout]

LeavesAnyway(j) == TRUE

\* response.ok
LeavesQueue(j) == wire[j] = "recorded"

Reply(j) ==
    /\ wire[j] \in {"recorded", "refused"}
    /\ queue' = IF LeavesQueue(j) THEN queue \ {sending[j]} ELSE queue
    /\ GoesOn(j)
    /\ UNCHANGED <<browser, checkout, remaining, sales>>

NoReplyTryingAgain(j) ==
    /\ wire[j] # "idle"
    /\ wire' = [wire EXCEPT ![j] = "sent"]
    /\ UNCHANGED <<browser, checkout, queue, remaining, sending, sales>>

\* A network error, or the 503: left in the queue.
NoReply(j) ==
    /\ wire[j] # "idle"
    /\ GoesOn(j)
    /\ UNCHANGED <<browser, checkout, queue, remaining, sales>>

Settles(j) == Send(j) \/ Reply(j) \/ NoReply(j)

Next ==
    \/ Connect \/ NoticeOffline \/ NoticeOnline \/ SyncNow \/ BackgroundSync \/ Reload
    \/ \E k \in Checkout : ConfirmOffline(k) \/ ConfirmOnline(k) \/ Answered(k) \/ Unanswered(k)
    \/ \E s \in Sender : Record(s) \/ Refuse(s)
    \/ \E j \in Job : Send(j) \/ Reply(j) \/ NoReply(j)

\* A browser settles every fetch, and goes through the queue.
Spec == Init /\ [][Next]_vars /\ \A j \in Job : WF_vars(Settles(j))

\* The connection comes back whenever it goes, and goes again; the page notices;
\* and the jobs that start are not all cut short: of the sales they send some
\* reach the server, and are recorded if they can be.
ConnectedSpec ==
    /\ Spec
    /\ WF_vars(Connect) /\ SF_vars(NoticeOffline) /\ SF_vars(NoticeOnline)
    /\ SF_vars(SyncNow) /\ SF_vars(BackgroundSync)
    /\ \A j \in Job : SF_vars(connected /\ Send(j)) /\ SF_vars(Record(j))

-----------------------------------------------------------------------------
\* What the cashier was told was sold or saved is on the server or in the queue,
\* whatever was lost, reloaded or posted by both jobs since
\* (page.tsx:410-484, useOfflineSync.ts:47-66, sw.js:160-183).
NothingToldIsLost ==
    \A k \in Checkout :
        /\ checkout[k] = "sold" => sales[k] > 0
        /\ checkout[k] = "saved" => sales[k] > 0 \/ k \in queue

\* A confirmation is sold once at most, although two jobs post the queue and an
\* answer may be lost (page.tsx:410-484, useOfflineSync.ts:47-66, sw.js:160-183).
\* It is so because the server refuses whatever comes from the queue.
SoldOnce == \A k \in Checkout : sales[k] <= 1

\* A job that goes through the queue comes to its end, whatever the network does
\* (useOfflineSync.ts:36-73, sw.js:146-191).
SyncEnds == \A j \in Job : Busy(j) ~> ~Busy(j)

\* The cashier is told "Sale saved offline", and that it "will sync when online"
\* (core.ts:704): the server has it in the end.
QueuedSalesArrive == \A k \in Checkout : checkout[k] = "saved" ~> sales[k] > 0
=============================================================================
