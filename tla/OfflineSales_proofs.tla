------------------------ MODULE OfflineSales_proofs ------------------------
(***************************************************************************)
(* Theorems of OfflineSales, for any number of confirmations: what the     *)
(* cashier was told was sold or saved is kept, and nothing is sold twice.  *)
(***************************************************************************)
EXTENDS OfflineSales, TLAPS

USE NoCheckoutAssumption, CheckoutAssumption

TypeOK ==
    /\ connected \in BOOLEAN /\ isOnline \in BOOLEAN
    /\ serviceWorker \in BOOLEAN /\ registered \in BOOLEAN
    /\ checkout \in [Checkout -> {"none", "posting", "sold", "saved", "failed", "gone"}]
    /\ queue \in SUBSET Checkout
    /\ remaining \in [Job -> SUBSET Checkout]
    /\ sending \in [Job -> Checkout \cup {NoCheckout}]
    /\ wire \in [Sender -> {"idle", "sent", "recorded", "refused"}]
    /\ sales \in [Checkout -> 0 .. 2]

-----------------------------------------------------------------------------
(* The inductive invariants.  That nothing is lost does not depend on what  *)
(* the server refuses; that nothing is sold twice does.                     *)

\* A POST on the wire is of a confirmation that waits for it, or of the sale
\* that the job is sending.
WireIsAwaited ==
    /\ \A k \in Checkout : wire[k] # "idle" => checkout[k] = "posting"
    /\ \A j \in Job : wire[j] # "idle" => sending[j] \in Checkout

\* An answer that says "recorded" is about a sale the server has.
RecordedIsOnServer ==
    \A s \in Sender : wire[s] = "recorded" => About(s) \in Checkout /\ sales[About(s)] > 0

KeptInv == TypeOK /\ WireIsAwaited /\ RecordedIsOnServer /\ NothingToldIsLost

\* A confirmation whose POST is not answered yet, or not made, has sold nothing.
UnsentIsUnsold ==
    \A k \in Checkout : checkout[k] = "none" \/ wire[k] = "sent" => sales[k] = 0

OnceInv == UnsentIsUnsold /\ SoldOnce
-----------------------------------------------------------------------------
LEMMA JobsAreNoCheckout ==
    /\ "page" \in Job /\ "worker" \in Job /\ "page" # "worker"
    /\ \A k \in Checkout : k \notin Job /\ k \in Sender /\ About(k) = k
    /\ \A j \in Job : j \notin Checkout /\ j \in Sender /\ About(j) = sending[j]
  BY DEF Job, Sender, About

LEMMA InitInv == Init => KeptInv /\ OnceInv
  <1> SUFFICES ASSUME Init PROVE KeptInv /\ OnceInv
    OBVIOUS
  <1>1. TypeOK
    <2>1. /\ connected \in BOOLEAN /\ isOnline \in BOOLEAN
          /\ serviceWorker \in BOOLEAN /\ registered \in BOOLEAN
      BY Zenon DEF Init
    <2>2. sales \in [Checkout -> 0 .. 2]
      BY DEF Init
    <2> QED BY <2>1, <2>2 DEF Init, TypeOK
  <1>2. \A s \in Sender : wire[s] = "idle"
    BY DEF Init
  <1>3. WireIsAwaited /\ RecordedIsOnServer
    BY <1>2, JobsAreNoCheckout DEF WireIsAwaited, RecordedIsOnServer
  <1>4. NothingToldIsLost /\ OnceInv
    BY DEF Init, NothingToldIsLost, OnceInv, UnsentIsUnsold, SoldOnce
  <1> QED BY <1>1, <1>3, <1>4 DEF KeptInv

\* The server's ValidationPipe refuses a field it does not know, such as the
\* createdAt that the queue adds (main.ts, useOfflineSync.ts:47-66).
LEMMA QueuedIsInvalid == \A j \in Job : ~Valid(j)
  <1>1. ASSUME NEW j \in Job
        PROVE  "createdAt" \in Body(j) /\ "createdAt" \notin CreateSaleDto
    BY DEF Body, PendingSale, SaleData, CreateSaleDto
  <1> QED BY <1>1 DEF Valid

-----------------------------------------------------------------------------
(* One lemma for each kind of step.  Save is the only way into the queue and *)
(* a recorded answer the only way out of it.                                 *)

\* The connection changes, or a job starts to go through the queue.
LEMMA ConnectionStep ==
    ASSUME KeptInv, OnceInv,
           Connect \/ NoticeOffline \/ NoticeOnline \/ SyncNow \/ BackgroundSync
    PROVE  KeptInv' /\ OnceInv'
  <1>1. UNCHANGED <<checkout, queue, sending, wire, sales>>
    BY DEF Connect, NoticeOffline, NoticeOnline, SyncNow, BackgroundSync
  <1>2. TypeOK'
    BY DEF KeptInv, TypeOK, Connect, NoticeOffline, NoticeOnline, SyncNow, BackgroundSync,
           Start, browser
  <1>3. \A s \in Sender : About(s)' = About(s)
    BY <1>1 DEF About
  <1> QED BY <1>1, <1>2, <1>3 DEF KeptInv, WireIsAwaited, RecordedIsOnServer,
               NothingToldIsLost, OnceInv, UnsentIsUnsold, SoldOnce

LEMMA ReloadStep ==
    ASSUME KeptInv, OnceInv, Reload
    PROVE  KeptInv' /\ OnceInv'
  <1> USE JobsAreNoCheckout
  <1>1. TypeOK'
    BY DEF KeptInv, TypeOK, Reload
  <1>2. /\ \A s \in Sender : s # "worker" => wire'[s] = "idle"
        /\ wire'["worker"] = wire["worker"]
        /\ sending'["worker"] = sending["worker"]
        /\ queue' = queue /\ sales' = sales
    BY DEF KeptInv, TypeOK, Reload
  <1>3. \A k \in Checkout : wire'[k] = "idle"
    BY <1>2
  <1>4. WireIsAwaited'
    BY <1>2, <1>3 DEF KeptInv, WireIsAwaited, Job
  <1>5. RecordedIsOnServer'
    <2> SUFFICES ASSUME NEW s \in Sender, wire'[s] = "recorded"
                 PROVE  About(s)' \in Checkout /\ sales'[About(s)'] > 0
      BY DEF RecordedIsOnServer
    <2>1. s = "worker" /\ About(s)' = About(s) /\ wire[s] = "recorded"
      BY <1>2 DEF About
    <2> QED BY <1>2, <2>1 DEF KeptInv, RecordedIsOnServer
  <1>6. NothingToldIsLost'
    BY <1>2 DEF KeptInv, TypeOK, NothingToldIsLost, Reload
  <1>7. OnceInv'
    BY <1>2, <1>3 DEF OnceInv, UnsentIsUnsold, SoldOnce, Reload
  <1> QED BY <1>1, <1>4, <1>5, <1>6, <1>7 DEF KeptInv

\* What the checkout of confirmation k does: it tells the cashier, and its own
\* POST is the only one it starts or ends.
LEMMA CheckoutStep ==
    ASSUME KeptInv, OnceInv, NEW k \in Checkout,
           ConfirmOffline(k) \/ ConfirmOnline(k) \/ Answered(k) \/ Unanswered(k)
    PROVE  KeptInv' /\ OnceInv'
  <1> USE JobsAreNoCheckout
  <1> USE DEF ConfirmOffline, ConfirmOnline, Answered, Unanswered, Save, Told, Idle, browser
  <1>1. TypeOK'
    BY DEF KeptInv, TypeOK
  <1>2. /\ sending' = sending /\ sales' = sales
        /\ \A s \in Sender : About(s)' = About(s)
    BY DEF About
  <1>3. \A s \in Sender : s # k => wire'[s] = wire[s]
    BY DEF KeptInv, TypeOK
  <1>4. \A q \in Checkout : q # k => checkout'[q] = checkout[q]
    BY DEF KeptInv, TypeOK
  <1>5. queue \subseteq queue' /\ (checkout'[k] = "saved" => k \in queue')
    BY DEF KeptInv, TypeOK, WireIsAwaited
  <1>6. wire'[k] \in {"idle", "sent"} /\ (wire'[k] # "idle" => checkout'[k] = "posting")
    BY DEF KeptInv, TypeOK, WireIsAwaited
  <1>7. WireIsAwaited'
    BY <1>2, <1>3, <1>4, <1>6 DEF KeptInv, WireIsAwaited
  <1>8. RecordedIsOnServer'
    BY <1>2, <1>3, <1>6 DEF KeptInv, RecordedIsOnServer
  <1>9. checkout'[k] = "sold" => sales[k] > 0
    <2> SUFFICES ASSUME checkout'[k] = "sold" PROVE sales[k] > 0
      OBVIOUS
    <2>1. wire[k] = "recorded"
      BY DEF KeptInv, TypeOK
    <2> QED BY <2>1 DEF KeptInv, RecordedIsOnServer
  <1>10. NothingToldIsLost'
    BY <1>2, <1>4, <1>5, <1>9 DEF KeptInv, NothingToldIsLost
  <1>11. checkout'[k] # "none" /\ (wire'[k] = "sent" => checkout[k] = "none" \/ wire[k] = "sent")
    BY DEF KeptInv, TypeOK
  <1>12. OnceInv'
    BY <1>2, <1>3, <1>4, <1>11 DEF OnceInv, UnsentIsUnsold, SoldOnce
  <1> QED BY <1>1, <1>7, <1>8, <1>10, <1>12 DEF KeptInv

\* The server records or refuses what sender s posts.
LEMMA ServerStep ==
    ASSUME KeptInv, OnceInv, NEW s \in Sender, Record(s) \/ Refuse(s)
    PROVE  KeptInv' /\ OnceInv'
  <1> USE JobsAreNoCheckout
  <1>1. UNCHANGED <<checkout, queue, remaining, sending, browser>> /\ wire[s] = "sent"
    BY DEF Record, Refuse
  <1>2. \A u \in Sender : About(u)' = About(u)
    BY <1>1 DEF About
  <1>3. wire'[s] # "idle" /\ \A u \in Sender : u # s => wire'[u] = wire[u]
    BY DEF KeptInv, TypeOK, Record, Refuse
  <1>4. About(s) \in Checkout
    BY <1>1 DEF KeptInv, WireIsAwaited, Sender
  <1>5. WireIsAwaited'
    BY <1>1, <1>3 DEF KeptInv, WireIsAwaited
  <1>6. \A k \in Checkout : sales'[k] >= sales[k]
    BY <1>4 DEF KeptInv, TypeOK, Record, Refuse
  <1>7. wire'[s] = "recorded" => sales'[About(s)] > 0
    BY <1>4 DEF KeptInv, TypeOK, Record, Refuse
  <1>8. TypeOK'
    BY <1>4 DEF KeptInv, TypeOK, Record, Refuse, browser
  <1>9. \A k \in Checkout : sales[k] > 0 => sales'[k] > 0
    BY <1>6, <1>8 DEF KeptInv, TypeOK
  <1>10. RecordedIsOnServer'
    BY <1>2, <1>3, <1>4, <1>7, <1>9 DEF KeptInv, RecordedIsOnServer
  <1>11. NothingToldIsLost'
    BY <1>1, <1>9 DEF KeptInv, NothingToldIsLost
  <1>12. OnceInv'
    <2>1. CASE Refuse(s)
      BY <1>1, <1>3, <2>1 DEF OnceInv, UnsentIsUnsold, SoldOnce, Refuse, KeptInv, TypeOK
    <2>2. CASE Record(s)
      <3>1. s \in Checkout /\ About(s) = s
        BY <2>2, QueuedIsInvalid DEF Record, Sender
      <3>2. sales[s] = 0 /\ checkout[s] = "posting"
        BY <1>1, <3>1 DEF OnceInv, UnsentIsUnsold, KeptInv, WireIsAwaited
      <3>3. sales' = [sales EXCEPT ![s] = 1] /\ wire'[s] = "recorded"
        BY <2>2, <3>1, <3>2 DEF Record, KeptInv, TypeOK
      <3> QED BY <1>1, <1>3, <3>1, <3>2, <3>3
              DEF OnceInv, UnsentIsUnsold, SoldOnce, KeptInv, TypeOK
    <2> QED BY <2>1, <2>2
  <1> QED BY <1>5, <1>8, <1>10, <1>11, <1>12 DEF KeptInv

\* A job sends the next sale of what it has read, or has done with it.
LEMMA JobStep ==
    ASSUME KeptInv, OnceInv, NEW j \in Job, Send(j) \/ Reply(j) \/ NoReply(j)
    PROVE  KeptInv' /\ OnceInv'
  <1> USE JobsAreNoCheckout
  <1> USE DEF Send, Reply, NoReply, GoesOn, Idle, LeavesQueue, browser
  <1>1. UNCHANGED <<checkout, sales>>
    OBVIOUS
  <1>2. TypeOK'
    BY DEF KeptInv, TypeOK
  <1>3. \A s \in Sender : s # j => wire'[s] = wire[s] /\ About(s)' = About(s)
    BY DEF KeptInv, TypeOK, About
  <1>4. wire'[j] \in {"idle", "sent"} /\ (wire'[j] # "idle" => sending'[j] \in Checkout)
    BY DEF KeptInv, TypeOK
  <1>5. \A i \in Job : i # j => sending'[i] = sending[i]
    BY DEF KeptInv, TypeOK
  <1>6. WireIsAwaited'
    BY <1>1, <1>3, <1>4, <1>5 DEF KeptInv, WireIsAwaited
  <1>7. RecordedIsOnServer'
    BY <1>1, <1>3, <1>4 DEF KeptInv, RecordedIsOnServer
  <1>8. \A k \in queue : k \in queue' \/ sales[k] > 0
    <2> SUFFICES ASSUME NEW k \in queue, k \notin queue' PROVE sales[k] > 0
      OBVIOUS
    <2>1. wire[j] = "recorded" /\ k = sending[j]
      OBVIOUS
    <2> QED BY <2>1 DEF KeptInv, RecordedIsOnServer
  <1>9. NothingToldIsLost'
    BY <1>1, <1>8 DEF KeptInv, NothingToldIsLost
  <1>10. OnceInv'
    BY <1>1, <1>3 DEF OnceInv, UnsentIsUnsold, SoldOnce
  <1> QED BY <1>2, <1>6, <1>7, <1>9, <1>10 DEF KeptInv

LEMMA NextInv ==
    ASSUME KeptInv, OnceInv, [Next]_vars
    PROVE  KeptInv' /\ OnceInv'
  <1>1. CASE UNCHANGED vars
    BY <1>1 DEF vars, KeptInv, TypeOK, WireIsAwaited, RecordedIsOnServer, About,
                NothingToldIsLost, OnceInv, UnsentIsUnsold, SoldOnce
  <1> QED BY <1>1, ConnectionStep, ReloadStep, CheckoutStep, ServerStep, JobStep DEF Next

-----------------------------------------------------------------------------
LEMMA SpecInv == Spec => [](KeptInv /\ OnceInv)
  <1>1. KeptInv /\ OnceInv /\ [Next]_vars => (KeptInv /\ OnceInv)'
    BY NextInv
  <1> QED BY <1>1, InitInv, PTL DEF Spec

\* However many confirmations are made, whatever connection is lost, page is
\* reloaded or answer goes missing between any two steps, what the cashier was
\* told was sold is on the server and what was saved is there or in the queue
\* (page.tsx:410-484, useOfflineSync.ts:47-66, sw.js:160-183).
THEOREM NothingIsLost == Spec => []NothingToldIsLost
  <1>1. KeptInv => NothingToldIsLost
    BY DEF KeptInv
  <1> QED BY <1>1, SpecInv, PTL

\* No confirmation becomes two sales, although the page and the service worker
\* post the same queue: the server refuses what either of them posts
\* (page.tsx:410-484, useOfflineSync.ts:47-66, sw.js:160-183).
THEOREM NoDoubleSale == Spec => []SoldOnce
  <1>1. OnceInv => SoldOnce
    BY DEF OnceInv
  <1> QED BY <1>1, SpecInv, PTL
=============================================================================
