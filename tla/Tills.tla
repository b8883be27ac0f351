-------------------------------- MODULE Tills --------------------------------
(***************************************************************************)
(* CashierSessionsService: openSession, closeSession, addCashTransaction.  *)
(* Each checks what it has read, then writes; nothing is in a transaction. *)
(***************************************************************************)
EXTENDS Requests

CONSTANTS
    Session,   \* the documents that are cashier sessions
    SessionAt  \* SessionAt[s]: who opens s, and the counter, or NoCounter

SessionRow(s) == <<"session", s>>
Cash(t) == <<"cash", t>>      \* the CashTransaction that request t made, or 0
TillRows == {SessionRow(s) : s \in Session} \cup {Cash(t) : t \in Tx}

NoCounter == "none"
TillInitialRow(r) == IF r[1] = "session" THEN "none" ELSE 0

SeenSession(t) == Sees(t, SessionRow(source[t]))
OpenSeen(t) == {s \in Session : Sees(t, SessionRow(s)) = "OPEN"}
SameUser(s, u) == SessionAt[s].user = SessionAt[u].user
SameCounter(s, u) == SessionAt[s].counter = SessionAt[u].counter /\ SessionAt[s].counter # NoCounter

CheckUser(t) ==
    /\ At(t, "open_session", "idle")
    /\ SeenSession(t) = "none"
    /\ \A s \in OpenSeen(t) : ~SameUser(s, source[t])
    /\ Reads(t, Nothing, IF SessionAt[source[t]].counter = NoCounter THEN "open_session" ELSE "check_counter")

CounterFreeAnyway(t) == TRUE

CounterFree(t) == \A s \in OpenSeen(t) : ~SameCounter(s, source[t])

CheckCounter(t) ==
    /\ pc[t] = "check_counter"
    /\ IF CounterFree(t) THEN Reads(t, Nothing, "open_session") ELSE Throws(t, "refused")

OpenSession(t) ==
    /\ pc[t] = "open_session"
    /\ Stores(t, SessionRow(source[t]) :> "OPEN", "committed")

ReadForClose(t) ==
    /\ At(t, "close_session", "idle")
    /\ SeenSession(t) = "OPEN"
    /\ Reads(t, Nothing, "close_session")

CloseSession(t) ==
    /\ pc[t] = "close_session"
    /\ Stores(t, SessionRow(source[t]) :> "CLOSED", "committed")

TakesCashWhileOpen(status) == status = "OPEN"

ReadForCash(t) ==
    /\ At(t, "cash", "idle")
    /\ TakesCashWhileOpen(SeenSession(t))
    /\ Reads(t, Nothing, "cash")

AddCash(t) ==
    /\ pc[t] = "cash"
    /\ Stores(t, Cash(t) :> task[t].n, "committed")

TillStep(t) ==
    \/ CheckUser(t) \/ CheckCounter(t) \/ OpenSession(t)
    \/ ReadForClose(t) \/ CloseSession(t) \/ ReadForCash(t) \/ AddCash(t)
=============================================================================
