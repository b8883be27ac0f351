----------------------------- MODULE Production -----------------------------
(***************************************************************************)
(* ManufacturingService: startJob, completeJob and cancelJob.  Each first  *)
(* reads the job, outside the transaction if it has one.  A recipe has one *)
(* component, in the warehouse jobs work in.                               *)
(***************************************************************************)
EXTENDS Requests

CONSTANTS
    Job,            \* the documents that are production jobs
    ComponentShelf, \* the shelf of the component; ShelfOf[j] is that of the product
    Consumed,       \* Consumed[j]: the units of the component j takes
    Output          \* Output[j]: the units of the product it makes

JobStatus(j) == <<"job", j>>
ProductionRows == {JobStatus(j) : j \in Job}
SeenJob(t) == Sees(t, JobStatus(source[t]))

StartableIn(status) == status = "DRAFT"
CompletableIn(status) == status = "IN_PROGRESS"
CancellableIn(status) == status \notin {"COMPLETED", "CANCELLED"}

\* The stock is looked at, and not taken.
ReadForStart(t) ==
    /\ At(t, "start_job", "idle")
    /\ StartableIn(SeenJob(t))
    /\ Reads(t, "IN_PROGRESS", "check_components")

CheckComponents(t) ==
    /\ pc[t] = "check_components"
    /\ IF StockLeft(t, ComponentShelf, -Consumed[source[t]])
       THEN Reads(t, read[t], "set_job")
       ELSE Throws(t, "refused")

ReadForCancel(t) ==
    /\ At(t, "cancel_job", "idle")
    /\ CancellableIn(SeenJob(t))
    /\ Reads(t, "CANCELLED", "set_job")

SetJob(t) ==
    /\ pc[t] = "set_job"
    /\ Stores(t, JobStatus(source[t]) :> read[t], "committed")

ReadForCompletion(t) ==
    /\ At(t, "complete_job", "idle")
    /\ CompletableIn(SeenJob(t))
    /\ Reads(t, Nothing, "consume")

Consume(t) ==
    /\ pc[t] = "consume"
    /\ StockLeft(t, ComponentShelf, -Consumed[source[t]])
    /\ Writes(t, Stock(ComponentShelf) :> Moved(t, ComponentShelf, -Consumed[source[t]]), "yield")

ConsumeShort(t) == pc[t] = "consume" /\ Shortage(t, ComponentShelf, -Consumed[source[t]])

\* The product, and the status whatever it has become.
Yield(t) ==
    /\ pc[t] = "yield"
    /\ Ends(t, Stock(Shop(t)) :> Moved(t, Shop(t), Output[source[t]])
                 @@ JobStatus(source[t]) :> "COMPLETED")

ProductionStep(t) ==
    \/ ReadForStart(t) \/ CheckComponents(t) \/ ReadForCancel(t) \/ SetJob(t)
    \/ ReadForCompletion(t) \/ Consume(t) \/ ConsumeShort(t) \/ Yield(t)
=============================================================================
