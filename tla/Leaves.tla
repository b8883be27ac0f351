------------------------------- MODULE Leaves -------------------------------
(***************************************************************************)
(* AttendanceService: reviewLeaveRequest and cancelLeaveRequest, of the    *)
(* leaves of one employee, one type and one year.  The days used and the   *)
(* status are two statements, with no transaction around them.             *)
(***************************************************************************)
EXTENDS Requests

CONSTANTS
    LeaveDays   \* LeaveDays[x]: the days that the document x, a leave request, asks for

Leave == DOMAIN LeaveDays
LeaveRow(x) == <<"leave", x>>
UsedDays == <<"used_days">>
LeaveRows == {UsedDays} \cup {LeaveRow(x) : x \in Leave}
LeaveInitialRow(r) == IF r = UsedDays THEN 0 ELSE "PENDING"

SeenLeave(t) == Sees(t, LeaveRow(source[t]))

ReadForReview(t) ==
    /\ At(t, "review_leave", "idle")
    /\ SeenLeave(t) = "PENDING"
    /\ Reads(t, Nothing, IF task[t].status = "APPROVED" THEN "take_days" ELSE "set_leave")

TakeDays(t) ==
    /\ pc[t] = "take_days"
    /\ Stores(t, UsedDays :> Sees(t, UsedDays) + LeaveDays[source[t]], "set_leave")

TakenUnlessRejected(status) == status # "REJECTED"

HasTakenDays(status) == status = "APPROVED"

ReadForLeaveCancel(t) ==
    /\ At(t, "cancel_leave", "idle")
    /\ SeenLeave(t) # "CANCELLED"
    /\ Reads(t, Nothing, IF HasTakenDays(SeenLeave(t)) THEN "give_back_days" ELSE "set_leave")

GiveBackDays(t) ==
    /\ pc[t] = "give_back_days"
    /\ Stores(t, UsedDays :> Sees(t, UsedDays) - LeaveDays[source[t]], "set_leave")

\* Whatever the status has become.
SetLeave(t) ==
    /\ pc[t] = "set_leave"
    /\ Stores(t, LeaveRow(source[t]) :> task[t].status, "committed")

LeaveStep(t) ==
    \/ ReadForReview(t) \/ TakeDays(t) \/ ReadForLeaveCancel(t) \/ GiveBackDays(t) \/ SetLeave(t)
=============================================================================
