--------------------------- MODULE WarrantyClaims ---------------------------
(***************************************************************************)
(* WarrantyClaimsService: create and updateStatus of a claim about a unit  *)
(* sold with its serial number.  Nothing in the program takes a unit into  *)
(* stock with a serial number, so no replacement can be found: REPLACED    *)
(* is refused, and is no step.  Warranties have not expired.               *)
(***************************************************************************)
EXTENDS Sales

Claim(t) == <<"claim", t>>   \* the WarrantyClaim that request t made
ClaimRows == {Claim(t) : t \in Tx}
NoClaim == [status |-> "none", serial |-> NoSerial, sale |-> "none"]

SeenSerial(t) == Sees(t, Serial(task[t].serial))

Claimable(t) == SeenSerial(t).status = "SOLD"

\* Only a SOLD unit; the claim names the sale it was sold with.
ReadForClaim(t) ==
    /\ At(t, "claim", "idle")
    /\ Claimable(t)
    /\ Reads(t, SeenSerial(t).sale, "claim")

MakeClaim(t) ==
    /\ pc[t] = "claim"
    /\ Ends(t, Claim(t) :> [status |-> "SUBMITTED", serial |-> task[t].serial, sale |-> read[t]]
                 @@ Serial(task[t].serial) :> [SeenSerial(t) EXCEPT !.status = "CLAIMED"])

\* Any status may follow any other.
SetClaimStatus(t) ==
    /\ At(t, "claim_status", "idle")
    /\ \E u \in Tx :
          /\ Sees(t, Claim(u)) # NoClaim
          /\ Ends(t, Claim(u) :> [Sees(t, Claim(u)) EXCEPT !.status = task[t].status])

ClaimStep(t) == ReadForClaim(t) \/ MakeClaim(t) \/ SetClaimStatus(t)
=============================================================================
