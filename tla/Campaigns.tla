----------------------------- MODULE Campaigns -----------------------------
(***************************************************************************)
(* CrmCampaignsService: send, by a user or by the job for what is due,     *)
(* with the dispatch it leaves running; update and remove.  Nothing is in  *)
(* a transaction.                                                          *)
(***************************************************************************)
EXTENDS Requests

CONSTANTS
    Campaign,   \* the documents that are campaigns
    Audience    \* the customers a campaign is for

CampaignRow(c) == <<"campaign", c>>
Recipient(c, x) == <<"recipient", c, x>>   \* the status of the CrmCampaignRecipient
Messages(c, x) == <<"messages", c, x>>     \* what the customer's phone has received
CampaignRows ==
    {CampaignRow(c) : c \in Campaign}
        \cup {Recipient(c, x) : c \in Campaign, x \in Audience}
        \cup {Messages(c, x) : c \in Campaign, x \in Audience}

NoCampaign == [status |-> "none", delivered |-> 0]
CampaignInitialRow(r) ==
    CASE r[1] = "campaign" -> [status |-> "SCHEDULED", delivered |-> 0]
      [] r[1] = "recipient" -> "none"
      [] OTHER -> 0

SeenCampaign(t) == Sees(t, CampaignRow(source[t]))
RecipientsOf(t) == {Recipient(source[t], x) : x \in Audience}

UnlessCompleted(status) == status \in {"DRAFT", "SCHEDULED", "SENDING"}

NotSentYet(status) == status \in {"DRAFT", "SCHEDULED"}

ReadForSending(t) ==
    /\ At(t, "send_campaign", "idle")
    /\ NotSentYet(SeenCampaign(t).status)
    /\ Reads(t, [left |-> Audience, sent |-> << >>, delivered |-> 0], "set_sending")

SetSending(t) ==
    /\ pc[t] = "set_sending"
    /\ SeenCampaign(t) # NoCampaign
    /\ Stores(t, CampaignRow(source[t]) :> [SeenCampaign(t) EXCEPT !.status = "SENDING"], "add_recipients")

\* createMany, with skipDuplicates.
AddRecipients(t) ==
    /\ pc[t] = "add_recipients"
    /\ SeenCampaign(t) # NoCampaign
    /\ Stores(t, [r \in RecipientsOf(t) |-> IF Sees(t, r) = "none" THEN "PENDING" ELSE Sees(t, r)], "dispatch")

-----------------------------------------------------------------------------
(* dispatchCampaign, which goes on after the answer *)

\* The provider takes the message, or it or the credits refuse it.
Message(t) ==
    /\ pc[t] = "dispatch"
    /\ \E x \in read[t].left, sent \in BOOLEAN :
          /\ Autocommit(IF sent THEN Messages(source[t], x) :> Sees(t, Messages(source[t], x)) + 1 ELSE << >>)
          /\ read' = [read EXCEPT ![t].left = @ \ {x}, ![t].sent = x :> sent]
    /\ Goto(t, "record_recipient")
    /\ UNCHANGED <<locals, task>>

\* FAILED if anything in its turn went wrong, this statement included.
RecordRecipient(t) ==
    /\ pc[t] = "record_recipient"
    /\ \E x \in DOMAIN read[t].sent :
       \E status \in {"FAILED"} \cup IF read[t].sent[x] THEN {"SENT"} ELSE {} :
          /\ Autocommit(IF SeenCampaign(t) = NoCampaign THEN << >> ELSE Recipient(source[t], x) :> status)
          /\ read' = [read EXCEPT ![t].sent = << >>,
                                  ![t].delivered = IF status = "SENT" THEN @ + 1 ELSE @]
    /\ Goto(t, "dispatch")
    /\ UNCHANGED <<locals, task>>

CompleteCampaign(t) ==
    /\ pc[t] = "dispatch"
    /\ read[t].left = {}
    /\ SeenCampaign(t) # NoCampaign
    /\ Stores(t, CampaignRow(source[t]) :> [status |-> "COMPLETED", delivered |-> read[t].delivered], "committed")

-----------------------------------------------------------------------------
(* update, of the date, and remove *)

ReadForSchedule(t) ==
    /\ At(t, "schedule_campaign", "idle")
    /\ SeenCampaign(t).status \in {"DRAFT", "SCHEDULED"}
    /\ Reads(t, Nothing, "schedule")

Schedule(t) ==
    /\ pc[t] = "schedule"
    /\ SeenCampaign(t) # NoCampaign
    /\ Stores(t, CampaignRow(source[t]) :> [SeenCampaign(t) EXCEPT !.status = task[t].status], "committed")

ReadForRemoval(t) ==
    /\ At(t, "remove_campaign", "idle")
    /\ SeenCampaign(t).status \notin {"none", "SENDING"}
    /\ Reads(t, Nothing, "remove_campaign")

\* The recipients go with it.
RemoveCampaign(t) ==
    /\ pc[t] = "remove_campaign"
    /\ SeenCampaign(t) # NoCampaign
    /\ Stores(t, CampaignRow(source[t]) :> NoCampaign @@ [r \in RecipientsOf(t) |-> "none"], "committed")

CampaignGone(t) ==
    /\ \/ pc[t] \in {"set_sending", "add_recipients", "schedule", "remove_campaign"}
       \/ pc[t] = "dispatch" /\ read[t].left = {}
    /\ SeenCampaign(t) = NoCampaign
    /\ Throws(t, "failed")

CampaignStep(t) ==
    \/ ReadForSending(t) \/ SetSending(t) \/ AddRecipients(t) \/ Message(t) \/ RecordRecipient(t)
    \/ CompleteCampaign(t) \/ ReadForSchedule(t) \/ Schedule(t) \/ ReadForRemoval(t)
    \/ RemoveCampaign(t) \/ CampaignGone(t)
=============================================================================
