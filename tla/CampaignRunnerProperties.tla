---------------------- MODULE CampaignRunnerProperties ----------------------
(* What sending a campaign is meant to guarantee.                           *)
EXTENDS CampaignRunner

(* A request key is handed to the provider at most once, whatever workers   *)
(* overlap, die or are taken over (header of campaign-runner.ts: "a retried *)
(* worker never sends twice").                                              *)
KeyHandedOnce == \A k \in Keys : handed[k] <= 1

(* A contact is delivered again only after a manager's word, each time,     *)
(* that an uncertain attempt was not (retryRecipient: "never blind").       *)
NoBlindResend ==
    \A r \in Recipients : Cardinality({k \in delivered : k[1] = r}) <= 1 + attested[r]

(* The campaign's rows tell what happened.  Without such a word, whoever is  *)
(* back in the queue or counts as skipped or failed has not received the    *)
(* message; and a recipient counts as sent only if a message was delivered. *)
(* One exception is in the code: createOutboundMessage returns the          *)
(* cancelled message of an earlier run like an accepted one                 *)
(* (sendChannelMessage has the check), so a WhatsApp recipient may be sent  *)
(* by a cancelled message.                                                  *)
RecipientIsVerdict ==
    \A r \in Recipients :
        /\ attested[r] = 0 /\ recipient[r].status \in {"QUEUED", "SKIPPED", "FAILED"} =>
              \A k \in delivered : k[1] # r
        /\ recipient[r].status = "SENT" =>
              \/ \E k \in delivered : k[1] = r
              \/ campaign.whatsapp /\ \E k \in {r} \X Attempts : message[k] = "CANCELLED"

(* "Accepted ones are never re-labelled" (changeCampaignStatus): whatever    *)
(* is cancelled, retried or answered late, an accepted message stays so.    *)
AcceptedIsFinal ==
    [][\A k \in Keys : message[k] = "ACCEPTED" => message'[k] = "ACCEPTED"]_vars

(* A completed campaign has no recipient in a worker's hands.               *)
CompletedIsQuiet ==
    campaign.status = "COMPLETED" =>
        \A r \in Recipients : recipient[r].status # "PROCESSING"

(* A running campaign is completed, paused or cancelled in the end: no      *)
(* recipient keeps it running for ever, however often workers die.          *)
CampaignEnds == campaign.status = "RUNNING" ~> campaign.status # "RUNNING"

-----------------------------------------------------------------------------
(* The promise, seen in the recipients' rows and the provider's deliveries. *)
Stage(status) ==
    CASE status = "QUEUED" -> "waiting"
      [] status = "PROCESSING" -> "inhand"
      [] status = "SENT" -> "sent"
      [] status = "SKIPPED" -> "skipped"
      [] status = "FAILED" -> "failed"
      [] status = "UNKNOWN" -> "unknown"

Promise == INSTANCE SendingPromise WITH
    stage <- [r \in Recipients |-> Stage(recipient[r].status)],
    received <- [r \in Recipients |-> Cardinality({k \in delivered : k[1] = r})],
    word <- attested,
    excused <- {r \in Recipients : campaign.whatsapp
                    /\ \E k \in {r} \X Attempts : message[k] = "CANCELLED"}

(* Contact by contact a campaign does what SendingPromise says: it delivers  *)
(* only to whom it has in hand, sent and skipped recipients stay so, and     *)
(* none in doubt is touched before a manager's word.                         *)
KeepsSendingPromise == Promise!PromiseSpec
=============================================================================
