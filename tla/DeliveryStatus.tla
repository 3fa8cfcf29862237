--------------------------- MODULE DeliveryStatus ---------------------------
(***************************************************************************)
(* The status of one outbound message: what the send's own answer and the  *)
(* provider's webhooks make of it.  SMS and email events go through        *)
(* src/src/server/services/delivery-status-service.ts (a receipt per event *)
(* and its effect in one transaction, the row locked), WhatsApp's through  *)
(* message-status-service.ts (look-up, compare-and-set, domain event: three *)
(* steps).  Webhooks are late, repeated, reordered and overlapping, and    *)
(* may overtake the answer of the request that created the message.        *)
(***************************************************************************)
EXTENDS Naturals

CONSTANTS Handling   \* webhook requests served at the same time

VARIABLES
    channel,   \* "text" (SMS, email) or "whatsapp"
    letter,    \* the messages row; known: providerMessageId is stored
    request,   \* the send's request: "asked", then answered or given up
    reported,  \* what the provider has reported so far
    receipts,  \* ProviderWebhookEvent rows
    webhook,   \* what each WhatsApp webhook request is doing
    seen,      \* history: reports that were applied to the stored message
    announced  \* a message.delivery_failed event exists

deliveryVars == <<channel, letter, request, reported, receipts, webhook, seen, announced>>

Failures == {"FAILED", "BOUNCED"}
Reports == {"SENT", "DELIVERED", "READ"} \cup Failures
Statuses == {"QUEUED", "UNKNOWN", "ACCEPTED", "CANCELLED"} \cup Reports
NoWebhook == [pc |-> "idle", report |-> "SENT"]

DeliveryTypeOK ==
    /\ channel \in {"text", "whatsapp"}
    /\ letter \in [status : Statuses, known : BOOLEAN]
    /\ request \in {"asked", "over"}
    /\ reported \subseteq Reports /\ receipts \subseteq reported /\ seen \subseteq reported
    /\ webhook \in [Handling -> [pc : {"idle", "found", "applied"}, report : Reports]]
    /\ announced \in BOOLEAN

\* The message is stored and its request is on its way.
DeliveryInit ==
    /\ channel \in {"text", "whatsapp"}
    /\ letter = [status |-> "QUEUED", known |-> FALSE]
    /\ request = "asked"
    /\ reported = {} /\ receipts = {} /\ seen = {}
    /\ webhook = [h \in Handling |-> NoWebhook]
    /\ announced = FALSE

-----------------------------------------------------------------------------
(* The provider and the send.                                               *)
ProviderReports(s) ==
    /\ s = "READ" => channel = "whatsapp"
    /\ s = "BOUNCED" => channel = "text"
    /\ reported' = reported \cup {s}
    /\ UNCHANGED <<channel, letter, request, receipts, webhook, seen, announced>>

\* The update after the request is by id, whatever the row holds.
SendAnswered ==
    /\ request = "asked" /\ request' = "over"
    /\ letter' = [status |-> "ACCEPTED", known |-> TRUE]
    /\ UNCHANGED <<channel, reported, receipts, webhook, seen, announced>>

SendTimedOut ==
    /\ request = "asked" /\ request' = "over"
    /\ letter' = [letter EXCEPT !.status = "UNKNOWN"]
    /\ UNCHANGED <<channel, reported, receipts, webhook, seen, announced>>

\* stopPendingMarketing cancels what is QUEUED, also while it is being sent.
CancelQueued ==
    /\ letter.status = "QUEUED"
    /\ letter' = [letter EXCEPT !.status = "CANCELLED"]
    /\ UNCHANGED <<channel, request, reported, receipts, webhook, seen, announced>>

-----------------------------------------------------------------------------
(* SMS and email: ingestProviderEvents, applyStatus.                        *)
Rank(s) == CASE s \in {"QUEUED", "UNKNOWN"} -> 0 [] s = "ACCEPTED" -> 1 [] s = "SENT" -> 2
             [] s = "DELIVERED" -> 3 [] s = "READ" -> 4 [] OTHER -> 9

TooLate(next, status) ==
    \/ Rank(status) >= 9
    \/ Rank(next) <= Rank(status)
    \/ Rank(next) >= 9 /\ status \in {"DELIVERED", "READ"}

Applied(s) ==
    IF TooLate(s, letter.status) THEN UNCHANGED <<letter, announced>>
    ELSE /\ letter' = [letter EXCEPT !.status = s]
         /\ announced' = (announced \/ s \in Failures)

IngestEvent(s) ==
    /\ channel = "text" /\ s \in reported \ receipts
    /\ receipts' = receipts \cup {s}
    /\ IF letter.known THEN Applied(s) /\ seen' = seen \cup {s}
       ELSE UNCHANGED <<letter, seen, announced>>        \* unknown_message
    /\ UNCHANGED <<channel, request, reported, webhook>>

-----------------------------------------------------------------------------
(* WhatsApp: updateProviderMessageStatus.                                   *)
Undecided == {"QUEUED", "UNKNOWN", "ACCEPTED"}

previousByOne(s) ==
    CASE s = "READ" -> {"DELIVERED"}
      [] s \in {"DELIVERED", "FAILED"} -> {"SENT"}
      [] OTHER -> Undecided

previousStatuses(s) ==
    CASE s = "READ" -> Undecided \cup {"SENT", "DELIVERED"}
      [] s \in {"DELIVERED", "FAILED"} -> Undecided \cup {"SENT"}
      [] s = "SENT" -> Undecided
      [] OTHER -> {}

FindMessage(h, s) ==
    /\ channel = "whatsapp" /\ s \in reported
    /\ webhook[h].pc = "idle" /\ letter.known
    /\ webhook' = [webhook EXCEPT ![h] = [pc |-> "found", report |-> s]]
    /\ UNCHANGED <<channel, letter, request, reported, receipts, seen, announced>>

SetStatus(h) ==
    LET s == webhook[h].report
        counts == letter.status \in previousStatuses(s)
    IN  /\ webhook[h].pc = "found"
        /\ letter' = IF counts THEN [letter EXCEPT !.status = s] ELSE letter
        /\ webhook' = [webhook EXCEPT ![h] =
                           IF counts /\ s = "FAILED" THEN [@ EXCEPT !.pc = "applied"] ELSE NoWebhook]
        /\ seen' = seen \cup {s}
        /\ UNCHANGED <<channel, request, reported, receipts, announced>>

AnnounceFailure(h) ==
    /\ webhook[h].pc = "applied"
    /\ webhook' = [webhook EXCEPT ![h] = NoWebhook]
    /\ announced' = TRUE
    /\ UNCHANGED <<channel, letter, request, reported, receipts, seen>>

WebhookDies(h) ==
    /\ webhook[h].pc # "idle"
    /\ webhook' = [webhook EXCEPT ![h] = NoWebhook]
    /\ UNCHANGED <<channel, letter, request, reported, receipts, seen, announced>>

DeliveryNext ==
    \/ \E s \in Reports : ProviderReports(s) \/ IngestEvent(s)
    \/ SendAnswered \/ SendTimedOut \/ CancelQueued
    \/ \E h \in Handling :
        \/ \E s \in Reports : FindMessage(h, s)
        \/ SetStatus(h) \/ AnnounceFailure(h) \/ WebhookDies(h)

DeliverySpec == DeliveryInit /\ [][DeliveryNext]_deliveryVars

-----------------------------------------------------------------------------
Furthest(reports) == CHOOSE s \in reports : \A t \in reports : Rank(t) <= Rank(s)

(* The status depends on WHICH reports have been applied, not on their order *)
(* or number: the furthest one, a failure being final; only when a provider *)
(* reports both a delivery and a failure, the first of the two stands       *)
(* ("statuses only move forward", "FAILED never overrides DELIVERED").  And *)
(* no failure is announced of a message that counts as delivered.           *)
StatusIsVerdict ==
    LET good == (seen \ Failures) \cup {"ACCEPTED"}
        bad == seen \cap Failures
    IN  /\ letter.known =>
            letter.status \in bad \cup (IF bad = {} \/ good \cap {"DELIVERED", "READ"} # {}
                                       THEN {Furthest(good)} ELSE {})
        /\ announced => letter.status \in Failures
=============================================================================
