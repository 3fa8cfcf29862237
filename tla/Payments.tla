------------------------------ MODULE Payments ------------------------------
(***************************************************************************)
(* Card payments for one item of one customer:                             *)
(* src/src/server/services/payment-service.ts.                             *)
(*                                                                         *)
(* A request is reserved in a transaction, its page is then created at the *)
(* provider, and the status is only ever learnt from the provider: a       *)
(* notification is followed by a status query, and the call screen polls.  *)
(* Queries are answered before the answer is applied, so answers are stale *)
(* and overlap; notifications are late, repeated or lost; the customer may *)
(* pay a page that was declined before or that the agent has cancelled.    *)
(***************************************************************************)
EXTENDS Naturals, FiniteSets

CONSTANTS PaymentKeys,    \* idempotency keys of requests for the same item
          StatusReaders   \* notification handlers and polling screens at work

VARIABLES
    payment,   \* PaymentRequest rows; linked: the provider's page id is stored
    page,      \* the pages at the provider
    notices,   \* the notifications the provider has sent
    recorded,  \* PaymentEvent rows
    reader     \* what each handler or screen knows

paymentVars == <<payment, page, notices, recorded, reader>>

PaymentStatus == {"none", "created", "pending", "failed", "cancelled", "succeeded"}
OPEN == {"created", "pending"}
Notices == PaymentKeys \X {"approved", "declined"}

ReaderAt == [pc : {"idle"}] \cup
            [pc : {"handling"}, notice : Notices, answer : {"succeeded", "failed"}] \cup
            [pc : {"polling"}, key : PaymentKeys, answer : {"pending", "succeeded", "failed"}]
NoReader == [pc |-> "idle"]

PaymentTypeOK ==
    /\ payment \in [PaymentKeys -> [status : PaymentStatus, creating : BOOLEAN, linked : BOOLEAN]]
    /\ page \in [PaymentKeys -> {"none", "open", "declined", "approved"}]
    /\ notices \subseteq Notices /\ recorded \subseteq notices
    /\ reader \in [StatusReaders -> ReaderAt]

PaymentInit ==
    /\ payment = [k \in PaymentKeys |-> [status |-> "none", creating |-> FALSE, linked |-> FALSE]]
    /\ page = [k \in PaymentKeys |-> "none"]
    /\ notices = {} /\ recorded = {}
    /\ reader = [h \in StatusReaders |-> NoReader]

-----------------------------------------------------------------------------
(* createPaymentRequest.  A key that exists, or an open request for the     *)
(* same item, is returned as it is.                                         *)
Reserve(k) ==
    /\ payment[k].status = "none"
    /\ \A j \in PaymentKeys : payment[j].status \notin OPEN
    /\ payment' = [payment EXCEPT ![k] = [@ EXCEPT !.status = "created", !.creating = TRUE]]
    /\ UNCHANGED <<page, notices, recorded, reader>>

\* The provider creates the page; its answer may still be lost.
PageCreated(k) ==
    /\ payment[k].creating /\ page[k] = "none"
    /\ page' = [page EXCEPT ![k] = "open"]
    /\ UNCHANGED <<payment, notices, recorded, reader>>

StorePage(k) ==
    /\ payment[k].creating /\ page[k] # "none"
    /\ payment' = [payment EXCEPT ![k] =
           [status |-> IF @.status = "created" THEN "pending" ELSE @.status,
            creating |-> FALSE, linked |-> TRUE]]
    /\ UNCHANGED <<page, notices, recorded, reader>>

PageFails(k) ==
    /\ payment[k].creating
    /\ payment' = [payment EXCEPT ![k] =
           [status |-> IF @.status = "created" THEN "failed" ELSE @.status,
            creating |-> FALSE, linked |-> @.linked]]
    /\ UNCHANGED <<page, notices, recorded, reader>>

CreatorDies(k) ==
    /\ payment[k].creating
    /\ payment' = [payment EXCEPT ![k].creating = FALSE]
    /\ UNCHANGED <<page, notices, recorded, reader>>

\* The customer has the page only once it is stored; the provider reports.
CustomerDecides(k, verdict) ==
    /\ payment[k].linked
    /\ page[k] \in {"open", "declined"}
    /\ page' = [page EXCEPT ![k] = verdict]
    /\ notices' = notices \cup {<<k, verdict>>}
    /\ UNCHANGED <<payment, recorded, reader>>

CancelPayment(k) ==
    /\ payment[k].status \in OPEN
    /\ payment' = [payment EXCEPT ![k].status = "cancelled"]
    /\ UNCHANGED <<page, notices, recorded, reader>>

-----------------------------------------------------------------------------
(* Status queries and their answers.                                        *)
fetchStatus(k) ==
    CASE page[k] = "approved" -> "succeeded"
      [] page[k] = "declined" -> "failed"
      [] OTHER -> "pending"

applyAnyAnswer(k, answer) ==
    IF answer = "pending" THEN payment ELSE [payment EXCEPT ![k].status = answer]

applyStatus(k, answer) ==
    CASE answer = "succeeded" -> [payment EXCEPT ![k].status = "succeeded"]
      [] answer = "failed" /\ payment[k].status \in OPEN -> [payment EXCEPT ![k].status = "failed"]
      [] OTHER -> payment

FetchForNotice(h, n) ==
    /\ reader[h].pc = "idle"
    /\ n \in notices \ recorded
    /\ reader' = [reader EXCEPT ![h] = [pc |-> "handling", notice |-> n, answer |-> fetchStatus(n[1])]]
    /\ UNCHANGED <<payment, page, notices, recorded>>

ApplyNotice(h) ==
    LET n == reader[h].notice
    IN  /\ reader[h].pc = "handling"
        /\ recorded' = recorded \cup {n}
        /\ payment' = IF n \in recorded THEN payment ELSE applyStatus(n[1], reader[h].answer)
        /\ reader' = [reader EXCEPT ![h] = NoReader]
        /\ UNCHANGED <<page, notices>>

FetchForPoll(h, k) ==
    /\ reader[h].pc = "idle"
    /\ payment[k].status \in {"pending", "cancelled"} /\ payment[k].linked
    /\ reader' = [reader EXCEPT ![h] = [pc |-> "polling", key |-> k, answer |-> fetchStatus(k)]]
    /\ UNCHANGED <<payment, page, notices, recorded>>

ApplyPoll(h) ==
    /\ reader[h].pc = "polling"
    /\ payment' = applyStatus(reader[h].key, reader[h].answer)
    /\ reader' = [reader EXCEPT ![h] = NoReader]
    /\ UNCHANGED <<page, notices, recorded>>

ReaderDies(h) ==
    /\ reader[h].pc # "idle"
    /\ reader' = [reader EXCEPT ![h] = NoReader]
    /\ UNCHANGED <<payment, page, notices, recorded>>

PaymentNext ==
    \/ \E k \in PaymentKeys :
        \/ Reserve(k) \/ PageCreated(k) \/ StorePage(k) \/ PageFails(k) \/ CreatorDies(k)
        \/ CustomerDecides(k, "approved") \/ CustomerDecides(k, "declined") \/ CancelPayment(k)
    \/ \E h \in StatusReaders :
        \/ \E n \in Notices : FetchForNotice(h, n)
        \/ \E k \in PaymentKeys : FetchForPoll(h, k)
        \/ ApplyNotice(h) \/ ApplyPoll(h) \/ ReaderDies(h)

PaymentSpec == PaymentInit /\ [][PaymentNext]_paymentVars

-----------------------------------------------------------------------------
(* The screen tells the truth: a request counts as paid only if its page is *)
(* approved, and once an approval has been recorded (its notification will  *)
(* not be handled again) the request counts as paid for good, whatever      *)
(* stale answer of an earlier query is applied afterwards and whether or    *)
(* not the agent cancelled it (applyStatus, handlePaymentWebhook).          *)
PaymentIsTruth ==
    \A k \in PaymentKeys :
        /\ payment[k].status = "succeeded" => page[k] = "approved"
        /\ <<k, "approved">> \in recorded => payment[k].status = "succeeded"
=============================================================================
