----------------------------- MODULE MoneyProofs -----------------------------
(* Proofs about money: NumberOrders and Payments.                            *)
EXTENDS NumberOrders, Payments, TLAPS

-----------------------------------------------------------------------------
(* Buying a number.                                                         *)

\* While a request is still to post the purchase no other has claimed the
\* order and nothing is submitted; once posted, the order is never quoted.
OneClaims ==
    \A q \in Requests : task[q] \in {"claimed", "checked"} =>
        /\ order = "submitting" /\ submitted = 0 /\ bought = 0
        /\ \A r \in Requests : task[r] \in {"claimed", "checked", "asked"} => r = q

AskedOnce == \A q \in Requests : task[q] = "asked" => order \notin {"none", "quoted"}

FoundIsBought ==
    \A q \in Requests :
        task[q] \in {"foundPending", "foundSuccess", "configuring", "attached"} => bought = 1

OrderInv == OrderTypeOK /\ OneClaims /\ AskedOnce /\ FoundIsBought /\ ChargedOnce

LEMMA OrderStart == OrderInit => OrderInv
<1> SUFFICES ASSUME OrderInit PROVE OrderInv
    OBVIOUS
<1>1. \A q \in Requests : task[q] = "idle"
    BY DEF OrderInit
<1>2. OrderTypeOK
    BY DEF OrderInit, OrderTypeOK, OrderState, Tasks
<1>3. ChargedOnce
    BY DEF OrderInit, ChargedOnce
<1> QED
    BY <1>1, <1>2, <1>3 DEF OrderInv, OneClaims, AskedOnce, FoundIsBought

LEMMA OrderKept == OrderInv /\ [OrderNext]_orderVars => OrderInv'
<1> SUFFICES ASSUME OrderInv, [OrderNext]_orderVars PROVE OrderInv'
    OBVIOUS
<1> USE DEF OrderInv, OrderTypeOK, OneClaims, AskedOnce, FoundIsBought, ChargedOnce,
            OrderState, Tasks, UnchangedRemote, At
<1>1. CASE Quote
    BY <1>1 DEF Quote
<1>2. CASE QuoteExpires
    BY <1>2 DEF QuoteExpires
<1>3. CASE ProviderCharges
    BY <1>3 DEF ProviderCharges
<1>4. CASE ProviderRefuses
    BY <1>4 DEF ProviderRefuses
<1>5. CASE ProviderCompletes
    BY <1>5 DEF ProviderCompletes
<1>6. ASSUME NEW q \in Requests, ConfirmPurchase(q) PROVE OrderInv'
    BY <1>6 DEF ConfirmPurchase, Confirmable
<1>7. ASSUME NEW q \in Requests, PriceHolds(q) PROVE OrderInv'
    BY <1>7 DEF PriceHolds
<1>8. ASSUME NEW q \in Requests, PriceChanged(q) PROVE OrderInv'
    BY <1>8 DEF PriceChanged
<1>9. ASSUME NEW q \in Requests, Purchase(q) PROVE OrderInv'
    <2> USE <1>9 DEF Purchase
    <2>1. /\ task[q] = "checked" /\ order = "submitting" /\ submitted = 0 /\ bought = 0
          /\ submitted' = 1 /\ bought' = 0 /\ order' = order
          /\ task' = [task EXCEPT ![q] = "asked"]
        OBVIOUS
    <2>2. \A r \in Requests : task'[r] \notin {"claimed", "checked"}
        BY <2>1
    <2>3. \A r \in Requests :
              task'[r] \notin {"foundPending", "foundSuccess", "configuring", "attached"}
        BY <2>1
    <2>4. OrderTypeOK'
        BY <2>1
    <2> QED
        BY <2>1, <2>2, <2>3, <2>4
<1>10. ASSUME NEW q \in Requests, RecordPurchase(q) PROVE OrderInv'
    BY <1>10 DEF RecordPurchase
<1>11. ASSUME NEW q \in Requests, RecordDoubt(q) PROVE OrderInv'
    <2>1. PICK from \in {"claimed", "asked"} : At(q, from, "reconciling")
        BY <1>11 DEF RecordDoubt
    <2>2. task' = [task EXCEPT ![q] = "reconciling"] /\ task[q] \in {"claimed", "asked"}
        BY <2>1
    <2>3. /\ order' = IF order = "submitting" THEN "unknown" ELSE order
          /\ UNCHANGED <<expired, submitted, bought, remote, attached>>
        BY <1>11 DEF RecordDoubt
    <2>4. OneClaims'
        BY <2>2, <2>3
    <2>5. (AskedOnce /\ FoundIsBought)'
        BY <2>2, <2>3
    <2>6. (OrderTypeOK /\ ChargedOnce)'
        BY <2>2, <2>3
    <2> QED
        BY <2>4, <2>5, <2>6
<1>12. ASSUME NEW q \in Requests, ReadOrder(q) PROVE OrderInv'
    BY <1>12 DEF ReadOrder
<1>13. ASSUME NEW q \in Requests, FindOrders(q) PROVE OrderInv'
    BY <1>13 DEF FindOrders
<1>14. ASSUME NEW q \in Requests, RecordFound(q) PROVE OrderInv'
    BY <1>14 DEF RecordFound
<1>15. ASSUME NEW q \in Requests, Configure(q) PROVE OrderInv'
    BY <1>15 DEF Configure
<1>16. ASSUME NEW q \in Requests, RecordReady(q) PROVE OrderInv'
    BY <1>16 DEF RecordReady
<1>17. ASSUME NEW q \in Requests, RequestDies(q) PROVE OrderInv'
    BY <1>17 DEF RequestDies
<1>18. CASE UNCHANGED orderVars
    BY <1>18 DEF orderVars
<1> QED
    BY <1>1, <1>2, <1>3, <1>4, <1>5, <1>6, <1>7, <1>8, <1>9, <1>10, <1>11, <1>12, <1>13,
       <1>14, <1>15, <1>16, <1>17, <1>18 DEF OrderNext

(* The number is charged at most once, for any number of overlapping        *)
(* requests (confirmNumberPurchase, reconcileNumberOrder).                  *)
THEOREM ChargedOnceHolds == OrderSpec => []ChargedOnce
<1>1. OrderInv => ChargedOnce
    BY DEF OrderInv
<1> QED
    BY <1>1, OrderStart, OrderKept, PTL DEF OrderSpec

-----------------------------------------------------------------------------
(* Payments.                                                                *)

ApprovalStands ==
    \A k \in PaymentKeys :
        /\ <<k, "approved">> \in notices => page[k] = "approved"
        /\ <<k, "declined">> \in notices => page[k] \in {"approved", "declined"}

\* An answer may be stale, but never wrong about a success.
AnswersHold ==
    \A h \in StatusReaders :
        /\ reader[h].pc = "handling" => reader[h].notice \in notices
        /\ reader[h].pc = "handling" /\ reader[h].answer = "succeeded" =>
                page[reader[h].notice[1]] = "approved"
        /\ reader[h].pc = "handling" /\ reader[h].notice[2] = "approved" =>
                reader[h].answer = "succeeded"
        /\ reader[h].pc = "polling" /\ reader[h].answer = "succeeded" =>
                page[reader[h].key] = "approved"

PaymentInv == PaymentTypeOK /\ ApprovalStands /\ AnswersHold /\ PaymentIsTruth

LEMMA PaymentStart == PaymentInit => PaymentInv
BY DEF PaymentInit, PaymentInv, PaymentTypeOK, ApprovalStands, AnswersHold, PaymentIsTruth,
       PaymentStatus, ReaderAt, NoReader

\* A request that counts as paid stays so, and an answer is applied rightly.
LEMMA AnswerApplied ==
    ASSUME PaymentInv, NEW k \in PaymentKeys, NEW answer \in {"pending", "succeeded", "failed"},
           answer = "succeeded" => page[k] = "approved"
    PROVE  LET after == applyStatus(k, answer)
           IN  /\ after \in [PaymentKeys ->
                        [status : PaymentStatus, creating : BOOLEAN, linked : BOOLEAN]]
               /\ \A j \in PaymentKeys :
                    /\ payment[j].status = "succeeded" => after[j].status = "succeeded"
                    /\ after[j].status = "succeeded" => page[j] = "approved"
               /\ answer = "succeeded" => after[k].status = "succeeded"
BY DEF PaymentInv, PaymentTypeOK, PaymentIsTruth, applyStatus, PaymentStatus, OPEN

LEMMA PaymentKept == PaymentInv /\ [PaymentNext]_paymentVars => PaymentInv'
<1> SUFFICES ASSUME PaymentInv, [PaymentNext]_paymentVars PROVE PaymentInv'
    OBVIOUS
<1> USE DEF PaymentInv, PaymentTypeOK, ApprovalStands, AnswersHold, PaymentIsTruth,
            PaymentStatus, OPEN
<1>1. ASSUME NEW k \in PaymentKeys, Reserve(k) PROVE PaymentInv'
    BY <1>1 DEF Reserve
<1>2. ASSUME NEW k \in PaymentKeys, PageCreated(k) PROVE PaymentInv'
    BY <1>2 DEF PageCreated, ReaderAt, Notices
<1>3. ASSUME NEW k \in PaymentKeys, StorePage(k) PROVE PaymentInv'
    BY <1>3 DEF StorePage
<1>4. ASSUME NEW k \in PaymentKeys, PageFails(k) PROVE PaymentInv'
    BY <1>4 DEF PageFails
<1>5. ASSUME NEW k \in PaymentKeys, CreatorDies(k) PROVE PaymentInv'
    BY <1>5 DEF CreatorDies
<1>6. ASSUME NEW k \in PaymentKeys, NEW verdict \in {"approved", "declined"},
             CustomerDecides(k, verdict)
      PROVE  PaymentInv'
    BY <1>6 DEF CustomerDecides, ReaderAt, Notices
<1>7. ASSUME NEW k \in PaymentKeys, CancelPayment(k) PROVE PaymentInv'
    BY <1>7 DEF CancelPayment
<1>8. ASSUME NEW h \in StatusReaders, NEW n \in Notices, FetchForNotice(h, n)
      PROVE  PaymentInv'
    <2>1. /\ n \in notices /\ n[1] \in PaymentKeys /\ n = <<n[1], n[2]>>
          /\ UNCHANGED <<payment, page, notices, recorded>>
        BY <1>8 DEF FetchForNotice, Notices
    <2>2. PICK a : a = fetchStatus(n[1])
        OBVIOUS
    <2>3. reader' = [reader EXCEPT ![h] = [pc |-> "handling", notice |-> n, answer |-> a]]
        BY <1>8, <2>2 DEF FetchForNotice
    <2>4. /\ a = "succeeded" => page[n[1]] = "approved"
          /\ n[2] = "approved" => a = "succeeded"
        BY <2>1, <2>2 DEF fetchStatus
    <2>5. a \in {"succeeded", "failed"}
        <3>1. n = <<n[1], "approved">> \/ n = <<n[1], "declined">>
            BY DEF Notices
        <3>2. page[n[1]] \in {"approved", "declined"}
            BY <2>1, <3>1
        <3> QED
            BY <2>2, <3>2 DEF fetchStatus
    <2>6. PaymentTypeOK'
        BY <2>1, <2>3, <2>5 DEF ReaderAt
    <2> QED
        BY <2>1, <2>3, <2>4, <2>6
<1>9. ASSUME NEW h \in StatusReaders, NEW k \in PaymentKeys, FetchForPoll(h, k)
      PROVE  PaymentInv'
    BY <1>9 DEF FetchForPoll, fetchStatus, ReaderAt
<1>10. ASSUME NEW h \in StatusReaders, ApplyNotice(h) PROVE PaymentInv'
    <2> DEFINE n == reader[h].notice
    <2>1. /\ reader[h].pc = "handling" /\ n \in Notices
          /\ reader[h].answer \in {"succeeded", "failed"}
        BY <1>10 DEF ApplyNotice, ReaderAt
    <2>2. n[1] \in PaymentKeys /\ n = <<n[1], n[2]>>
        BY <2>1 DEF Notices
    <2>3. /\ recorded' = recorded \cup {n} /\ UNCHANGED <<page, notices>>
          /\ reader' = [reader EXCEPT ![h] = [pc |-> "idle"]]
        BY <1>10 DEF ApplyNotice, NoReader
    <2>4. /\ payment' \in [PaymentKeys ->
                  [status : PaymentStatus, creating : BOOLEAN, linked : BOOLEAN]]
          /\ \A j \in PaymentKeys :
                /\ payment[j].status = "succeeded" => payment'[j].status = "succeeded"
                /\ payment'[j].status = "succeeded" => page[j] = "approved"
          /\ n \notin recorded /\ n[2] = "approved" => payment'[n[1]].status = "succeeded"
        <3>1. CASE n \in recorded
            BY <3>1, <1>10 DEF ApplyNotice
        <3>2. CASE n \notin recorded
            BY <3>2, <2>1, <2>2, <1>10, AnswerApplied DEF ApplyNotice
        <3> QED
            BY <3>1, <3>2
    <2>5. n \in notices
        BY <2>1
    <2>6. PaymentTypeOK'
        BY <2>1, <2>3, <2>4, <2>5 DEF ReaderAt
    <2>7. PaymentIsTruth'
        <3> SUFFICES ASSUME NEW k \in PaymentKeys, <<k, "approved">> \in recorded',
                            <<k, "approved">> \notin recorded
                     PROVE  payment'[k].status = "succeeded"
            BY <2>3, <2>4
        <3>1. n = <<k, "approved">>
            BY <2>3
        <3> QED
            BY <3>1, <2>4
    <2>8. (ApprovalStands /\ AnswersHold)'
        BY <2>3
    <2> QED
        BY <2>6, <2>7, <2>8
<1>11. ASSUME NEW h \in StatusReaders, ApplyPoll(h) PROVE PaymentInv'
    <2>1. /\ reader[h].pc = "polling" /\ reader[h].key \in PaymentKeys
          /\ reader[h].answer \in {"pending", "succeeded", "failed"}
        BY <1>11 DEF ApplyPoll, ReaderAt
    <2>2. /\ UNCHANGED <<page, notices, recorded>>
          /\ reader' = [reader EXCEPT ![h] = [pc |-> "idle"]]
        BY <1>11 DEF ApplyPoll, NoReader
    <2>3. /\ payment' \in [PaymentKeys ->
                  [status : PaymentStatus, creating : BOOLEAN, linked : BOOLEAN]]
          /\ \A j \in PaymentKeys :
                /\ payment[j].status = "succeeded" => payment'[j].status = "succeeded"
                /\ payment'[j].status = "succeeded" => page[j] = "approved"
        BY <2>1, <1>11, AnswerApplied DEF ApplyPoll
    <2>4. PaymentTypeOK'
        BY <2>2, <2>3 DEF ReaderAt
    <2> QED
        BY <2>2, <2>3, <2>4
<1>12. ASSUME NEW h \in StatusReaders, ReaderDies(h) PROVE PaymentInv'
    BY <1>12 DEF ReaderDies, ReaderAt, NoReader
<1>13. CASE UNCHANGED paymentVars
    BY <1>13 DEF paymentVars
<1> QED
    BY <1>1, <1>2, <1>3, <1>4, <1>5, <1>6, <1>7, <1>8, <1>9, <1>10, <1>11, <1>12, <1>13
       DEF PaymentNext

(* What the screen says of a payment is true, for any number of requests,   *)
(* late notifications and overlapping stale queries (applyStatus).          *)
THEOREM PaymentIsTruthHolds == PaymentSpec => []PaymentIsTruth
<1>1. PaymentInv => PaymentIsTruth
    BY DEF PaymentInv
<1> QED
    BY <1>1, PaymentStart, PaymentKept, PTL DEF PaymentSpec
=============================================================================
