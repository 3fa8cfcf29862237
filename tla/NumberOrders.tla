---------------------------- MODULE NumberOrders ----------------------------
(***************************************************************************)
(* Buying one phone number: the order row of                               *)
(* src/src/lib/numbers/service.ts and the provider's order behind it.      *)
(*                                                                         *)
(* An owner's confirmation claims the quoted order under the number pool's *)
(* lock, checks the price again and posts the purchase with the order's id *)
(* as its reference; whatever happens then is reconciled by looking the    *)
(* order up at the provider.  Only the claim is made under a lock: every   *)
(* later write is by id, several requests may work on the order, and any   *)
(* of them may die.                                                        *)
(***************************************************************************)
EXTENDS Naturals

CONSTANTS Requests    \* the owner's requests on this order

VARIABLES
    order,    \* number_orders.state, "none" before the first quote
    expired,  \* the quote's expiresAt has passed
    submitted, \* purchase requests on their way to the provider
    bought,   \* the orders with this reference the provider has charged for
    remote,   \* the provider's status of its order
    attached, \* the number is configured for this application
    task      \* what each request is doing

orderVars == <<order, expired, submitted, bought, remote, attached, task>>

OrderState == {"none", "quoted", "submitting", "unknown", "pending", "configuring", "ready"}
Tasks == {"idle", "claimed", "checked", "asked",
          "reconciling", "looking", "foundPending", "foundSuccess", "configuring", "attached"}

OrderTypeOK ==
    /\ order \in OrderState
    /\ expired \in BOOLEAN /\ attached \in BOOLEAN
    /\ submitted \in Nat /\ bought \in Nat
    /\ remote \in {"placed", "success"}
    /\ task \in [Requests -> Tasks]

OrderInit ==
    /\ order = "none" /\ expired = FALSE
    /\ submitted = 0 /\ bought = 0 /\ remote = "placed" /\ attached = FALSE
    /\ task = [q \in Requests |-> "idle"]

At(q, from, to) == task[q] = from /\ task' = [task EXCEPT ![q] = to]
UnchangedRemote == UNCHANGED <<submitted, bought, remote, attached>>

-----------------------------------------------------------------------------
(* createNumberQuote never resets a purchase that has been submitted.       *)
Quote ==
    /\ order \in {"none", "quoted"}
    /\ order' = "quoted" /\ expired' = FALSE
    /\ UnchangedRemote /\ UNCHANGED task

QuoteExpires ==
    /\ expired' = TRUE
    /\ UnchangedRemote /\ UNCHANGED <<order, task>>

-----------------------------------------------------------------------------
(* confirmNumberPurchase.                                                   *)
ConfirmableUnlessBought == order \in {"quoted", "submitting", "unknown"} /\ ~expired
Confirmable == order = "quoted" /\ ~expired

\* A second click reconciles.
ConfirmPurchase(q) ==
    /\ order # "none"
    /\ \/ Confirmable /\ order' = "submitting" /\ At(q, "idle", "claimed")
       \/ order # "quoted" /\ At(q, "idle", "reconciling") /\ UNCHANGED order
    /\ UnchangedRemote /\ UNCHANGED expired

PriceHolds(q) ==
    /\ At(q, "claimed", "checked")
    /\ UnchangedRemote /\ UNCHANGED <<order, expired>>

PriceChanged(q) ==
    /\ At(q, "claimed", "idle")
    /\ order' = "quoted" /\ expired' = TRUE
    /\ UnchangedRemote

\* The POST: the provider charges or refuses, before or after a timeout.
Purchase(q) ==
    /\ At(q, "checked", "asked")
    /\ submitted' = submitted + 1
    /\ UNCHANGED <<order, expired, bought, remote, attached>>

RecordPurchase(q) ==
    /\ bought > 0 /\ At(q, "asked", "reconciling")
    /\ order' = "pending"
    /\ UnchangedRemote /\ UNCHANGED expired

\* Any error, the price check's request included: never the POST again.
RecordDoubt(q) ==
    /\ \E from \in {"claimed", "asked"} : At(q, from, "reconciling")
    /\ order' = IF order = "submitting" THEN "unknown" ELSE order
    /\ UnchangedRemote /\ UNCHANGED expired

-----------------------------------------------------------------------------
(* reconcileNumberOrder, after a confirmation or on request.                *)
ReadOrder(q) ==
    /\ \E from \in {"idle", "reconciling"} :
          At(q, from, IF order \in {"none", "quoted", "ready"} THEN "idle" ELSE "looking")
    /\ UnchangedRemote /\ UNCHANGED <<order, expired>>

\* No evidence is no permission to buy again.
FindOrders(q) ==
    /\ At(q, "looking", IF bought # 1 THEN "idle"
                        ELSE IF remote = "success" THEN "foundSuccess" ELSE "foundPending")
    /\ UnchangedRemote /\ UNCHANGED <<order, expired>>

RecordFound(q) ==
    /\ \/ At(q, "foundPending", "idle") /\ order' = "pending"
       \/ At(q, "foundSuccess", "configuring") /\ order' = "configuring"
    /\ UnchangedRemote /\ UNCHANGED expired

Configure(q) ==
    /\ \/ At(q, "configuring", "attached") /\ attached' = TRUE
       \/ At(q, "configuring", "idle") /\ UNCHANGED attached    \* fails, try again
    /\ UNCHANGED <<order, expired, submitted, bought, remote>>

RecordReady(q) ==
    /\ At(q, "attached", "idle")
    /\ order' = "ready"
    /\ UnchangedRemote /\ UNCHANGED expired

RequestDies(q) ==
    /\ task[q] # "idle" /\ At(q, task[q], "idle")
    /\ UnchangedRemote /\ UNCHANGED <<order, expired>>

ProviderCharges ==
    /\ submitted > 0 /\ submitted' = submitted - 1 /\ bought' = bought + 1
    /\ UNCHANGED <<order, expired, remote, attached, task>>

ProviderRefuses ==
    /\ submitted > 0 /\ submitted' = submitted - 1
    /\ UNCHANGED <<order, expired, bought, remote, attached, task>>

ProviderCompletes ==
    /\ bought > 0 /\ remote' = "success"
    /\ UNCHANGED <<order, expired, submitted, bought, attached, task>>

OrderNext ==
    \/ Quote \/ QuoteExpires
    \/ ProviderCharges \/ ProviderRefuses \/ ProviderCompletes
    \/ \E q \in Requests :
        \/ ConfirmPurchase(q) \/ PriceHolds(q) \/ PriceChanged(q)
        \/ Purchase(q) \/ RecordPurchase(q) \/ RecordDoubt(q)
        \/ ReadOrder(q) \/ FindOrders(q) \/ RecordFound(q)
        \/ Configure(q) \/ RecordReady(q) \/ RequestDies(q)

OrderSpec == OrderInit /\ [][OrderNext]_orderVars

-----------------------------------------------------------------------------
(* "Never double-charged": whatever was clicked twice, answered ambiguously, *)
(* reconciled at the same time or cut short, the number is bought at most   *)
(* once, a charged order is never offered for confirmation again, and an    *)
(* order that counts as bought has been charged (confirmNumberPurchase,     *)
(* reconcileNumberOrder).                                                   *)
ChargedOnce ==
    /\ submitted + bought <= 1
    /\ submitted + bought > 0 => order \notin {"none", "quoted"}
    /\ order \in {"pending", "configuring", "ready"} => bought = 1
=============================================================================
