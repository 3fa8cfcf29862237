----------------------------- MODULE MCServices -----------------------------
(***************************************************************************)
(* The components that stand alone, checked in one run: the scenario, chosen *)
(* at the start, says which of them moves while the others rest.  They     *)
(* share no state in the code either, so their interleavings add nothing.  *)
(***************************************************************************)
EXTENDS ProviderRouting, MCSequenceRuns, DeliveryStatus, Payments, DialerSession,
        ListAdmin, NumberOrders

VARIABLE scenario

servicesVars == <<scenario, routingVars, seqVars, deliveryVars, paymentVars, sessionVars,
                  listVars, orderVars>>

Scenarios == {"routing", "sequence", "delivery", "payment", "session", "lists", "number"}

ServicesInit ==
    /\ scenario \in Scenarios
    /\ RoutingInit /\ SeqInit /\ DeliveryInit /\ PaymentInit /\ SessionInit /\ ListInit
    /\ OrderInit
    /\ scenario # "delivery" => channel = "text"
    /\ place = CHOOSE f \in [LeadRows -> Lists] :      \* rows and lists are alike
                    \A r, q \in LeadRows : f[r] = f[q] => r = q

\* The others rest while one of them moves.
Rest(names) ==
    /\ UNCHANGED scenario
    /\ "routing" \in names => UNCHANGED routingVars
    /\ "sequence" \in names => UNCHANGED seqVars
    /\ "delivery" \in names => UNCHANGED deliveryVars
    /\ "payment" \in names => UNCHANGED paymentVars
    /\ "session" \in names => UNCHANGED sessionVars
    /\ "lists" \in names => UNCHANGED listVars
    /\ "number" \in names => UNCHANGED orderVars

OthersRest == Rest(Scenarios \ {scenario})

ServicesNext ==
    \/ scenario = "routing" /\ RoutingNext /\ OthersRest
    \/ scenario = "sequence" /\ SeqNext /\ OthersRest
    \/ scenario = "delivery" /\ DeliveryNext /\ OthersRest
    \/ scenario = "payment" /\ PaymentNext /\ OthersRest
    \/ scenario = "session" /\ SessionNext /\ OthersRest
    \/ scenario = "lists" /\ ListNext /\ OthersRest
    \/ scenario = "number" /\ OrderNext /\ OthersRest

ServicesSpec ==
    /\ ServicesInit /\ [][ServicesNext]_servicesVars
    /\ WF_servicesVars(scenario = "routing" /\ RoutingTick /\ OthersRest)
    /\ WF_servicesVars(scenario = "sequence" /\ (\E w \in SeqWorkers : SeqStep(w)) /\ OthersRest)

(* The types of all of them.                                                *)
ServicesTypeOK ==
    /\ RoutingTypeOK /\ SeqTypeOK /\ DeliveryTypeOK /\ PaymentTypeOK /\ SessionTypeOK
    /\ ListTypeOK /\ OrderTypeOK
=============================================================================
