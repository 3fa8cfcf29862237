--------------------------- MODULE ServicesProofs ---------------------------
(***************************************************************************)
(* What the run of MCServices shows of seven components at once is shown   *)
(* of each: however a scenario moves them, every one behaves as its own    *)
(* specification says, so the theorems about the components hold of the    *)
(* composition that TLC checks.                                            *)
(***************************************************************************)
EXTENDS MCServices, DialerServicesProofs, MarketingProofs, MoneyProofs

LEMMA EachMovesOrRests ==
    ASSUME [ServicesNext]_servicesVars
    PROVE  /\ [RoutingNext]_routingVars /\ [SeqNext]_seqVars /\ [DeliveryNext]_deliveryVars
           /\ [PaymentNext]_paymentVars /\ [SessionNext]_sessionVars
           /\ [ListNext]_listVars /\ [OrderNext]_orderVars
<1>1. CASE UNCHANGED servicesVars
  BY <1>1 DEF servicesVars
<1>2. CASE scenario = "routing" /\ RoutingNext /\ OthersRest
  BY <1>2 DEF OthersRest, Rest, Scenarios
<1>3. CASE scenario = "sequence" /\ SeqNext /\ OthersRest
  BY <1>3 DEF OthersRest, Rest, Scenarios
<1>4. CASE scenario = "delivery" /\ DeliveryNext /\ OthersRest
  BY <1>4 DEF OthersRest, Rest, Scenarios
<1>5. CASE scenario = "payment" /\ PaymentNext /\ OthersRest
  BY <1>5 DEF OthersRest, Rest, Scenarios
<1>6. CASE scenario = "session" /\ SessionNext /\ OthersRest
  BY <1>6 DEF OthersRest, Rest, Scenarios
<1>7. CASE scenario = "lists" /\ ListNext /\ OthersRest
  BY <1>7 DEF OthersRest, Rest, Scenarios
<1>8. CASE scenario = "number" /\ OrderNext /\ OthersRest
  BY <1>8 DEF OthersRest, Rest, Scenarios
<1> QED
  BY <1>1, <1>2, <1>3, <1>4, <1>5, <1>6, <1>7, <1>8 DEF ServicesNext

(* The composition implements every component: in each scenario the         *)
(* component that moves takes its own steps, and the others stand still, as *)
(* the code's components do, which share no state.                          *)
THEOREM ServicesImplementComponents ==
    ServicesSpec => /\ RoutingSpec /\ SeqSpec /\ DeliverySpec /\ PaymentSpec
                    /\ SessionSpec /\ ListSpec /\ OrderSpec
<1>1. ServicesInit => /\ RoutingInit /\ SeqInit /\ DeliveryInit /\ PaymentInit
                      /\ SessionInit /\ ListInit /\ OrderInit
  BY DEF ServicesInit
<1>2. [ServicesNext]_servicesVars =>
        /\ [RoutingNext]_routingVars /\ [SeqNext]_seqVars /\ [DeliveryNext]_deliveryVars
        /\ [PaymentNext]_paymentVars /\ [SessionNext]_sessionVars
        /\ [ListNext]_listVars /\ [OrderNext]_orderVars
  BY EachMovesOrRests
<1> QED
  BY <1>1, <1>2, PTL
     DEF ServicesSpec, RoutingSpec, SeqSpec, DeliverySpec, PaymentSpec, SessionSpec,
         ListSpec, OrderSpec

(* Rows and requests keep their types in all seven components, whatever the *)
(* number of workers, requests, readers, sessions, lists and steps.         *)
THEOREM ServicesTypeOKHolds == ServicesSpec => []ServicesTypeOK
<1>1. RoutingSpec => []RoutingTypeOK
  <2>1. RoutingInv => RoutingTypeOK
    BY DEF RoutingInv
  <2> QED
    BY <2>1, RoutingStart, RoutingKept, PTL DEF RoutingSpec
<1>2. SeqSpec => []SeqTypeOK
  <2>1. SeqInv => SeqTypeOK
    BY DEF SeqInv
  <2> QED
    BY <2>1, SeqStart, SeqKept, PTL DEF SeqSpec
<1>3. DeliverySpec => []DeliveryTypeOK
  <2>1. DeliveryInv => DeliveryTypeOK
    BY DEF DeliveryInv
  <2> QED
    BY <2>1, DeliveryStart, DeliveryKept, PTL DEF DeliverySpec
<1>4. PaymentSpec => []PaymentTypeOK
  <2>1. PaymentInv => PaymentTypeOK
    BY DEF PaymentInv
  <2> QED
    BY <2>1, PaymentStart, PaymentKept, PTL DEF PaymentSpec
<1>5. SessionSpec => []SessionTypeOK
  <2>1. SessionInv => SessionTypeOK
    BY DEF SessionInv
  <2> QED
    BY <2>1, SessionStart, SessionKept, PTL DEF SessionSpec
<1>6. ListSpec => []ListTypeOK
  <2>1. ListInv => ListTypeOK
    BY DEF ListInv
  <2> QED
    BY <2>1, ListStart, ListKept, PTL DEF ListSpec
<1>7. OrderSpec => []OrderTypeOK
  <2>1. OrderInv => OrderTypeOK
    BY DEF OrderInv
  <2> QED
    BY <2>1, OrderStart, OrderKept, PTL DEF OrderSpec
<1>8. RoutingTypeOK /\ SeqTypeOK /\ DeliveryTypeOK /\ PaymentTypeOK /\ SessionTypeOK
        /\ ListTypeOK /\ OrderTypeOK => ServicesTypeOK
  BY DEF ServicesTypeOK
<1> QED
  BY <1>1, <1>2, <1>3, <1>4, <1>5, <1>6, <1>7, <1>8, ServicesImplementComponents, PTL
=============================================================================
