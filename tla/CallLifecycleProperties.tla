---------------------- MODULE CallLifecycleProperties ----------------------
(* What a call is meant to guarantee, whatever the provider's webhooks do.  *)
EXTENDS CallLifecycle

(* The state only moves forward (header of events.ts): no late, repeated or *)
(* reordered event and no slow dial response takes a call back, and an      *)
(* ended call stays ended.                                                  *)
StateOnlyForward == [][RANK[call'.status] >= RANK[call.status]]_vars

(* A call whose customer rang or answered is never written off as a         *)
(* technical failure (afterCallFinalized gives such an attempt back), and   *)
(* no event applied later makes it look so: a part of KeepsCallPromise.     *)
TechnicalNeverRang == call.technical => ~call.ringing /\ ~call.answered

(* No customer's phone rings before the agent has picked up (dialLeadLeg),  *)
(* in whatever order dials, webhooks and the poll happen: a part of          *)
(* KeepsCallPromise.                                                        *)
CustomerAfterAgent ==
    (\E l \in LeadLegs : leg[l] # "none") => [leg |-> AgentLeg, type |-> "answered"] \in emitted

(* An attempt counts as created only on proof: the provider has made a leg  *)
(* for that side (attempts.ts).                                             *)
CreatedIsProven ==
    \A s \in Sides :
        attempt[s] = "created" => \E l \in Legs : SideOf(l) = s /\ leg[l] # "none"

(* A customer is dialed once per call: "Idempotent per call" (dialLeadLeg), *)
(* "never re-sent" (docs/TELEPHONY_PROVIDERS.md).                           *)
LeadDialedOnce == Cardinality({l \in LeadLegs : leg[l] # "none"}) <= 1

(* A webhook is proof the leg exists (processProviderEvent): a call whose   *)
(* customer has answered is not closed as unconfirmed.                      *)
AnsweredIsProof == call.answered => ~call.unconfirmed

(* A hang-up the agent asked for ends the call, even if every webhook is    *)
(* lost (reconcileCall).                                                    *)
HangupEnds == call.hangup ~> Ended

(* A dial that timed out does not block the agent and the number for ever   *)
(* (reconcileCall).                                                         *)
PendingResolves == call.pending ~> ~call.pending \/ Ended

-----------------------------------------------------------------------------
(* The call's promise, seen in its row, the provider's legs and its events. *)
Noticed == call.ringing \/ call.answered

Promise == INSTANCE CallPromise WITH
    stage <- IF call.technical THEN "refunded" ELSE IF Ended THEN "ended" ELSE "live",
    agentIn <- [leg |-> AgentLeg, type |-> "answered"] \in emitted,
    rung <- \E l \in LeadLegs : leg[l] # "none",
    noticed <- Noticed

(* One call, with all its webhooks, requests, polls and crashes, is the few  *)
(* steps that DialQueue takes it for: it ends once, nothing that arrives     *)
(* after that is noted, only a phone that rang is noted, and an attempt is   *)
(* given back at most once, when nothing was.                                *)
KeepsCallPromise == Promise!PromiseSpec
=============================================================================
