---------------------------- MODULE CallPromise ----------------------------
(***************************************************************************)
(* What one call promises to the dial queue and to the people on it, with  *)
(* no webhook, request or poll in sight.  The agent picks up, then the     *)
(* customer's phone rings, then the call's row may note it; the call ends   *)
(* once, and after that nothing is noted any more; an attempt is given back *)
(* once, after the end, and only if nothing was noted.  DialQueue takes a   *)
(* call for these steps and no others.                                      *)
(***************************************************************************)
VARIABLES
    stage,     \* "live", "ended", or "refunded" as a technical failure
    agentIn,   \* the agent has picked up
    rung,      \* the provider has made a customer's leg
    noticed    \* the row says that the customer's phone rang or was answered

promiseVars == <<stage, agentIn, rung, noticed>>

PromiseInit == stage = "live" /\ ~agentIn /\ ~rung /\ ~noticed

AgentPicksUp ==
    /\ ~agentIn /\ agentIn' = TRUE
    /\ UNCHANGED <<stage, rung, noticed>>

PhoneRings ==
    /\ agentIn
    /\ ~rung /\ rung' = TRUE
    /\ UNCHANGED <<stage, agentIn, noticed>>

Notice ==
    /\ stage = "live" /\ rung
    /\ ~noticed /\ noticed' = TRUE
    /\ UNCHANGED <<stage, agentIn, rung>>

End ==
    /\ stage = "live" /\ stage' = "ended"
    /\ UNCHANGED <<agentIn, rung, noticed>>

Refund ==
    /\ stage = "ended" /\ ~noticed /\ stage' = "refunded"
    /\ UNCHANGED <<agentIn, rung, noticed>>

PromiseNext == AgentPicksUp \/ PhoneRings \/ Notice \/ End \/ Refund

PromiseSpec == PromiseInit /\ [][PromiseNext]_promiseVars
=============================================================================
