------------------------ MODULE CallLifecycleProofs ------------------------
(***************************************************************************)
(* Proofs about a call, for any number of webhook handlers and of legs the *)
(* provider may create.  The invariants speak of evidence: every event and *)
(* every dial response names a leg that exists, a handler that dials has   *)
(* an event of the agent's answer to show for it, and a call's flags no    *)
(* longer change once it is over.                                          *)
(***************************************************************************)
EXTENDS CallLifecycleProperties, TLAPS

AgentAnswer == [leg |-> AgentLeg, type |-> "answered"]

EventsAreProof == \A e \in emitted : leg[e.leg] # "none"

HandlersHaveProof ==
    \A w \in Workers :
        /\ worker[w].step # "idle" => AgentAnswer \in emitted
        /\ worker[w].leg # None => leg[worker[w].leg] # "none"

TechnicalIsOver == call.technical => Ended /\ ~call.ringing /\ ~call.answered

CoreInv ==
    /\ EventsAreProof
    /\ HandlersHaveProof
    /\ TechnicalIsOver
    /\ CustomerAfterAgent
    /\ CreatedIsProven

-----------------------------------------------------------------------------
LEMMA TypeInit == ASSUME CallLifecycleAssumption, Init PROVE TypeOK
  BY DEF CallLifecycleAssumption, Init, TypeOK, CallRec, Status, AttemptStatus, Sides,
         Legs, Event, Idle

LEMMA CoreInit == ASSUME CallLifecycleAssumption, Init PROVE CoreInv
  BY DEF CallLifecycleAssumption, Init, CoreInv, EventsAreProof, HandlersHaveProof,
         TechnicalIsOver, CustomerAfterAgent, CreatedIsProven, Ended, Legs, Sides, Idle

-----------------------------------------------------------------------------
(* Types.                                                                   *)
LEMMA TypedAttempts ==
  ASSUME TypeOK, NEW s \in Sides
  PROVE  /\ requested(s) \in [Sides -> AttemptStatus]
         /\ attemptLegSeen(s) \in [Sides -> AttemptStatus]
         /\ attemptNeedsSettlement(s) \in [Sides -> AttemptStatus]
         /\ \A x \in AttemptStatus : [attempt EXCEPT ![s] = x] \in [Sides -> AttemptStatus]
  BY DEF TypeOK, Sides, AttemptStatus, requested, attemptLegSeen, attemptNeedsSettlement

LEMMA ForwardType ==
  ASSUME NEW current \in Status, NEW next \in Status
  PROVE  /\ forward(current, next) \in Status
         /\ RANK[forward(current, next)] >= RANK[current]
  BY DEF forward, Status, RANK

LEMMA KnownType ==
  ASSUME CallLifecycleAssumption, TypeOK, NEW e \in Event
  PROVE  /\ Known(e) \in CallRec
         /\ Known(e).status = call.status /\ Known(e).technical = call.technical
         /\ Known(e).ringing = call.ringing /\ Known(e).answered = call.answered
  BY DEF TypeOK, Known, CallRec, Event, Legs

\* What a handler that applies an event may make of the call.
LEMMA ReceiveTypes ==
  ASSUME CallLifecycleAssumption, TypeOK, NEW e \in Event, NEW new \in CallRec, Receive(e, new)
  PROVE  TypeOK'
<1>1. SideOf(e.leg) \in Sides BY DEF SideOf, Sides
<1>2. attempt' \in [Sides -> AttemptStatus]
  BY <1>1, TypedAttempts DEF Receive, Apply
<1>3. QED BY <1>2 DEF TypeOK, Receive, Apply, provider

LEMMA HandlerTypes ==
  ASSUME TypeOK, NEW w \in Workers, worker[w].step # "idle"
  PROVE  /\ worker[w] \in Dialing
         /\ worker[w].event \in Event /\ worker[w].leg \in LeadLegs \cup {None}
         /\ processed \cup {worker[w].event} \in SUBSET Event
         /\ [worker EXCEPT ![w] = Idle] \in [Workers -> {Idle} \cup Dialing]
         /\ \A step \in {"request", "response"}, l \in LeadLegs \cup {None} :
                [worker EXCEPT ![w].step = step, ![w].leg = l] \in
                    [Workers -> {Idle} \cup Dialing]
<1>1. worker[w] \in {Idle} \cup Dialing BY DEF TypeOK
<1>2. worker[w] \in Dialing BY <1>1 DEF Idle
<1>3. /\ worker[w].event \in Event /\ worker[w].leg \in LeadLegs \cup {None}
  BY <1>2 DEF Dialing
<1>4. ASSUME NEW step \in {"request", "response"}, NEW l \in LeadLegs \cup {None}
      PROVE  [worker EXCEPT ![w].step = step, ![w].leg = l] \in [Workers -> {Idle} \cup Dialing]
  <2>1. [[worker[w] EXCEPT !.step = step] EXCEPT !.leg = l] \in Dialing BY <1>2 DEF Dialing
  <2>2. QED BY <2>1 DEF TypeOK
<1>5. processed \cup {worker[w].event} \in SUBSET Event BY <1>3 DEF TypeOK
<1>6. [worker EXCEPT ![w] = Idle] \in [Workers -> {Idle} \cup Dialing] BY DEF TypeOK
<1>7. QED BY <1>2, <1>3, <1>4, <1>5, <1>6

\* The provider makes a leg ring, answer or end.
LEMMA ProviderTypes ==
  ASSUME TypeOK, NEW l \in Legs, NEW state \in {"ringing", "up", "gone"},
         NEW type \in {"initiated", "answered", "hangup"},
         leg' = [leg EXCEPT ![l] = state], Emit(l, type)
  PROVE  /\ leg' \in [Legs -> {"none", "ringing", "up", "gone"}]
         /\ emitted' \in SUBSET Event
  BY DEF TypeOK, Emit, Event

LEMMA TypeNext ==
  ASSUME CallLifecycleAssumption, TypeOK, [Next]_vars
  PROVE  TypeOK'
<1> USE DEF CallLifecycleAssumption
<1>a. "agent" \in Sides /\ "lead" \in Sides /\ AgentLeg \in Legs /\ LeadLegs \subseteq Legs
  BY DEF Sides, Legs
<1>1. ASSUME NEW l \in Legs, LegAnswers(l) PROVE TypeOK'
  BY <1>1, ProviderTypes DEF LegAnswers, TypeOK, database, processes
<1>2. ASSUME NEW l \in Legs, LegEnds(l) PROVE TypeOK'
  BY <1>2, ProviderTypes DEF LegEnds, TypeOK, database, processes
<1>3. CASE StarterStep
  <2>1. CASE DialAgent
    <3>1. attempt' \in [Sides -> AttemptStatus] BY <1>a, <2>1, TypedAttempts DEF DialAgent
    <3>2. leg' \in [Legs -> {"none", "ringing", "up", "gone"}] /\ emitted' \in SUBSET Event
      BY <1>a, <2>1, ProviderTypes DEF DialAgent, Rings, provider, TypeOK
    <3>3. QED BY <2>1, <3>1, <3>2 DEF DialAgent, TypeOK
  <2>2. CASE AgentDialed
    <3>1. call' \in CallRec BY <2>2 DEF AgentDialed, TypeOK, CallRec, Status
    <3>2. attempt' \in [Sides -> AttemptStatus]
      BY <1>a, <2>2, TypedAttempts DEF AgentDialed, AttemptStatus
    <3>3. QED BY <2>2, <3>1, <3>2 DEF AgentDialed, TypeOK, provider
  <2>3. CASE AgentDialTimesOut
    <3>1. call' \in CallRec BY <2>3 DEF AgentDialTimesOut, TypeOK, CallRec
    <3>2. attempt' \in [Sides -> AttemptStatus]
      BY <1>a, <2>3, TypedAttempts DEF AgentDialTimesOut, AttemptStatus
    <3>3. QED BY <2>3, <3>1, <3>2 DEF AgentDialTimesOut, TypeOK, provider
  <2>4. CASE AgentDialFails
    <3>1. call' \in CallRec BY <2>4 DEF AgentDialFails, TypeOK, CallRec, Status
    <3>2. attempt' \in [Sides -> AttemptStatus]
      BY <1>a, <2>4, TypedAttempts DEF AgentDialFails, AttemptStatus
    <3>3. QED BY <2>4, <3>1, <3>2 DEF AgentDialFails, TypeOK, provider
  <2>5. QED BY <1>3, <2>1, <2>2, <2>3, <2>4 DEF StarterStep
<1>4. ASSUME NEW e \in Event, processProviderEvent(e) PROVE TypeOK'
  <2> DEFINE known == Known(e)
  <2>k. known \in CallRec /\ known.status = call.status BY KnownType
  <2>c. call \in CallRec /\ call.status \in Status BY DEF TypeOK, CallRec
  <2>1. CASE LateEvent(e) BY <2>1, <2>c, ReceiveTypes DEF LateEvent
  <2>2. CASE AgentInitiated(e) BY <2>2, <2>k, ReceiveTypes DEF AgentInitiated
  <2>3. CASE AgentAnswered(e)
    <3> DEFINE new == [known EXCEPT !.agentAnswered = TRUE,
                                    !.status = forward(@, "agent_connected")]
    <3>1. forward(call.status, "agent_connected") \in Status
      BY <2>c, ForwardType DEF Status
    <3>2. new \in CallRec BY <2>k, <3>1 DEF CallRec
    <3>3. CASE Receive(e, new) BY <3>2, <3>3, ReceiveTypes
    <3>4. CASE /\ Apply(e, new)
               /\ \E w \in Workers : worker[w] = Idle /\ worker' =
                    [worker EXCEPT ![w] = [step |-> "dial", event |-> e, leg |-> None]]
               /\ UNCHANGED processed
      <4>1. worker' \in [Workers -> {Idle} \cup Dialing] BY <3>4 DEF TypeOK, Dialing
      <4>2. attempt' \in [Sides -> AttemptStatus]
        BY <3>4, TypedAttempts DEF Apply, SideOf, Sides
      <4>3. call' \in CallRec BY <3>2, <3>4 DEF Apply
      <4>4. QED BY <3>4, <4>1, <4>2, <4>3 DEF Apply, TypeOK, provider
    <3>5. QED BY <2>3, <3>3, <3>4 DEF AgentAnswered
  <2>4. CASE AgentHangsUp(e)
    <3>1. [known EXCEPT !.hangup = TRUE] \in CallRec BY <2>k DEF CallRec
    <3>2. [known EXCEPT !.status = "failed"] \in CallRec BY <2>k DEF CallRec, Status
    <3>3. QED BY <2>4, <3>1, <3>2, ReceiveTypes DEF AgentHangsUp
  <2>5. CASE LeadInitiated(e)
    <3>1. forward(call.status, "ringing") \in Status BY <2>c, ForwardType DEF Status
    <3>2. [known EXCEPT !.ringing = TRUE, !.status = forward(@, "ringing")] \in CallRec
      BY <2>k, <3>1 DEF CallRec
    <3>3. QED BY <2>5, <3>2, ReceiveTypes DEF LeadInitiated
  <2>6. CASE LeadAnswered(e)
    <3>1. forward(call.status, "answered") \in Status BY <2>c, ForwardType DEF Status
    <3>2. [known EXCEPT !.answered = TRUE, !.status = forward(@, "answered")] \in CallRec
      BY <2>k, <3>1 DEF CallRec
    <3>3. QED BY <2>6, <3>2, ReceiveTypes DEF LeadAnswered
  <2>7. CASE LeadHangsUp(e)
    <3>1. \A status \in {"ended", "failed"} : [known EXCEPT !.status = status] \in CallRec
      BY <2>k DEF CallRec, Status
    <3>2. QED BY <2>7, <3>1, ReceiveTypes DEF LeadHangsUp
  <2>8. QED BY <1>4, <2>1, <2>2, <2>3, <2>4, <2>5, <2>6, <2>7 DEF processProviderEvent
<1>5. ASSUME NEW w \in Workers, dialLeadLeg(w) PROVE TypeOK'
  <2>w. worker[w].step # "idle"
    BY <1>5 DEF dialLeadLeg, ReadDialGuard, DialRefused, ConferenceTimesOut, DialLead,
       LeadDialed, LeadDialTimesOut, LeadDialFails
  <2>d. Done(w) => /\ processed' \in SUBSET Event
                   /\ worker' \in [Workers -> {Idle} \cup Dialing]
    BY <2>w, HandlerTypes DEF Done
  <2>n. \A step \in {"request", "response"}, l \in LeadLegs \cup {None} :
          Continue(w, step, l) => /\ processed' \in SUBSET Event
                                  /\ worker' \in [Workers -> {Idle} \cup Dialing]
    <3> SUFFICES ASSUME NEW step \in {"request", "response"},
                        NEW l \in LeadLegs \cup {None}, Continue(w, step, l)
                 PROVE  /\ processed' \in SUBSET Event
                        /\ worker' \in [Workers -> {Idle} \cup Dialing]
      OBVIOUS
    <3>1. [worker EXCEPT ![w].step = step, ![w].leg = l] \in [Workers -> {Idle} \cup Dialing]
      BY <2>w, HandlerTypes
    <3>2. QED BY <3>1 DEF Continue, TypeOK
  <2>c. /\ [call EXCEPT !.status = "failed", !.unconfirmed = FALSE] \in CallRec
        /\ [call EXCEPT !.pending = TRUE] \in CallRec
    BY DEF TypeOK, CallRec, Status
  <2>a. \A x \in AttemptStatus : [attempt EXCEPT !.lead = x] \in [Sides -> AttemptStatus]
    BY <1>a, TypedAttempts
  <2>1. CASE ReadDialGuard(w)
    BY <2>1, <2>d, <2>n DEF ReadDialGuard, TypeOK, provider
  <2>2. CASE DialRefused(w)
    BY <2>2, <2>d, <2>c DEF DialRefused, TypeOK, provider
  <2>3. CASE ConferenceTimesOut(w)
    BY <2>3, <2>d, <2>c DEF ConferenceTimesOut, TypeOK, provider
  <2>4. CASE DialLead(w)
    <3>1. attempt' \in [Sides -> AttemptStatus] BY <1>a, <2>4, TypedAttempts DEF DialLead
    <3>2. leg' \in [Legs -> {"none", "ringing", "up", "gone"}] /\ emitted' \in SUBSET Event
      BY <1>a, <2>4, ProviderTypes DEF DialLead, Rings, provider, TypeOK
    <3>3. processed' \in SUBSET Event /\ worker' \in [Workers -> {Idle} \cup Dialing]
      BY <2>4, <2>n DEF DialLead
    <3>4. QED BY <2>4, <3>1, <3>2, <3>3 DEF DialLead, TypeOK
  <2>5. CASE LeadDialed(w)
    <3>1. worker[w].leg \in LeadLegs BY <2>5, <2>w, HandlerTypes DEF LeadDialed
    <3>2. call' \in CallRec
      BY <2>5, <3>1 DEF LeadDialed, AdvancedToDialing, TypeOK, CallRec, Status
    <3>3. QED BY <2>5, <2>d, <2>a, <3>2 DEF LeadDialed, TypeOK, provider, AttemptStatus
  <2>6. CASE LeadDialTimesOut(w)
    BY <2>6, <2>d, <2>c, <2>a DEF LeadDialTimesOut, TypeOK, provider, AttemptStatus
  <2>7. CASE LeadDialFails(w)
    BY <2>7, <2>d, <2>c, <2>a DEF LeadDialFails, TypeOK, provider, AttemptStatus
  <2>8. QED BY <1>5, <2>1, <2>2, <2>3, <2>4, <2>5, <2>6, <2>7 DEF dialLeadLeg
<1>6. ASSUME NEW w \in Workers, HandlerDies(w) PROVE TypeOK'
  BY <1>6 DEF HandlerDies, TypeOK, database, provider
<1>7. CASE hangupCall
  <2>1. call' \in CallRec BY <1>7 DEF hangupCall, TypeOK, CallRec
  <2>2. QED BY <1>7, <2>1 DEF hangupCall, TypeOK, provider
<1>8. CASE reconcileCall
  <2>1. CASE FindPending BY <2>1 DEF FindPending, Poll, TypeOK, database, provider
  <2>2. CASE AgentNeverAnswered BY <2>2 DEF AgentNeverAnswered, Poll, TypeOK, database, provider
  <2>3. CASE HangupConfirmed BY <2>3 DEF HangupConfirmed, Poll, TypeOK, database, provider
  <2>4. CASE LeadLegGone BY <2>4 DEF LeadLegGone, Poll, TypeOK, database, provider
  <2>5. CASE GiveUp
    <3>1. attempt' \in [Sides -> AttemptStatus] BY <2>5, TypedAttempts DEF GiveUp
    <3>2. QED BY <2>5, <3>1 DEF GiveUp, TypeOK, provider
  <2>6. ASSUME NEW l \in Legs, Adopt(l) PROVE TypeOK'
    <3>1. attempt' \in [Sides -> AttemptStatus]
      BY <2>6, TypedAttempts DEF Adopt, SideOf, Sides
    <3>2. call' \in CallRec BY <2>6 DEF Adopt, TypeOK, CallRec, Legs
    <3>3. QED BY <2>6, <3>1, <3>2 DEF Adopt, TypeOK, provider
  <2>7. QED BY <1>8, <2>1, <2>2, <2>3, <2>4, <2>5, <2>6 DEF reconcileCall
<1>9. CASE finalizeLocally
  <2>1. call' \in CallRec BY <1>9 DEF finalizeLocally, ClosedAs, TypeOK, CallRec, Status
  <2>2. QED BY <1>9, <2>1 DEF finalizeLocally, TypeOK, provider
<1>10. CASE afterCallFinalized
  <2>1. call' \in CallRec BY <1>10 DEF afterCallFinalized, TypeOK, CallRec
  <2>2. QED BY <1>10, <2>1 DEF afterCallFinalized, TypeOK, provider, processes
<1>11. CASE StarterDies BY <1>11 DEF StarterDies, TypeOK, database, provider
<1>12. CASE PollDies BY <1>12 DEF PollDies, TypeOK, database, provider
<1>13. CASE UNCHANGED vars
  BY <1>13 DEF vars, database, provider, processes, TypeOK
<1>14. ASSUME NEW s \in Sides, settleAttempt(s) PROVE TypeOK'
  <2>1. attempt' \in [Sides -> AttemptStatus]
    BY <1>14, TypedAttempts DEF settleAttempt, AttemptStatus
  <2>2. QED BY <1>14, <2>1 DEF settleAttempt, TypeOK, provider, processes
<1>15. QED
  BY <1>1, <1>2, <1>3, <1>4, <1>5, <1>6, <1>7, <1>8, <1>9, <1>10, <1>11, <1>12, <1>13, <1>14
  DEF Next

(* The variables keep their types, for any handlers and legs.               *)
THEOREM TypeOKHolds == ASSUME CallLifecycleAssumption PROVE Spec => []TypeOK
<1>1. Init => TypeOK BY TypeInit
<1>2. TypeOK /\ [Next]_vars => TypeOK' BY TypeNext
<1>3. QED BY <1>1, <1>2, PTL DEF Spec

-----------------------------------------------------------------------------
(* The state of the call only moves forward: each action by itself.         *)
LEMMA ForwardNext ==
  ASSUME CallLifecycleAssumption, TypeOK, [Next]_vars
  PROVE  RANK[call'.status] >= RANK[call.status]
<1> USE DEF CallLifecycleAssumption
<1>c. call \in CallRec /\ call.status \in Status BY DEF TypeOK, CallRec
<1>e. /\ RANK[call.status] \in Int /\ RANK[call.status] <= 6
      /\ \A s \in {"ended", "failed"} : RANK[s] = 6
  BY <1>c DEF Status, RANK
<1>f. call'.status \in {"ended", "failed"} => RANK[call'.status] >= RANK[call.status]
  BY <1>e
<1>s. call'.status = call.status => RANK[call'.status] >= RANK[call.status] BY <1>e
<1>1. ASSUME NEW l \in Legs, LegAnswers(l) \/ LegEnds(l)
      PROVE  RANK[call'.status] >= RANK[call.status]
  BY <1>1, <1>s DEF LegAnswers, LegEnds, database
<1>2. CASE StarterStep
  <2>1. CASE DialAgent BY <2>1, <1>s DEF DialAgent
  <2>2. CASE AgentDialed
    <3>1. call'.status = IF call.status = "created" THEN "dialing_agent" ELSE call.status
      BY <2>2, <1>c DEF AgentDialed, CallRec
    <3>2. QED BY <3>1, <1>c, <1>s DEF RANK, Status
  <2>3. CASE AgentDialTimesOut
    BY <2>3, <1>c, <1>s DEF AgentDialTimesOut, CallRec
  <2>4. CASE AgentDialFails BY <2>4, <1>c, <1>f DEF AgentDialFails, CallRec
  <2>5. QED BY <1>2, <2>1, <2>2, <2>3, <2>4 DEF StarterStep
<1>3. ASSUME NEW e \in Event, processProviderEvent(e)
      PROVE  RANK[call'.status] >= RANK[call.status]
  <2> DEFINE known == Known(e)
  <2>k. known \in CallRec /\ known.status = call.status BY KnownType
  <2>n. \A next \in Status : RANK[forward(call.status, next)] >= RANK[call.status]
    BY <1>c, ForwardType
  <2>1. CASE LateEvent(e) BY <2>1, <1>s DEF LateEvent, Receive, Apply
  <2>2. CASE AgentInitiated(e) BY <2>2, <2>k, <1>s DEF AgentInitiated, Receive, Apply
  <2>3. CASE AgentAnswered(e)
    <3>1. call' = [known EXCEPT !.agentAnswered = TRUE,
                                !.status = forward(@, "agent_connected")]
      BY <2>3 DEF AgentAnswered, Receive, Apply
    <3>2. call'.status = forward(call.status, "agent_connected")
      BY <3>1, <2>k DEF CallRec
    <3>3. QED BY <3>2, <2>n DEF Status
  <2>4. CASE AgentHangsUp(e)
    <3>1. \/ call' = [known EXCEPT !.hangup = TRUE]
          \/ call' = [known EXCEPT !.status = "failed"]
      BY <2>4 DEF AgentHangsUp, Receive, Apply
    <3>2. QED BY <3>1, <2>k, <1>s, <1>f DEF CallRec
  <2>5. CASE LeadInitiated(e)
    <3>1. call' = [known EXCEPT !.ringing = TRUE, !.status = forward(@, "ringing")]
      BY <2>5 DEF LeadInitiated, Receive, Apply
    <3>2. call'.status = forward(call.status, "ringing") BY <3>1, <2>k DEF CallRec
    <3>3. QED BY <3>2, <2>n DEF Status
  <2>6. CASE LeadAnswered(e)
    <3>1. call' = [known EXCEPT !.answered = TRUE, !.status = forward(@, "answered")]
      BY <2>6 DEF LeadAnswered, Receive, Apply
    <3>2. call'.status = forward(call.status, "answered") BY <3>1, <2>k DEF CallRec
    <3>3. QED BY <3>2, <2>n DEF Status
  <2>7. CASE LeadHangsUp(e)
    <3>1. \E status \in {"ended", "failed"} : call' = [known EXCEPT !.status = status]
      BY <2>7 DEF LeadHangsUp, Receive, Apply
    <3>2. QED BY <3>1, <2>k, <1>f DEF CallRec
  <2>8. QED BY <1>3, <2>1, <2>2, <2>3, <2>4, <2>5, <2>6, <2>7 DEF processProviderEvent
<1>4. ASSUME NEW w \in Workers, dialLeadLeg(w)
      PROVE  RANK[call'.status] >= RANK[call.status]
  <2>1. CASE ReadDialGuard(w) \/ DialLead(w)
    BY <2>1, <1>s DEF ReadDialGuard, DialLead
  <2>2. CASE DialRefused(w) \/ LeadDialFails(w)
    BY <2>2, <1>c, <1>f DEF DialRefused, LeadDialFails, CallRec
  <2>3. CASE ConferenceTimesOut(w) \/ LeadDialTimesOut(w)
    BY <2>3, <1>c, <1>s DEF ConferenceTimesOut, LeadDialTimesOut, CallRec
  <2>4. CASE LeadDialed(w)
    <3>1. call'.status = AdvancedToDialing BY <2>4, <1>c DEF LeadDialed, CallRec
    <3>2. QED BY <3>1, <1>c, <1>s DEF AdvancedToDialing, RANK, Status
  <2>5. QED BY <1>4, <2>1, <2>2, <2>3, <2>4 DEF dialLeadLeg
<1>5. CASE hangupCall BY <1>5, <1>c, <1>s DEF hangupCall, CallRec
<1>6. CASE reconcileCall
  <2>1. CASE FindPending \/ AgentNeverAnswered \/ HangupConfirmed \/ LeadLegGone
    BY <2>1, <1>s DEF FindPending, AgentNeverAnswered, HangupConfirmed, LeadLegGone, Poll,
       database
  <2>2. CASE GiveUp BY <2>2, <1>s DEF GiveUp
  <2>3. ASSUME NEW l \in Legs, Adopt(l) PROVE RANK[call'.status] >= RANK[call.status]
    BY <2>3, <1>c, <1>s DEF Adopt, CallRec
  <2>4. QED BY <1>6, <2>1, <2>2, <2>3 DEF reconcileCall
<1>7. CASE finalizeLocally BY <1>7, <1>c, <1>f DEF finalizeLocally, ClosedAs, CallRec
<1>8. CASE afterCallFinalized BY <1>8, <1>c, <1>s DEF afterCallFinalized, CallRec
<1>9. CASE \/ \E w \in Workers : HandlerDies(w)
           \/ \E s \in Sides : settleAttempt(s)
           \/ StarterDies \/ PollDies \/ UNCHANGED vars
  BY <1>9, <1>s DEF HandlerDies, settleAttempt, StarterDies, PollDies, vars, database
<1>10. QED BY <1>1, <1>2, <1>3, <1>4, <1>5, <1>6, <1>7, <1>8, <1>9 DEF Next

(* The state of a call only moves forward, for any number of handlers, of   *)
(* legs and of events, however late or often they come.                     *)
THEOREM StateOnlyForwardHolds ==
  ASSUME CallLifecycleAssumption PROVE Spec => StateOnlyForward
<1>1. TypeOK /\ [Next]_vars => [RANK[call'.status] >= RANK[call.status]]_vars
  BY ForwardNext
<1>2. QED BY <1>1, TypeOKHolds, PTL DEF Spec, StateOnlyForward

-----------------------------------------------------------------------------
(* Evidence.  The provider changes in three ways only, and takes no leg and *)
(* no event back.                                                           *)
LEMMA ProviderMoves ==
  ASSUME [Next]_vars
  PROVE  \/ UNCHANGED provider
         \/ \E l \in Legs : LegAnswers(l) \/ LegEnds(l)
         \/ DialAgent /\ Rings(AgentLeg)
         \/ \E w \in Workers, l \in LeadLegs : DialLead(w) /\ Rings(l)
<1>1. CASE StarterStep
  BY <1>1 DEF StarterStep, DialAgent, AgentDialed, AgentDialTimesOut, AgentDialFails
<1>2. CASE \E e \in Event : processProviderEvent(e)
  BY <1>2 DEF processProviderEvent, LateEvent, AgentInitiated, AgentAnswered,
     AgentHangsUp, LeadInitiated, LeadAnswered, LeadHangsUp, Receive, Apply
<1>3. CASE \E w \in Workers : dialLeadLeg(w) \/ HandlerDies(w)
  <2>1. ASSUME NEW w \in Workers, DialLead(w)
        PROVE  UNCHANGED provider \/ \E l \in LeadLegs : DialLead(w) /\ Rings(l)
    BY <2>1 DEF DialLead
  <2>2. QED
    BY <1>3, <2>1 DEF dialLeadLeg, ReadDialGuard, DialRefused, ConferenceTimesOut,
       LeadDialed, LeadDialTimesOut, LeadDialFails, HandlerDies
<1>4. CASE hangupCall \/ reconcileCall \/ finalizeLocally \/ afterCallFinalized
           \/ (\E s \in Sides : settleAttempt(s)) \/ StarterDies \/ PollDies \/ UNCHANGED vars
  BY <1>4 DEF settleAttempt, hangupCall, reconcileCall, FindPending, AgentNeverAnswered,
     HangupConfirmed, LeadLegGone, Poll, GiveUp, Adopt, finalizeLocally, afterCallFinalized,
     StarterDies, PollDies, vars
<1>5. QED BY <1>1, <1>2, <1>3, <1>4 DEF Next

LEMMA EvidenceStays ==
  ASSUME CallLifecycleAssumption, TypeOK, [Next]_vars
  PROVE  /\ emitted \subseteq emitted'
         /\ \A l \in Legs : leg[l] # "none" => leg'[l] # "none"
<1>1. CASE UNCHANGED provider BY <1>1 DEF provider
<1>2. ASSUME NEW l \in Legs, LegAnswers(l) \/ LegEnds(l) \/ Rings(l)
      PROVE  /\ emitted \subseteq emitted'
             /\ \A k \in Legs : leg[k] # "none" => leg'[k] # "none"
  BY <1>2 DEF LegAnswers, LegEnds, Rings, Emit, TypeOK
<1>3. QED BY <1>1, <1>2, ProviderMoves DEF Legs

LEMMA EventsNext ==
  ASSUME CallLifecycleAssumption, TypeOK, EventsAreProof, [Next]_vars
  PROVE  EventsAreProof'
<1> SUFFICES ASSUME NEW e \in emitted' PROVE leg'[e.leg] # "none"
  BY DEF EventsAreProof
<1>1. CASE e \in emitted
  <2>1. e.leg \in Legs /\ leg[e.leg] # "none" BY <1>1 DEF EventsAreProof, TypeOK, Event
  <2>2. QED BY <2>1, EvidenceStays
<1>2. CASE e \notin emitted
  <2>1. ASSUME NEW l \in Legs, LegAnswers(l) \/ LegEnds(l) \/ Rings(l)
        PROVE  leg'[e.leg] # "none"
    BY <1>2, <2>1 DEF LegAnswers, LegEnds, Rings, Emit, TypeOK
  <2>2. ~UNCHANGED provider BY <1>2 DEF provider
  <2>3. QED BY <2>1, <2>2, ProviderMoves DEF Legs
<1>3. QED BY <1>1, <1>2

LEMMA HandlersNext ==
  ASSUME CallLifecycleAssumption, TypeOK, HandlersHaveProof, [Next]_vars
  PROVE  HandlersHaveProof'
<1> USE DEF CallLifecycleAssumption
<1>t. TypeOK' BY TypeNext
<1>1. ASSUME NEW w \in Workers, worker'[w] = worker[w] \/ worker'[w] = Idle
      PROVE  /\ worker'[w].step # "idle" => AgentAnswer \in emitted'
             /\ worker'[w].leg # None => leg'[worker'[w].leg] # "none"
  <2>1. CASE worker'[w] = Idle BY <2>1 DEF Idle
  <2>2. CASE worker'[w] = worker[w]
    <3>1. worker[w].leg \in LeadLegs \cup {None} BY DEF TypeOK, Idle, Dialing
    <3>2. QED BY <2>2, <3>1, EvidenceStays DEF HandlersHaveProof, Legs
  <2>3. QED BY <1>1, <2>1, <2>2
<1>2. ASSUME \A w \in Workers : worker'[w] = worker[w] \/ worker'[w] = Idle
      PROVE  HandlersHaveProof'
  BY <1>1, <1>2 DEF HandlersHaveProof
<1>3. ASSUME NEW e \in Event, AgentAnswered(e) PROVE HandlersHaveProof'
  <2>1. e = AgentAnswer BY <1>3 DEF AgentAnswered, AgentPickedUp, Event, AgentAnswer
  <2>2. e \in emitted BY <1>3 DEF AgentAnswered, Receive, Apply, Unprocessed
  <2>3. CASE UNCHANGED worker BY <1>2, <2>3
  <2>4. ASSUME NEW w \in Workers,
               worker' = [worker EXCEPT ![w] = [step |-> "dial", event |-> e, leg |-> None]]
        PROVE  HandlersHaveProof'
    <3>1. worker'[w].leg = None BY <2>4 DEF TypeOK
    <3>2. AgentAnswer \in emitted' BY <2>1, <2>2, EvidenceStays
    <3>3. \A v \in Workers \ {w} : worker'[v] = worker[v] BY <2>4 DEF TypeOK
    <3>4. QED BY <1>1, <3>1, <3>2, <3>3 DEF HandlersHaveProof
  <2>5. QED BY <1>3, <2>3, <2>4 DEF AgentAnswered, Receive
<1>4. ASSUME NEW e \in Event, processProviderEvent(e) PROVE HandlersHaveProof'
  BY <1>2, <1>3, <1>4 DEF processProviderEvent, LateEvent, AgentInitiated, AgentHangsUp,
     LeadInitiated, LeadAnswered, LeadHangsUp, Receive
<1>5. ASSUME NEW w \in Workers, dialLeadLeg(w) PROVE HandlersHaveProof'
  <2>w. worker[w].step # "idle"
    BY <1>5 DEF dialLeadLeg, ReadDialGuard, DialRefused, ConferenceTimesOut, DialLead,
       LeadDialed, LeadDialTimesOut, LeadDialFails
  <2>1. AgentAnswer \in emitted' BY <2>w, EvidenceStays DEF HandlersHaveProof
  <2>2. CASE Done(w) BY <1>2, <2>2 DEF Done, TypeOK
  <2>3. ASSUME NEW step \in {"request", "response"}, NEW l \in LeadLegs \cup {None},
               Continue(w, step, l), l # None => leg'[l] # "none"
        PROVE  HandlersHaveProof'
    <3>1. worker[w] \in Dialing BY <2>w, HandlerTypes
    <3>2. worker'[w] = [[worker[w] EXCEPT !.step = step] EXCEPT !.leg = l]
      BY <2>3 DEF Continue, TypeOK
    <3>3. worker'[w].leg = l BY <3>1, <3>2 DEF Dialing
    <3>4. \A v \in Workers \ {w} : worker'[v] = worker[v] BY <2>3 DEF Continue, TypeOK
    <3>5. QED BY <1>1, <2>1, <2>3, <3>3, <3>4 DEF HandlersHaveProof
  <2>4. CASE ReadDialGuard(w) BY <2>2, <2>3, <2>4 DEF ReadDialGuard
  <2>5. CASE DialLead(w)
    <3>1. CASE Continue(w, "response", None) BY <2>3, <3>1
    <3>2. ASSUME NEW l \in LeadLegs, Rings(l), Continue(w, "response", l)
          PROVE  HandlersHaveProof'
      <4>1. leg'[l] # "none" BY <3>2 DEF Rings, TypeOK, Legs
      <4>2. QED BY <2>3, <3>2, <4>1
    <3>3. QED BY <2>5, <3>1, <3>2 DEF DialLead
  <2>6. QED
    BY <1>5, <2>2, <2>4, <2>5 DEF dialLeadLeg, DialRefused, ConferenceTimesOut, LeadDialed,
       LeadDialTimesOut, LeadDialFails
<1>6. ASSUME NEW w \in Workers, HandlerDies(w) PROVE HandlersHaveProof'
  BY <1>2, <1>6 DEF HandlerDies, TypeOK
<1>7. CASE UNCHANGED worker BY <1>2, <1>7
<1>8. QED
  BY <1>4, <1>5, <1>6, <1>7 DEF Next, LegAnswers, LegEnds, StarterStep, DialAgent,
     AgentDialed, AgentDialTimesOut, AgentDialFails, hangupCall, reconcileCall, FindPending,
     AgentNeverAnswered, HangupConfirmed, LeadLegGone, Poll, GiveUp, Adopt, finalizeLocally,
     afterCallFinalized, settleAttempt, StarterDies, PollDies, processes, vars

LEMMA CustomerNext ==
  ASSUME CallLifecycleAssumption, TypeOK, HandlersHaveProof, CustomerAfterAgent, [Next]_vars
  PROVE  CustomerAfterAgent'
<1> SUFFICES ASSUME NEW l \in LeadLegs, leg'[l] # "none" PROVE AgentAnswer \in emitted'
  BY DEF CustomerAfterAgent, AgentAnswer
<1> USE DEF CallLifecycleAssumption
<1>1. CASE leg[l] # "none"
  BY <1>1, EvidenceStays DEF CustomerAfterAgent, AgentAnswer
<1>2. CASE leg[l] = "none"
  <2>1. ASSUME NEW k \in Legs, LegAnswers(k) \/ LegEnds(k) PROVE FALSE
    BY <1>2, <2>1 DEF LegAnswers, LegEnds, Alive, TypeOK, Legs
  <2>2. ~Rings(AgentLeg) BY <1>2 DEF Rings, TypeOK, Legs
  <2>3. ~UNCHANGED provider BY <1>2 DEF provider
  <2>4. PICK w \in Workers : DialLead(w) BY <2>1, <2>2, <2>3, ProviderMoves
  <2>5. AgentAnswer \in emitted BY <2>4 DEF DialLead, HandlersHaveProof
  <2>6. QED BY <2>5, EvidenceStays
<1>3. QED BY <1>1, <1>2

\* A side is called created only with a leg of that side in hand.
LEMMA CreatedNext ==
  ASSUME CallLifecycleAssumption, TypeOK, CoreInv, [Next]_vars
  PROVE  CreatedIsProven'
<1> USE DEF CallLifecycleAssumption
<1> DEFINE Exists(s) == \E l \in Legs : SideOf(l) = s /\ leg'[l] # "none"
<1>1. \A l \in Legs : leg[l] # "none" => Exists(SideOf(l)) BY EvidenceStays
<1>2. \A s \in Sides : attempt[s] = "created" => Exists(s)
  BY <1>1 DEF CoreInv, CreatedIsProven
<1>3. ASSUME NEW s \in Sides, NEW x \in AttemptStatus,
             attempt' = [attempt EXCEPT ![s] = x], x = "created" => Exists(s)
      PROVE  CreatedIsProven'
  BY <1>2, <1>3 DEF CreatedIsProven, TypeOK
<1>4. CASE UNCHANGED attempt BY <1>2, <1>4 DEF CreatedIsProven
<1>5. ASSUME NEW s \in Sides, attempt' = requested(s) \/ attempt' = attemptNeedsSettlement(s)
      PROVE  CreatedIsProven'
  BY <1>2, <1>5 DEF requested, attemptNeedsSettlement, CreatedIsProven, TypeOK
<1>6. ASSUME NEW s \in Sides, attempt' = attemptLegSeen(s), Exists(s)
      PROVE  CreatedIsProven'
  BY <1>2, <1>6 DEF attemptLegSeen, CreatedIsProven, TypeOK
<1>s. "agent" \in Sides /\ "lead" \in Sides /\ SideOf(AgentLeg) = "agent"
  BY DEF Sides, SideOf
<1>7. CASE StarterStep
  <2>1. CASE DialAgent BY <1>5, <1>s, <2>1 DEF DialAgent
  <2>2. CASE AgentDialed
    <3>1. Exists("agent") BY <1>1, <1>s, <2>2 DEF AgentDialed, Legs
    <3>2. attempt' = [attempt EXCEPT !["agent"] = "created"] BY <2>2 DEF AgentDialed
    <3>3. QED BY <1>3, <1>s, <3>1, <3>2 DEF AttemptStatus
  <2>3. CASE AgentDialTimesOut \/ AgentDialFails
    <3>1. \E x \in {"uncertain", "failed"} : attempt' = [attempt EXCEPT !["agent"] = x]
      BY <2>3 DEF AgentDialTimesOut, AgentDialFails
    <3>2. QED BY <1>3, <1>s, <3>1 DEF AttemptStatus
  <2>4. QED BY <1>7, <2>1, <2>2, <2>3 DEF StarterStep
<1>8. ASSUME NEW e \in Event, processProviderEvent(e) PROVE CreatedIsProven'
  <2>1. e \in emitted /\ attempt' = attemptLegSeen(SideOf(e.leg))
    BY <1>8 DEF processProviderEvent, LateEvent, AgentInitiated, AgentAnswered, AgentHangsUp,
       LeadInitiated, LeadAnswered, LeadHangsUp, Receive, Apply, Unprocessed
  <2>2. e.leg \in Legs /\ leg[e.leg] # "none"
    BY <2>1 DEF CoreInv, EventsAreProof, Event
  <2>3. Exists(SideOf(e.leg)) BY <1>1, <2>2
  <2>4. SideOf(e.leg) \in Sides BY DEF SideOf, Sides
  <2>5. QED BY <1>6, <2>1, <2>3, <2>4
<1>9. ASSUME NEW w \in Workers, dialLeadLeg(w) PROVE CreatedIsProven'
  <2>1. CASE ReadDialGuard(w) \/ DialRefused(w) \/ ConferenceTimesOut(w)
    BY <1>4, <2>1 DEF ReadDialGuard, DialRefused, ConferenceTimesOut
  <2>2. CASE DialLead(w) BY <1>5, <1>s, <2>2 DEF DialLead
  <2>3. CASE LeadDialed(w)
    <3>1. worker[w].leg \in LeadLegs /\ leg[worker[w].leg] # "none"
      BY <2>3, HandlerTypes DEF LeadDialed, CoreInv, HandlersHaveProof
    <3>2. Exists("lead") BY <1>1, <3>1 DEF SideOf, Legs
    <3>3. attempt' = [attempt EXCEPT !["lead"] = "created"] BY <2>3 DEF LeadDialed
    <3>4. QED BY <1>3, <1>s, <3>2, <3>3 DEF AttemptStatus
  <2>4. CASE LeadDialTimesOut(w) \/ LeadDialFails(w)
    <3>1. \E x \in {"uncertain", "failed"} : attempt' = [attempt EXCEPT !["lead"] = x]
      BY <2>4 DEF LeadDialTimesOut, LeadDialFails
    <3>2. QED BY <1>3, <1>s, <3>1 DEF AttemptStatus
  <2>5. QED BY <1>9, <2>1, <2>2, <2>3, <2>4 DEF dialLeadLeg
<1>10. CASE GiveUp BY <1>5, <1>10 DEF GiveUp
<1>11. ASSUME NEW l \in Legs, Adopt(l) PROVE CreatedIsProven'
  <2>1. Exists(SideOf(l)) BY <1>1, <1>11 DEF Adopt, Alive
  <2>2. attempt' = attemptLegSeen(SideOf(l)) /\ SideOf(l) \in Sides
    BY <1>11 DEF Adopt, SideOf, Sides
  <2>3. QED BY <1>6, <2>1, <2>2
<1>12. ASSUME NEW s \in Sides, settleAttempt(s) PROVE CreatedIsProven'
  <2>1. PICK x \in {"created", "failed"} :
          /\ attempt' = [attempt EXCEPT ![s] = x]
          /\ x = "created" => \E l \in Legs : SideOf(l) = s /\ leg[l] # "none"
    BY <1>12 DEF settleAttempt
  <2>2. x = "created" => Exists(s) BY <1>1, <2>1
  <2>3. QED BY <1>3, <2>1, <2>2 DEF AttemptStatus
<1>13. QED
  BY <1>4, <1>7, <1>8, <1>9, <1>10, <1>11, <1>12 DEF Next, LegAnswers, LegEnds, HandlerDies,
     hangupCall, reconcileCall, FindPending, AgentNeverAnswered, HangupConfirmed, LeadLegGone,
     Poll, finalizeLocally, afterCallFinalized, StarterDies, PollDies, database, vars

\* The flags of a call that is over stay as they are.
LEMMA TechnicalNext ==
  ASSUME CallLifecycleAssumption, TypeOK, TechnicalIsOver, [Next]_vars
  PROVE  TechnicalIsOver'
<1> USE DEF CallLifecycleAssumption
<1>t. call \in CallRec BY DEF TypeOK
<1>1. Ended => Ended'
  <2>1. call'.status \in Status BY TypeNext DEF TypeOK, CallRec
  <2>2. QED BY <2>1, ForwardNext DEF Ended, RANK, Status
<1>2. ASSUME call'.technical = call.technical, call'.ringing = call.ringing,
             call'.answered = call.answered
      PROVE  TechnicalIsOver'
  BY <1>1, <1>2 DEF TechnicalIsOver
<1>3. ASSUME call'.technical = call.technical, ~Ended PROVE TechnicalIsOver'
  BY <1>3 DEF TechnicalIsOver
<1>4. CASE UNCHANGED call BY <1>2, <1>4
<1>5. CASE StarterStep
  BY <1>2, <1>5, <1>t DEF StarterStep, DialAgent, AgentDialed, AgentDialTimesOut,
     AgentDialFails, CallRec
<1>6. ASSUME NEW e \in Event, processProviderEvent(e) PROVE TechnicalIsOver'
  <2>1. CASE LateEvent(e) BY <1>4, <2>1 DEF LateEvent, Receive, Apply
  <2>2. CASE ~LateEvent(e)
    <3>1. ~Ended
      BY <1>6, <2>2 DEF processProviderEvent, AgentInitiated, AgentAnswered, AgentHangsUp,
         LeadInitiated, LeadAnswered, LeadHangsUp
    <3>2. Known(e) \in CallRec /\ Known(e).technical = call.technical BY KnownType
    <3>3. call'.technical = call.technical
      BY <1>6, <2>2, <3>2 DEF processProviderEvent, AgentInitiated, AgentAnswered,
         AgentHangsUp, LeadInitiated, LeadAnswered, LeadHangsUp, Receive, Apply, CallRec
    <3>4. QED BY <1>3, <3>1, <3>3
  <2>3. QED BY <2>1, <2>2
<1>7. ASSUME NEW w \in Workers, dialLeadLeg(w) PROVE TechnicalIsOver'
  BY <1>2, <1>7, <1>t DEF dialLeadLeg, ReadDialGuard, DialRefused, ConferenceTimesOut,
     DialLead, LeadDialed, LeadDialTimesOut, LeadDialFails, CallRec
<1>8. CASE hangupCall \/ finalizeLocally
  BY <1>2, <1>8, <1>t DEF hangupCall, finalizeLocally, CallRec
<1>9. CASE afterCallFinalized
  BY <1>1, <1>9, <1>t DEF afterCallFinalized, technicalFailure, TechnicalIsOver, CallRec
<1>10. ASSUME NEW l \in Legs, Adopt(l) PROVE TechnicalIsOver'
  BY <1>2, <1>10, <1>t DEF Adopt, CallRec
<1>11. QED
  BY <1>4, <1>5, <1>6, <1>7, <1>8, <1>9, <1>10 DEF Next, LegAnswers, LegEnds, HandlerDies,
     reconcileCall, GiveUp, FindPending, AgentNeverAnswered, HangupConfirmed, LeadLegGone,
     Poll, settleAttempt, StarterDies, PollDies, database, vars

LEMMA CoreNext ==
  ASSUME CallLifecycleAssumption, TypeOK, CoreInv, [Next]_vars
  PROVE  CoreInv'
  BY EventsNext, HandlersNext, TechnicalNext, CustomerNext, CreatedNext DEF CoreInv

(* The evidence invariant holds in every reachable state.                   *)
THEOREM CoreInvHolds == ASSUME CallLifecycleAssumption PROVE Spec => []CoreInv
<1>1. Init => CoreInv BY CoreInit
<1>2. TypeOK /\ CoreInv /\ [Next]_vars => CoreInv' BY CoreNext
<1>3. QED BY <1>1, <1>2, TypeOKHolds, PTL DEF Spec

(* A call whose customer rang or answered is never written off as a         *)
(* technical failure.                                                       *)
THEOREM TechnicalNeverRangHolds ==
  ASSUME CallLifecycleAssumption PROVE Spec => []TechnicalNeverRang
<1>1. CoreInv => TechnicalNeverRang BY DEF CoreInv, TechnicalIsOver, TechnicalNeverRang
<1>2. QED BY <1>1, CoreInvHolds, PTL

(* No customer's phone rings before the agent has picked up.                *)
THEOREM CustomerAfterAgentHolds ==
  ASSUME CallLifecycleAssumption PROVE Spec => []CustomerAfterAgent
<1>1. CoreInv => CustomerAfterAgent BY DEF CoreInv
<1>2. QED BY <1>1, CoreInvHolds, PTL

(* An attempt counts as created only when its leg was made.                 *)
THEOREM CreatedIsProvenHolds ==
  ASSUME CallLifecycleAssumption PROVE Spec => []CreatedIsProven
<1>1. CoreInv => CreatedIsProven BY DEF CoreInv
<1>2. QED BY <1>1, CoreInvHolds, PTL

-----------------------------------------------------------------------------
(* The promise.  Its four parts are named first: a step changes at most one *)
(* of what the provider has done and what the call's row says.              *)
AgentIn == AgentAnswer \in emitted
Rung == \E l \in LeadLegs : leg[l] # "none"

LEMMA ProviderKeepsCall ==
  ASSUME [Next]_vars, ~UNCHANGED provider
  PROVE  UNCHANGED call
<1>1. ASSUME NEW l \in Legs, LegAnswers(l) \/ LegEnds(l) PROVE UNCHANGED call
  BY <1>1 DEF LegAnswers, LegEnds, database
<1>2. QED BY <1>1, ProviderMoves DEF DialAgent, DialLead

\* The row's flags are written by two kinds of event and by the refund only.
LEMMA FlagMoves ==
  ASSUME CallLifecycleAssumption, TypeOK, [Next]_vars
  PROVE  \/ /\ call'.technical = call.technical
            /\ call'.ringing = call.ringing /\ call'.answered = call.answered
         \/ afterCallFinalized
         \/ \E e \in Event : LeadInitiated(e) \/ LeadAnswered(e)
<1> DEFINE SameFlags == /\ call'.technical = call.technical
                       /\ call'.ringing = call.ringing /\ call'.answered = call.answered
<1>t. call \in CallRec BY DEF TypeOK
<1>1. CASE UNCHANGED call BY <1>1
<1>2. CASE StarterStep
  BY <1>2, <1>t DEF StarterStep, DialAgent, AgentDialed, AgentDialTimesOut,
     AgentDialFails, CallRec
<1>3. ASSUME NEW e \in Event, processProviderEvent(e)
      PROVE  SameFlags \/ LeadInitiated(e) \/ LeadAnswered(e)
  <2>1. /\ Known(e) \in CallRec /\ Known(e).technical = call.technical
        /\ Known(e).ringing = call.ringing /\ Known(e).answered = call.answered
    BY KnownType
  <2>2. CASE LateEvent(e) \/ AgentInitiated(e)
    BY <2>1, <2>2 DEF LateEvent, AgentInitiated, Receive, Apply
  <2>3. CASE AgentAnswered(e) \/ AgentHangsUp(e) \/ LeadHangsUp(e)
    BY <2>1, <2>3 DEF AgentAnswered, AgentHangsUp, LeadHangsUp, Receive, Apply, CallRec
  <2>4. QED BY <1>3, <2>2, <2>3 DEF processProviderEvent
<1>4. ASSUME NEW w \in Workers, dialLeadLeg(w) PROVE SameFlags
  BY <1>4, <1>t DEF dialLeadLeg, ReadDialGuard, DialRefused, ConferenceTimesOut,
     DialLead, LeadDialed, LeadDialTimesOut, LeadDialFails, CallRec
<1>5. CASE hangupCall \/ finalizeLocally
  BY <1>5, <1>t DEF hangupCall, finalizeLocally, CallRec
<1>6. ASSUME NEW l \in Legs, Adopt(l) PROVE SameFlags
  BY <1>6, <1>t DEF Adopt, CallRec
<1>7. QED
  BY <1>1, <1>2, <1>3, <1>4, <1>5, <1>6 DEF Next, LegAnswers, LegEnds, HandlerDies,
     reconcileCall, GiveUp, FindPending, AgentNeverAnswered, HangupConfirmed, LeadLegGone,
     Poll, settleAttempt, StarterDies, PollDies, database, vars

\* A step of the provider is at most one step of the promise.
LEMMA ProviderKeepsPromise ==
  ASSUME CallLifecycleAssumption, TypeOK, CoreInv, [Next]_vars, ~UNCHANGED provider
  PROVE  Promise!PromiseNext \/ UNCHANGED <<AgentIn, Rung, call>>
<1> USE DEF CallLifecycleAssumption
<1>c. UNCHANGED call BY ProviderKeepsCall
<1>k. /\ UNCHANGED Noticed
      /\ UNCHANGED (IF call.technical THEN "refunded" ELSE IF Ended THEN "ended" ELSE "live")
  BY <1>c DEF Noticed, Ended
<1>1. ASSUME NEW l \in Legs, LegAnswers(l) \/ LegEnds(l)
      PROVE  Promise!PromiseNext \/ UNCHANGED <<AgentIn, Rung, call>>
  <2>1. Rung' = Rung
    BY <1>1 DEF LegAnswers, LegEnds, Alive, Rung, TypeOK, Legs
  <2>2. AgentIn => AgentIn'
    BY EvidenceStays DEF AgentIn
  <2>3. CASE AgentIn' = AgentIn
    BY <1>c, <2>1, <2>3
  <2>4. CASE ~AgentIn /\ AgentIn'
    BY <1>k, <2>1, <2>4 DEF Promise!PromiseNext, Promise!AgentPicksUp, AgentIn, AgentAnswer, Rung
  <2>5. QED BY <2>2, <2>3, <2>4 DEF AgentIn
<1>2. CASE DialAgent /\ Rings(AgentLeg)
  <2>1. Rung' = Rung BY <1>2 DEF Rings, Rung, TypeOK, Legs
  <2>2. AgentIn' = AgentIn BY <1>2 DEF Rings, Emit, AgentIn, AgentAnswer
  <2>3. QED BY <1>c, <2>1, <2>2
<1>3. ASSUME NEW w \in Workers, NEW l \in LeadLegs, DialLead(w), Rings(l)
      PROVE  Promise!PromiseNext \/ UNCHANGED <<AgentIn, Rung, call>>
  <2>1. Rung' BY <1>3 DEF Rings, Rung, TypeOK, Legs
  <2>2. AgentIn /\ AgentIn'
    BY <1>3, EvidenceStays DEF DialLead, CoreInv, HandlersHaveProof, AgentIn
  <2>3. CASE Rung
    BY <1>c, <2>1, <2>2, <2>3 DEF Rung, AgentIn
  <2>4. CASE ~Rung
    BY <1>k, <2>1, <2>2, <2>4 DEF Promise!PromiseNext, Promise!PhoneRings, AgentIn, AgentAnswer, Rung
  <2>5. QED BY <2>3, <2>4
<1>4. QED BY <1>1, <1>2, <1>3, ProviderMoves

\* So is a step on the call's row.
LEMMA RowKeepsPromise ==
  ASSUME CallLifecycleAssumption, TypeOK, CoreInv, [Next]_vars, UNCHANGED provider
  PROVE  [Promise!PromiseNext]_Promise!promiseVars
<1> USE DEF CallLifecycleAssumption
<1> DEFINE stage == IF call.technical THEN "refunded" ELSE IF Ended THEN "ended" ELSE "live"
<1>t. call \in CallRec /\ call' \in CallRec BY TypeNext DEF TypeOK
<1>p. /\ UNCHANGED (AgentAnswer \in emitted)
      /\ UNCHANGED (\E l \in LeadLegs : leg[l] # "none")
  BY DEF provider
<1>e. Ended => Ended'
  BY <1>t, ForwardNext DEF Ended, RANK, Status, CallRec
<1>1. CASE /\ call'.technical = call.technical
           /\ call'.ringing = call.ringing /\ call'.answered = call.answered
  <2>1. UNCHANGED Noticed BY <1>1 DEF Noticed
  <2>2. CASE stage' = stage
    BY <1>p, <2>1, <2>2 DEF Promise!promiseVars, AgentAnswer
  <2>3. CASE stage' # stage
    <3>1. stage = "live" /\ stage' = "ended" BY <1>1, <1>e, <2>3
    <3>2. QED BY <1>p, <2>1, <3>1 DEF Promise!PromiseNext, Promise!End, AgentAnswer
  <2>4. QED BY <2>2, <2>3
<1>2. CASE afterCallFinalized
  <2>1. stage = "ended" /\ stage' = "refunded" /\ ~Noticed /\ ~Noticed'
    BY <1>2, <1>t DEF afterCallFinalized, technicalFailure, Noticed, CallRec
  <2>2. call'.ringing = call.ringing /\ call'.answered = call.answered
    BY <1>2, <1>t DEF afterCallFinalized, CallRec
  <2>3. UNCHANGED Noticed BY <2>2 DEF Noticed
  <2>4. QED BY <1>p, <2>1, <2>3 DEF Promise!PromiseNext, Promise!Refund, AgentAnswer
<1>3. ASSUME NEW e \in Event, LeadInitiated(e) \/ LeadAnswered(e)
      PROVE  [Promise!PromiseNext]_Promise!promiseVars
  <2>1. /\ Known(e) \in CallRec /\ Known(e).technical = call.technical
        /\ Known(e).status = call.status
    BY KnownType
  <2>2. /\ call'.technical = call.technical /\ Noticed'
        /\ \E next \in {"ringing", "answered"} : call'.status = forward(call.status, next)
    BY <1>3, <2>1 DEF LeadInitiated, LeadAnswered, Receive, Apply, Noticed, CallRec
  <2>3. ~Ended /\ ~Ended'
    BY <1>3, <2>2 DEF LeadInitiated, LeadAnswered, Ended, forward
  <2>4. ~call.technical /\ stage = "live" /\ stage' = "live"
    BY <2>2, <2>3 DEF CoreInv, TechnicalIsOver
  <2>5. \E l \in LeadLegs : leg[l] # "none"
    BY <1>3 DEF LeadInitiated, LeadAnswered, Receive, Apply, Unprocessed, CoreInv, EventsAreProof
  <2>6. CASE Noticed
    BY <1>p, <2>2, <2>4, <2>6 DEF Promise!promiseVars, AgentAnswer, Noticed
  <2>7. CASE ~Noticed
    BY <1>p, <2>2, <2>4, <2>5, <2>7 DEF Promise!PromiseNext, Promise!Notice, AgentAnswer
  <2>8. QED BY <2>6, <2>7
<1>4. QED BY <1>1, <1>2, <1>3, FlagMoves

(* One call implements CallPromise, whatever its webhooks, requests, polls  *)
(* and crashes, for any number of handlers and of legs: what DialQueue      *)
(* takes a call for.                                                        *)
THEOREM KeepsCallPromiseHolds ==
  ASSUME CallLifecycleAssumption PROVE Spec => KeepsCallPromise
<1>1. Init => Promise!PromiseInit
  BY DEF Init, Promise!PromiseInit, Ended, Noticed, CallLifecycleAssumption, Legs
<1>2. TypeOK /\ CoreInv /\ [Next]_vars => [Promise!PromiseNext]_Promise!promiseVars
  <2> SUFFICES ASSUME TypeOK, CoreInv, [Next]_vars
               PROVE  [Promise!PromiseNext]_Promise!promiseVars
    OBVIOUS
  <2>1. CASE UNCHANGED <<AgentIn, Rung, call>>
    BY <2>1 DEF Promise!promiseVars, AgentIn, AgentAnswer, Rung, Noticed, Ended
  <2>2. QED BY <2>1, ProviderKeepsPromise, RowKeepsPromise
<1>3. QED
  BY <1>1, <1>2, TypeOKHolds, CoreInvHolds, PTL DEF Spec, KeepsCallPromise, Promise!PromiseSpec
=============================================================================
