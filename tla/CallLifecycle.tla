--------------------------- MODULE CallLifecycle ---------------------------
(***************************************************************************)
(* One outbound call from its row in the calls table to its documentation: *)
(* src/src/lib/telephony/{events,attempts}.ts and the dial, reconcile and  *)
(* hang-up parts of src/src/lib/dialer/calls.ts.                           *)
(*                                                                         *)
(* The provider (modelled from src/src/lib/telephony/telnyx.ts, with the   *)
(* agent dialed first and the customer once the agent answers) has legs.   *)
(* It reports what happens to a leg in webhooks: late, in any order, more  *)
(* than once or never.  A dial request may time out whether or not it has  *)
(* created a leg.  Webhook handlers, the agent's request and the reconcile *)
(* of the state poll run side by side; a transaction on the call's row     *)
(* lock serializes only the part of a handler that applies the event.      *)
(*                                                                         *)
(* Time is not modelled: a timeout has run out or not, at any moment.      *)
(* Hang-up commands to the provider are not either: they may fail, and a   *)
(* leg may end at any moment without one.                                  *)
(***************************************************************************)
EXTENDS Integers, FiniteSets

CONSTANTS
    Workers,    \* webhook handlers that may run at the same time
    LeadLegs,   \* customer legs the provider may create (a bound for TLC)
    AgentLeg,   \* the agent's leg
    Heard,      \* the kinds of webhook that may arrive; all others are lost
    None        \* no leg, no event

ASSUME CallLifecycleAssumption ==
    /\ AgentLeg \notin LeadLegs
    /\ None \notin {AgentLeg} \cup LeadLegs
    /\ IsFiniteSet(LeadLegs)

VARIABLES
    call,      \* the row in calls
    attempt,   \* the status of its call_attempts rows, "none" if there is none
    leg,       \* the provider's legs
    emitted,   \* the events of the provider so far
    processed, \* those marked processed in telephony_events
    worker,    \* the webhook handlers that dial the customer
    starter,   \* where startCall is, after its transaction
    poll       \* where the reconcile of the state poll is

database == <<call, attempt, processed>>
provider == <<leg, emitted>>
processes == <<worker, starter, poll>>
vars == <<database, provider, processes>>

Legs == {AgentLeg} \cup LeadLegs
Sides == {"agent", "lead"}
SideOf(l) == IF l = AgentLeg THEN "agent" ELSE "lead"

Status == {"created", "dialing_agent", "agent_connected", "dialing_lead", "ringing",
           "answered", "ended", "failed"}
RANK == [created |-> 0, dialing_agent |-> 1, agent_connected |-> 2, dialing_lead |-> 3,
         ringing |-> 4, answered |-> 5, ended |-> 6, failed |-> 6]

forward(current, next) == IF RANK[next] > RANK[current] THEN next ELSE current

\* technical: written off as a technical failure; held: its row waits an hour.
CallRec == [status : Status, agentLeg : {AgentLeg, None}, leadLeg : LeadLegs \cup {None},
            agentAnswered : BOOLEAN, ringing : BOOLEAN, answered : BOOLEAN,
            hangup : BOOLEAN, pending : BOOLEAN, unconfirmed : BOOLEAN,
            technical : BOOLEAN, held : BOOLEAN]
AttemptStatus == {"none", "requested", "created", "uncertain", "failed", "needs_settlement"}
Event == [leg : Legs, type : {"initiated", "answered", "hangup"}]
Idle == [step |-> "idle", event |-> None, leg |-> None]
Dialing == [step : {"dial", "request", "response"}, event : Event, leg : LeadLegs \cup {None}]

TypeOK ==
    /\ call \in CallRec
    /\ attempt \in [Sides -> AttemptStatus]
    /\ leg \in [Legs -> {"none", "ringing", "up", "gone"}]
    /\ emitted \in SUBSET Event
    /\ processed \in SUBSET Event
    /\ worker \in [Workers -> {Idle} \cup Dialing]
    /\ starter \in {"request", "response", "done"}
    /\ poll \in {"idle", "agent", "lead", "ended", "failed", "unconfirmed"}

Init ==
    /\ call = [status |-> "created", agentLeg |-> None, leadLeg |-> None,
               agentAnswered |-> FALSE, ringing |-> FALSE, answered |-> FALSE,
               hangup |-> FALSE, pending |-> FALSE, unconfirmed |-> FALSE,
               technical |-> FALSE, held |-> FALSE]
    /\ attempt = [s \in Sides |-> "none"]
    /\ leg = [l \in Legs |-> "none"]
    /\ emitted = {} /\ processed = {}
    /\ worker = [w \in Workers |-> Idle]
    /\ starter = "request"
    /\ poll = "idle"

Ended == call.status \in {"ended", "failed"}
Alive(l) == leg[l] \in {"ringing", "up"}

-----------------------------------------------------------------------------
(* The provider.                                                            *)
Emit(l, type) == emitted' = emitted \cup {[leg |-> l, type |-> type]}

LegAnswers(l) ==
    /\ leg[l] = "ringing"
    /\ leg' = [leg EXCEPT ![l] = "up"]
    /\ Emit(l, "answered")
    /\ UNCHANGED <<database, processes>>

LegEnds(l) ==
    /\ Alive(l)
    /\ leg' = [leg EXCEPT ![l] = "gone"]
    /\ Emit(l, "hangup")
    /\ UNCHANGED <<database, processes>>

\* A dial request reaches the provider: it may create the leg l.
Rings(l) == leg' = [leg EXCEPT ![l] = "ringing"] /\ Emit(l, "initiated")

-----------------------------------------------------------------------------
(* Attempts: one row per request that may create a leg.                     *)
requested(s) == [attempt EXCEPT ![s] = IF @ = "none" THEN "requested" ELSE @]

attemptLegSeen(s) ==
    [attempt EXCEPT ![s] = IF @ \in {"requested", "uncertain", "needs_settlement"}
                           THEN "created" ELSE @]

attemptNeedsSettlement(s) ==
    [attempt EXCEPT ![s] = IF @ \in {"requested", "uncertain"} THEN "needs_settlement"
                           ELSE @]

-----------------------------------------------------------------------------
(* afterCallFinalized runs after every end, again with every late event, or *)
(* (a crash) not at all.  A call that failed before the customer's phone    *)
(* rang documents itself; without confirmation by the provider its row is   *)
(* held for an hour.                                                        *)
FailedUnanswered == call.status = "failed" /\ ~call.answered
technicalFailure == call.status = "failed" /\ ~call.ringing /\ ~call.answered

afterCallFinalized ==
    /\ Ended /\ ~call.technical
    /\ technicalFailure
    /\ call' = [call EXCEPT !.technical = TRUE, !.held = call.unconfirmed]
    /\ UNCHANGED <<attempt, processed, provider, processes>>

-----------------------------------------------------------------------------
(* startCall, after its transaction: the agent's leg.                       *)
DialAgent ==
    /\ starter = "request"
    /\ starter' = "response"
    /\ attempt' = requested("agent")
    /\ Rings(AgentLeg) \/ UNCHANGED provider
    /\ UNCHANGED <<call, processed, worker, poll>>

AgentDialed ==
    /\ starter = "response" /\ leg[AgentLeg] # "none"
    /\ starter' = "done"
    /\ attempt' = [attempt EXCEPT !.agent = "created"]
    /\ call' = [call EXCEPT !.status = IF @ = "created" THEN "dialing_agent" ELSE @,
                            !.agentLeg = AgentLeg, !.pending = FALSE]
    /\ UNCHANGED <<processed, provider, worker, poll>>

TimeoutTakenAsSuccess ==
    /\ starter = "response"
    /\ starter' = "done"
    /\ attempt' = [attempt EXCEPT !.agent = "created"]
    /\ call' = [call EXCEPT !.pending = TRUE]
    /\ UNCHANGED <<processed, provider, worker, poll>>

AgentDialTimesOut ==
    /\ starter = "response"
    /\ starter' = "done"
    /\ attempt' = [attempt EXCEPT !.agent = "uncertain"]
    /\ call' = [call EXCEPT !.pending = TRUE]
    /\ UNCHANGED <<processed, provider, worker, poll>>

\* Refused by the provider, or a broken connection: the leg may exist.
AgentDialFails ==
    /\ starter = "response"
    /\ starter' = "done"
    /\ attempt' = [attempt EXCEPT !.agent = "failed"]
    /\ call' = [call EXCEPT !.status = "failed", !.unconfirmed = FALSE]
    /\ UNCHANGED <<processed, provider, worker, poll>>

-----------------------------------------------------------------------------
(* processProviderEvent.  An event is applied unless it is marked processed *)
(* and changes nothing once the call has ended.  The row lock makes the     *)
(* transaction one step; attemptLegSeen follows it at once.  The mark comes *)
(* last: until then another handler, or the same event after a crash, is    *)
(* let in as well.                                                          *)
Unprocessed(e) == e \in emitted \ processed /\ e.type \in Heard

Apply(e, newCall) ==
    /\ Unprocessed(e)
    /\ call' = newCall
    /\ attempt' = attemptLegSeen(SideOf(e.leg))
    /\ UNCHANGED <<provider, starter, poll>>

Receive(e, newCall) ==
    /\ Apply(e, newCall)
    /\ processed' \in {processed, processed \cup {e}}
    /\ UNCHANGED worker

\* The leg may be heard of here first, the dial's response later or never.
Known(e) == IF e.leg = AgentLeg
            THEN [call EXCEPT !.agentLeg = AgentLeg]
            ELSE [call EXCEPT !.leadLeg = IF @ = None THEN e.leg ELSE @]

LateRingIsNoted(e) ==
    Ended /\ Receive(e, IF e.leg = AgentLeg THEN call ELSE [call EXCEPT !.ringing = TRUE])

LateEvent(e) == Ended /\ Receive(e, call)

AgentInitiated(e) ==
    /\ ~Ended /\ e.leg = AgentLeg /\ e.type = "initiated"
    /\ Receive(e, Known(e))

AgentLegReported(e) == e.leg = AgentLeg /\ e.type # "hangup"
AgentPickedUp(e) == e.leg = AgentLeg /\ e.type = "answered"

AgentAnswered(e) ==
    /\ ~Ended /\ AgentPickedUp(e)
    /\ LET new == [Known(e) EXCEPT !.agentAnswered = TRUE,
                                   !.status = forward(@, "agent_connected")]
       IN  \/ /\ call.leadLeg # None \/ call.hangup
              /\ Receive(e, new)
           \/ /\ call.leadLeg = None /\ ~call.hangup
              /\ Apply(e, new)
              /\ \E w \in Workers : worker[w] = Idle /\ worker' =
                    [worker EXCEPT ![w] = [step |-> "dial", event |-> e, leg |-> None]]
              /\ UNCHANGED processed

\* With a customer's leg the call waits for that leg to end.
AgentHangsUp(e) ==
    /\ ~Ended /\ e.leg = AgentLeg /\ e.type = "hangup"
    /\ \/ call.leadLeg # None /\ Receive(e, [Known(e) EXCEPT !.hangup = TRUE])
       \/ call.leadLeg = None /\ Receive(e, [Known(e) EXCEPT !.status = "failed"])

LeadInitiated(e) ==
    /\ ~Ended /\ e.leg \in LeadLegs /\ e.type = "initiated"
    /\ Receive(e, [Known(e) EXCEPT !.ringing = TRUE, !.status = forward(@, "ringing")])

LeadAnswered(e) ==
    /\ ~Ended /\ e.leg \in LeadLegs /\ e.type = "answered"
    /\ Receive(e, [Known(e) EXCEPT !.answered = TRUE, !.status = forward(@, "answered")])

\* Which it is depends on the cause the provider reports.
LeadHangsUp(e) ==
    /\ ~Ended /\ e.leg \in LeadLegs /\ e.type = "hangup"
    /\ \E status \in IF call.answered THEN {"ended"} ELSE {"ended", "failed"} :
        Receive(e, [Known(e) EXCEPT !.status = status])

processProviderEvent(e) ==
    \/ LateEvent(e)
    \/ AgentInitiated(e) \/ AgentAnswered(e) \/ AgentHangsUp(e)
    \/ LeadInitiated(e) \/ LeadAnswered(e) \/ LeadHangsUp(e)

-----------------------------------------------------------------------------
(* dialLeadLeg, in the handler of the agent's answer.  The guard is read    *)
(* without a lock, some time before the request; then a block, the          *)
(* eligibility check or the conference may stop the dial.                   *)
MayDialLead == ~Ended /\ call.leadLeg = None /\ call.agentLeg # None /\ ~call.hangup

Continue(w, step, l) ==
    /\ worker' = [worker EXCEPT ![w].step = step, ![w].leg = l]
    /\ UNCHANGED processed
Done(w) ==
    /\ processed' = processed \cup {worker[w].event}
    /\ worker' = [worker EXCEPT ![w] = Idle]

ReadDialGuard(w) ==
    /\ worker[w].step = "dial"
    /\ IF MayDialLead THEN Continue(w, "request", None) ELSE Done(w)
    /\ UNCHANGED <<call, attempt, provider, starter, poll>>

DialRefused(w) ==
    /\ worker[w].step = "request"
    /\ Done(w)
    /\ call' = [call EXCEPT !.status = "failed", !.unconfirmed = FALSE]
    /\ UNCHANGED <<attempt, provider, starter, poll>>

ConferenceTimesOut(w) ==
    /\ worker[w].step = "request"
    /\ Done(w)
    /\ call' = [call EXCEPT !.pending = TRUE]
    /\ UNCHANGED <<attempt, provider, starter, poll>>

DialLead(w) ==
    /\ worker[w].step = "request"
    /\ attempt' = requested("lead")
    /\ \/ \E l \in LeadLegs : leg[l] = "none" /\ Rings(l) /\ Continue(w, "response", l)
       \/ UNCHANGED provider /\ Continue(w, "response", None)
    /\ UNCHANGED <<call, starter, poll>>

AlwaysDialing == "dialing_lead"
AdvancedToDialing ==
    IF call.status \in {"created", "dialing_agent", "agent_connected"} THEN "dialing_lead"
    ELSE call.status

LeadDialed(w) ==
    /\ worker[w].step = "response" /\ worker[w].leg # None
    /\ Done(w)
    /\ attempt' = [attempt EXCEPT !.lead = "created"]
    /\ call' = [call EXCEPT !.status = AdvancedToDialing, !.leadLeg = worker[w].leg,
                            !.pending = FALSE]
    /\ UNCHANGED <<provider, starter, poll>>

LeadDialTimesOut(w) ==
    /\ worker[w].step = "response"
    /\ Done(w)
    /\ attempt' = [attempt EXCEPT !.lead = "uncertain"]
    /\ call' = [call EXCEPT !.pending = TRUE]
    /\ UNCHANGED <<provider, starter, poll>>

LeadDialFails(w) ==
    /\ worker[w].step = "response"
    /\ Done(w)
    /\ attempt' = [attempt EXCEPT !.lead = "failed"]
    /\ call' = [call EXCEPT !.status = "failed", !.unconfirmed = FALSE]
    /\ UNCHANGED <<provider, starter, poll>>

-----------------------------------------------------------------------------
(* hangupCall: the agent presses hang-up.                                   *)
hangupCall ==
    /\ ~Ended
    /\ call' = [call EXCEPT !.hangup = TRUE]
    /\ \/ /\ {call.agentLeg, call.leadLeg} = {None} /\ ~call.pending
          /\ poll = "idle" /\ poll' = "ended"
       \/ /\ {call.agentLeg, call.leadLeg} # {None} \/ call.pending
          /\ UNCHANGED poll
    /\ UNCHANGED <<attempt, processed, provider, worker, starter>>

(* reconcileCall, by the state poll.  It reads the call, asks the provider  *)
(* and acts on what it read, whatever happened in between (one poll or      *)
(* closing hang-up at a time).  A timed-out dial is looked up; what the     *)
(* lookup does not find, or cannot ask for, is closed after a while and     *)
(* left for settlement.                                                     *)
Poll(next) ==
    /\ ~Ended /\ poll = "idle" /\ poll' = next
    /\ UNCHANGED <<database, provider, worker, starter>>

FindPending == call.pending /\ Poll(IF call.agentLeg # None THEN "lead" ELSE "agent")

AgentNeverAnswered ==
    /\ call.agentLeg # None /\ ~call.agentAnswered /\ ~Alive(call.agentLeg)
    /\ Poll("failed")

HangupConfirmedOnALeg ==
    /\ call.hangup
    /\ \/ call.leadLeg # None /\ ~Alive(call.leadLeg)
       \/ call.leadLeg = None /\ call.agentLeg # None /\ ~Alive(call.agentLeg)
    /\ Poll("ended")

HangupConfirmed ==
    /\ call.hangup
    /\ \/ call.leadLeg # None /\ ~Alive(call.leadLeg)
       \/ call.leadLeg = None /\ call.agentLeg # None /\ ~Alive(call.agentLeg)
       \/ call.leadLeg = None /\ call.agentLeg = None
    /\ Poll("ended")

LeadLegGone ==
    /\ call.leadLeg # None /\ ~Alive(call.leadLeg)
    /\ Poll("ended")

Adopt(l) ==
    /\ poll = SideOf(l) /\ Alive(l)
    /\ call' = IF l = AgentLeg THEN [call EXCEPT !.agentLeg = l, !.pending = FALSE]
               ELSE [call EXCEPT !.leadLeg = l, !.pending = FALSE]
    /\ attempt' = attemptLegSeen(poll)
    /\ poll' = "idle"
    /\ UNCHANGED <<processed, provider, worker, starter>>

GiveUpAndKeepCall ==
    /\ poll \in Sides
    /\ attempt' = attemptNeedsSettlement(poll)
    /\ poll' = "idle"
    /\ UNCHANGED <<call, processed, provider, worker, starter>>

GiveUp ==
    /\ poll \in Sides
    /\ attempt' = attemptNeedsSettlement(poll)
    /\ poll' = IF Ended THEN "idle" ELSE "unconfirmed"
    /\ UNCHANGED <<call, processed, provider, worker, starter>>

(* finalizeLocally has seen the call live; it writes whatever came between. *)
ClosedAsReason == poll
ClosedAs == IF poll = "ended" THEN "ended" ELSE "failed"

finalizeLocally ==
    /\ poll \in {"ended", "failed", "unconfirmed"}
    /\ call' = [call EXCEPT !.status = ClosedAs, !.unconfirmed = (poll = "unconfirmed")]
    /\ poll' = "idle"
    /\ UNCHANGED <<attempt, processed, provider, worker, starter>>

(* settleAttempt: a manager who has looked at the provider's call log.      *)
settleAttempt(s) ==
    /\ attempt[s] = "needs_settlement"
    /\ attempt' = [attempt EXCEPT ![s] =
          IF \E l \in Legs : SideOf(l) = s /\ leg[l] # "none" THEN "created" ELSE "failed"]
    /\ UNCHANGED <<call, processed, provider, processes>>

-----------------------------------------------------------------------------
(* A process dies; whatever it had still to do is not done by it.           *)
HandlerDies(w) ==
    /\ worker[w] # Idle /\ worker' = [worker EXCEPT ![w] = Idle]
    /\ UNCHANGED <<database, provider, starter, poll>>

StarterDies ==
    /\ starter # "done" /\ starter' = "done"
    /\ UNCHANGED <<database, provider, worker, poll>>

PollDies ==
    /\ poll # "idle" /\ poll' = "idle"
    /\ UNCHANGED <<database, provider, worker, starter>>

StarterStep == DialAgent \/ AgentDialed \/ AgentDialTimesOut \/ AgentDialFails

dialLeadLeg(w) ==
    \/ ReadDialGuard(w) \/ DialRefused(w) \/ ConferenceTimesOut(w) \/ DialLead(w)
    \/ LeadDialed(w) \/ LeadDialTimesOut(w) \/ LeadDialFails(w)

reconcileCall ==
    \/ FindPending \/ AgentNeverAnswered \/ HangupConfirmed \/ LeadLegGone
    \/ GiveUp \/ \E l \in Legs : Adopt(l)

Next ==
    \/ \E l \in Legs : LegAnswers(l) \/ LegEnds(l)
    \/ StarterStep
    \/ \E e \in Event : processProviderEvent(e)
    \/ \E w \in Workers : dialLeadLeg(w) \/ HandlerDies(w)
    \/ hangupCall \/ reconcileCall \/ finalizeLocally \/ afterCallFinalized
    \/ \E s \in Sides : settleAttempt(s)
    \/ StarterDies \/ PollDies

Spec == Init /\ [][Next]_vars

(* The state poll asks again and again and does not die every time, and     *)
(* people hang up in the end.  No webhook has to arrive.                    *)
FairSpec ==
    /\ Spec
    /\ SF_vars(FindPending) /\ SF_vars(GiveUp \/ \E l \in Legs : Adopt(l))
    /\ SF_vars(HangupConfirmed) /\ SF_vars(finalizeLocally)
    /\ WF_vars(\E l \in Legs : LegEnds(l))
=============================================================================
