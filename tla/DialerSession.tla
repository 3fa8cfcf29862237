--------------------------- MODULE DialerSession ---------------------------
(***************************************************************************)
(* One agent's dialer sessions and presence: src/src/lib/dialer/session.ts *)
(* with the presence writes of calls.ts, inbound.ts and events.ts.         *)
(*                                                                         *)
(* A session belongs to a browser tab.  What the agent's own requests do   *)
(* is serialized by a lock on the agent's users row (lockAgent); the       *)
(* reaper of stale sessions, a logout, an inbound call and other parts of  *)
(* the program write the same rows without it, one statement at a time.    *)
(***************************************************************************)
CONSTANTS Sessions

VARIABLES
    session,   \* dialer_sessions.status
    fresh,     \* lastHeartbeatAt is recent
    presence,  \* users.presence
    call,      \* the agent has a call that is live (activeForUser), and one undocumented
    finishing, \* afterCallFinalized is still to run for the ended call
    change,    \* the agent's transaction that has read a session and not yet written
    sweep,     \* the reaper or a logout at work
    inbound    \* an inbound call that is being routed to the agent

sessionVars == <<session, fresh, presence, call, finishing, change, sweep, inbound>>

Live == {"active", "paused"}
NoChange == [op |-> "none", of |-> {}]
NoSweep == [pc |-> "idle", of |-> {}]

SessionTypeOK ==
    /\ session \in [Sessions -> {"none", "ended"} \cup Live]
    /\ fresh \in [Sessions -> BOOLEAN]
    /\ presence \in {"offline", "available", "paused", "in_call", "wrap_up"}
    /\ call \subseteq {"live", "undocumented"} /\ finishing \in BOOLEAN
    /\ change \in [op : {"none", "pause", "resume", "end"}, of : SUBSET Sessions]
    /\ sweep \in [pc : {"idle", "listed", "looked", "ended"}, of : SUBSET Sessions]
    /\ inbound \in {"none", "picked", "created"}

SessionInit ==
    /\ session = [s \in Sessions |-> "none"]
    /\ fresh = [s \in Sessions |-> FALSE]
    /\ presence = "offline" /\ call = {} /\ finishing = FALSE
    /\ change = NoChange /\ sweep = NoSweep /\ inbound = "none"

\* The row lock: writers of the users row wait for the agent's transaction.
NeverLocked == TRUE
Unlocked == change.op = "none"

EndAll(targets) ==
    [s \in Sessions |-> IF s \in targets /\ session[s] \in Live THEN "ended" ELSE session[s]]

-----------------------------------------------------------------------------
(* The agent's requests.                                                    *)
StartSession(s) ==
    /\ Unlocked /\ session[s] = "none" /\ call = {}
    /\ session' = [EndAll(Sessions) EXCEPT ![s] = "active"]
    /\ fresh' = [fresh EXCEPT ![s] = TRUE]
    /\ presence' = "available"
    /\ UNCHANGED <<call, finishing, change, sweep, inbound>>

\* pauseSession, resumeSession, endSession: read the session, then write it.
BeginChange(op, s) ==
    /\ Unlocked /\ session[s] \in Live
    /\ op = "end" => "live" \notin call
    /\ change' = [op |-> op, of |-> {s}]
    /\ UNCHANGED <<session, fresh, presence, call, finishing, sweep, inbound>>

Written(op) == CASE op = "pause" -> "paused" [] op = "resume" -> "active" [] op = "end" -> "ended"

CommitChange ==
    /\ change.op # "none" /\ change' = NoChange
    /\ session' = [s \in Sessions |-> IF s \in change.of THEN Written(change.op) ELSE session[s]]
    /\ presence' = CASE change.op = "end" -> "offline"
                     [] change.op = "pause" /\ presence = "available" -> "paused"
                     [] change.op = "resume" /\ presence = "paused" -> "available"
                     [] OTHER -> presence
    /\ UNCHANGED <<fresh, call, finishing, sweep, inbound>>

RollBack ==
    /\ change.op # "none" /\ change' = NoChange
    /\ UNCHANGED <<session, fresh, presence, call, finishing, sweep, inbound>>

Heartbeat(s) ==
    /\ session[s] \in Live
    /\ fresh' = [fresh EXCEPT ![s] = TRUE]
    /\ UNCHANGED <<session, presence, call, finishing, change, sweep, inbound>>

GoesStale(s) ==
    /\ fresh' = [fresh EXCEPT ![s] = FALSE]
    /\ UNCHANGED <<session, presence, call, finishing, change, sweep, inbound>>

-----------------------------------------------------------------------------
(* Calls, as far as they concern sessions and presence.                     *)
\* In a session, or manual while no session is paused.
StartCall ==
    /\ Unlocked /\ call = {}
    /\ \/ \E s \in Sessions : session[s] = "active"
       \/ \A s \in Sessions : session[s] # "paused"
    /\ call' = {"live"} /\ presence' = "in_call"
    /\ UNCHANGED <<session, fresh, finishing, change, sweep, inbound>>

CallEnds ==
    /\ "live" \in call
    /\ call' = {"undocumented"} /\ finishing' = TRUE
    /\ UNCHANGED <<session, fresh, presence, change, sweep, inbound>>

\* afterCallFinalized: a call that never rang needs no wrap-up.
AfterCall(technical) ==
    /\ finishing /\ Unlocked /\ finishing' = FALSE
    /\ IF "undocumented" \notin call THEN UNCHANGED <<call, presence>>
       ELSE /\ call' = IF technical THEN call \ {"undocumented"} ELSE call
            /\ presence' = IF presence # "in_call" THEN presence
                           ELSE IF technical THEN "available" ELSE "wrap_up"
    /\ UNCHANGED <<session, fresh, change, sweep, inbound>>

SaveOutcome ==
    /\ "undocumented" \in call /\ Unlocked
    /\ call' = call \ {"undocumented"}
    /\ presence' = IF presence # "wrap_up" THEN presence
                   ELSE IF \E s \in Sessions : session[s] = "paused" THEN "paused" ELSE "available"
    /\ UNCHANGED <<session, fresh, finishing, change, sweep, inbound>>

\* handleInboundInitiated: chooses an agent who works and is free, then
\* creates the call (unique activeForUser), then sets the presence.
PickAgent ==
    /\ inbound = "none"
    /\ presence = "available" /\ call = {}
    /\ \E s \in Sessions : session[s] = "active" /\ fresh[s]
    /\ inbound' = "picked"
    /\ UNCHANGED <<session, fresh, presence, call, finishing, change, sweep>>

CreateInbound ==
    /\ inbound = "picked"
    /\ IF "live" \in call THEN inbound' = "none" /\ UNCHANGED call  \* missed
       ELSE inbound' = "created" /\ call' = call \cup {"live"}
    /\ UNCHANGED <<session, fresh, presence, finishing, change, sweep>>

InboundInCall ==
    /\ inbound = "created" /\ Unlocked
    /\ inbound' = "none" /\ presence' = "in_call"
    /\ UNCHANGED <<session, fresh, call, finishing, change, sweep>>

-----------------------------------------------------------------------------
(* Without the lock.                                                        *)
\* reapStaleSessions lists stale sessions and looks for a live call.
SweepLists(s) ==
    /\ sweep.pc = "idle"
    /\ session[s] \in Live /\ ~fresh[s]
    /\ sweep' = [pc |-> "listed", of |-> {s}]
    /\ UNCHANGED <<session, fresh, presence, call, finishing, change, inbound>>

SweepLooks ==
    /\ sweep.pc = "listed"
    /\ sweep' = IF "live" \in call THEN NoSweep ELSE [sweep EXCEPT !.pc = "looked"]
    /\ UNCHANGED <<session, fresh, presence, call, finishing, change, inbound>>

LogOut ==
    /\ sweep.pc = "idle" /\ "live" \notin call
    /\ sweep' = [pc |-> "looked", of |-> Sessions]
    /\ UNCHANGED <<session, fresh, presence, call, finishing, change, inbound>>

SweepEnds ==
    /\ sweep.pc = "looked"
    /\ session' = EndAll(sweep.of)
    /\ sweep' = [sweep EXCEPT !.pc = "ended"]
    /\ UNCHANGED <<fresh, presence, call, finishing, change, inbound>>

SweepOffline ==
    /\ sweep.pc = "ended" /\ Unlocked
    /\ sweep' = NoSweep /\ presence' = "offline"
    /\ UNCHANGED <<session, fresh, call, finishing, change, inbound>>

\* A list is deleted, a user deactivated, or the retention job runs.
EndedElsewhere(s) ==
    /\ session[s] \in Live
    /\ session' = EndAll({s})
    /\ UNCHANGED <<fresh, presence, call, finishing, change, sweep, inbound>>

SessionNext ==
    \/ \E s \in Sessions :
        \/ StartSession(s) \/ Heartbeat(s) \/ GoesStale(s)
        \/ \E op \in {"pause", "resume", "end"} : BeginChange(op, s)
        \/ SweepLists(s) \/ EndedElsewhere(s)
    \/ CommitChange \/ RollBack
    \/ StartCall \/ CallEnds \/ SaveOutcome
    \/ \E technical \in BOOLEAN : AfterCall(technical)
    \/ PickAgent \/ CreateInbound \/ InboundInCall
    \/ SweepLooks \/ LogOut \/ SweepEnds \/ SweepOffline

SessionSpec == SessionInit /\ [][SessionNext]_sessionVars

-----------------------------------------------------------------------------
(* An agent has at most one live session, though a resume writes "active"   *)
(* over whatever has become of the session it has read (lockAgent, in every *)
(* request of session.ts).                                                  *)
OneLiveSession ==
    \A s, t \in Sessions : session[s] \in Live /\ session[t] \in Live => s = t
=============================================================================
