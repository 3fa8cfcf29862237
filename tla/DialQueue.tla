----------------------------- MODULE DialQueue -----------------------------
(***************************************************************************)
(* The dial queue: src/src/lib/dialer/{queue,calls,session,list-admin}.ts  *)
(* and afterCallFinalized of src/src/lib/telephony/events.ts.              *)
(*                                                                         *)
(* A row of list_leads puts a contact into a dialing list.  Agents claim   *)
(* rows, dial them, document the call (which decides the row's future) and *)
(* claim the next one.  Managers transfer, remove and requeue rows, close  *)
(* lists and block numbers meanwhile.  lockAgent serializes the            *)
(* transactions of one agent; nothing serializes two agents, or an agent   *)
(* and a manager, except the conditions of their UPDATE statements.        *)
(*                                                                         *)
(* Statuses pending and callback are one status here, "queued": they       *)
(* differ in when and by whom a row may be dialed, and those filters       *)
(* (retry times, preferred agent, ownership, attempt caps) are data: a     *)
(* queued row may be offered to any agent, or not.                         *)
(*                                                                         *)
(* The claim's UPDATE chooses its row on a snapshot and locks it later.    *)
(* What other transactions commit to that row, to the contact's other rows *)
(* and to the calls in between is not waited for by anybody.               *)
(***************************************************************************)
EXTENDS Integers, FiniteSets

CONSTANTS
    Agents,      \* the agents of one business
    Lists,       \* its dialing lists
    Contacts,    \* its contacts
    Rows,        \* list_leads rows
    ContactOf,   \* the contact of each row
    ListOf,      \* the list of each row
    Calls,       \* the calls that may be started (a bound for TLC)
    None,        \* no agent, no row, no contact
    MaxCommands  \* how many transfers there may be, and how many other commands of
                 \* managers (a bound for TLC)

ASSUME DialQueueAssumption ==
    /\ ContactOf \in [Rows -> Contacts]
    /\ ListOf \in [Rows -> Lists]
    /\ \A q, r \in Rows : ContactOf[q] = ContactOf[r] /\ ListOf[q] = ListOf[r] => q = r
    /\ None \notin Agents \cup Rows \cup Contacts
    /\ MaxCommands \in Nat
    /\ IsFiniteSet(Calls)

VARIABLES
    status,     \* list_leads.status
    holder,     \* list_leads.locked_by_user_id
    expired,    \* list_leads.lock_expires_at is in the past
    attempts,   \* list_leads.attempts
    call,       \* the calls table
    open,       \* the lists that are active
    blocked,    \* contacts with a DNC entry
    blocking,   \* DNC entries whose rows have not been pulled out yet
    candidate,  \* the row selected by an agent's claim in flight
    transfer,   \* the transfer in flight: the row and the status it has read
    commands,   \* how many of each there have been
    overwritten, \* history: rows a transfer took out of a call or a closed status unread
    outrun,     \* history: agents whose claim in flight is of a row since dialed or reopened
    overtaken   \* history: rows that were last taken by a claim that was outrun

\* What only managers change, outcomes aside.
deskVars == <<open, blocked, blocking, transfer, commands, overwritten>>
claimVars == <<candidate, outrun, overtaken>>
vars == <<status, holder, expired, attempts, call, open, blocked, blocking,
          candidate, transfer, commands, overwritten, outrun, overtaken>>

Closed == {"completed", "exhausted", "dnc", "removed"}
RowStatus == {"queued", "locked", "in_call"} \cup Closed

\* A call is "live" until endedAt is set, and "saved" once outcomeSavedAt is.
\* counted: its attempt has not been refunded; technical: failed before ringing.
CallRec == [stage : {"none", "live", "ended", "saved"},
            agent : Agents \cup {None}, row : Rows \cup {None},
            contact : Contacts \cup {None}, technical : BOOLEAN, counted : BOOLEAN]

NoCall == [stage |-> "none", agent |-> None, row |-> None, contact |-> None,
           technical |-> FALSE, counted |-> FALSE]
NoTransfer == [row |-> None, seen |-> "queued"]

TypeOK ==
    /\ status \in [Rows -> RowStatus]
    /\ holder \in [Rows -> Agents \cup {None}]
    /\ expired \in [Rows -> BOOLEAN]
    /\ attempts \in [Rows -> Int]
    /\ call \in [Calls -> CallRec]
    /\ open \in SUBSET Lists
    /\ blocked \in SUBSET Contacts
    /\ blocking \in SUBSET Contacts
    /\ candidate \in [Agents -> Rows \cup {None}]
    /\ transfer \in [row : Rows \cup {None}, seen : RowStatus \ {"in_call"}]
    /\ commands \in [{"transfer", "other"} -> 0..MaxCommands]
    /\ overwritten \in SUBSET Rows
    /\ outrun \in SUBSET Agents
    /\ overtaken \in SUBSET Rows

Init ==
    /\ status = [r \in Rows |-> "queued"]
    /\ holder = [r \in Rows |-> None]
    /\ expired = [r \in Rows |-> FALSE]
    /\ attempts = [r \in Rows |-> 0]
    /\ call = [c \in Calls |-> NoCall]
    /\ open = Lists
    /\ blocked = {}
    /\ blocking = {}
    /\ candidate = [a \in Agents |-> None]
    /\ transfer = NoTransfer
    /\ commands = [kind \in {"transfer", "other"} |-> 0]
    /\ overwritten = {}
    /\ outrun = {}
    /\ overtaken = {}

-----------------------------------------------------------------------------
Undocumented(c) == call[c].stage \in {"live", "ended"}
Live(c) == call[c].stage = "live"

RowsOf(p) == {r \in Rows : ContactOf[r] = p}

HeldInCall(a) == {r \in Rows : holder[r] = a /\ status[r] = "in_call"}

\* currentLockedLead: the rows this agent works on.
HeldBy(a) == {r \in Rows : holder[r] = a /\ status[r] \in {"locked", "in_call"}}

\* lockAgent: no other transaction of this agent is in flight.
AgentFree(a) == candidate[a] = None

\* These rows lose their lock.
Unlock(R) ==
    /\ holder' = [r \in Rows |-> IF r \in R THEN None ELSE holder[r]]
    /\ expired' = [r \in Rows |-> IF r \in R THEN FALSE ELSE expired[r]]

SetStatus(R, to) == status' = [r \in Rows |-> IF r \in R THEN to ELSE status[r]]

-----------------------------------------------------------------------------
(* Claiming.  The UPDATE's subselect picks a row on a snapshot, then locks  *)
(* it and looks at the row's own columns again: what the snapshot said of   *)
(* other rows and of other tables may be out of date by then.  A claim is   *)
(* outrun when its row is dialed or reopened meanwhile.                     *)
ClaimsOf(R) == {a \in Agents : candidate[a] \in R}

Outrun(R) == outrun' = outrun \cup ClaimsOf(R)

Claimable(r) == status[r] = "queued" \/ (status[r] = "locked" /\ expired[r])

NoLiveCall(r) == \A c \in Calls : call[c].row = r => ~Live(c)

\* queueFilter's conditions on the calls and on the contact's other rows.
NoUndocumentedCall(r) == \A c \in Calls : call[c].row = r => ~Undocumented(c)
PersonFree(a, r) ==
    /\ \A c \in Calls : call[c].contact = ContactOf[r] => ~Live(c)
    /\ \A q \in RowsOf(ContactOf[r]) \ {r} :
        status[q] = "in_call" \/ (status[q] = "locked" /\ ~expired[q]) => holder[q] = a

FilterWithoutDnc(a, r) == Claimable(r) /\ NoUndocumentedCall(r) /\ PersonFree(a, r)

queueFilter(a, r) ==
    /\ Claimable(r)
    /\ NoUndocumentedCall(r)
    /\ PersonFree(a, r)
    /\ ContactOf[r] \notin blocked

claimNextLead(a, r) ==
    /\ AgentFree(a)
    /\ HeldBy(a) = {}
    /\ ListOf[r] \in open
    /\ queueFilter(a, r)
    /\ candidate' = [candidate EXCEPT ![a] = r]
    /\ UNCHANGED <<status, holder, expired, attempts, call, outrun, overtaken, deskVars>>

LockCandidate(a, r) ==
    /\ candidate[a] = r
    /\ \/ /\ Claimable(r)
          /\ status' = [status EXCEPT ![r] = "locked"]
          /\ holder' = [holder EXCEPT ![r] = a]
          /\ expired' = [expired EXCEPT ![r] = FALSE]
          /\ overtaken' = IF a \in outrun THEN overtaken \cup {r} ELSE overtaken \ {r}
       \/ /\ ~Claimable(r)
          /\ UNCHANGED <<status, holder, expired, overtaken>>
    /\ candidate' = [candidate EXCEPT ![a] = None]
    /\ outrun' = outrun \ {a}
    /\ UNCHANGED <<attempts, call, deskVars>>

-----------------------------------------------------------------------------
(* Calls.  startCall's transaction; the earlier checks outside it refuse    *)
(* more than it does.                                                       *)
DialAllowedAnyPerson(a, p) ==
    /\ AgentFree(a)
    /\ \A c \in Calls : call[c].agent = a => ~Undocumented(c)
    /\ p \notin blocked

DialAllowed(a, p) ==
    /\ AgentFree(a)
    /\ \A c \in Calls : call[c].agent = a => ~Undocumented(c)
    /\ \A c \in Calls : call[c].contact = p => ~Live(c)
    /\ p \notin blocked

NewCall(a, r, p) == [stage |-> "live", agent |-> a, row |-> r, contact |-> p,
                     technical |-> FALSE, counted |-> r # None]

startCall(a, c, r) ==
    /\ call[c].stage = "none"
    /\ DialAllowed(a, ContactOf[r])
    /\ status[r] = "locked" /\ holder[r] = a /\ ~expired[r]
    /\ ListOf[r] \in open
    /\ call' = [call EXCEPT ![c] = NewCall(a, r, ContactOf[r])]
    /\ status' = [status EXCEPT ![r] = "in_call"]
    /\ attempts' = [attempts EXCEPT ![r] = @ + 1]
    /\ Outrun({r})
    /\ UNCHANGED <<holder, expired, candidate, overtaken, deskVars>>

dialManually(a, c, p) ==
    /\ call[c].stage = "none"
    /\ DialAllowed(a, p)
    /\ call' = [call EXCEPT ![c] = NewCall(a, None, p)]
    /\ UNCHANGED <<status, holder, expired, attempts, claimVars, deskVars>>

(* endedAt is set: a provider event, the reconciliation or a failed dial.   *)
(* Some of these write it without looking whether another was faster.      *)
CallEnds(c, technical) ==
    /\ Undocumented(c)
    /\ call' = [call EXCEPT ![c].stage = "ended", ![c].technical = technical]
    /\ UNCHANGED <<status, holder, expired, attempts, claimVars, deskVars>>

ReturnedFromWrapUp(c) == {r \in Rows : r = call[c].row /\ holder[r] = call[c].agent
                                        /\ status[r] = "locked"}
ReturnedByAnyone(c) == {r \in Rows : r = call[c].row}

\* The call's row, if its agent still holds it.
Returned(c) == {r \in Rows : r = call[c].row /\ holder[r] = call[c].agent}

(* afterCallFinalized runs once, twice or, after a crash, never.  A call    *)
(* that failed before it rang needs no outcome and gives its attempt back;  *)
(* any other keeps its row for the wrap-up.                                 *)
RefundCall(c) ==
    /\ call[c].stage = "ended" /\ call[c].technical
    /\ AgentFree(call[c].agent)
    /\ call' = [call EXCEPT ![c].stage = "saved",
                            ![c].counted = @ /\ Returned(c) = {}]
    /\ SetStatus(Returned(c), "queued")
    /\ Unlock(Returned(c))
    /\ attempts' = [r \in Rows |-> IF r \in Returned(c) THEN attempts[r] - 1
                                   ELSE attempts[r]]
    /\ UNCHANGED <<claimVars, deskVars>>

StartWrapUp(c) ==
    /\ call[c].stage = "ended" /\ ~call[c].technical
    /\ AgentFree(call[c].agent)
    /\ LET R == {r \in Returned(c) : status[r] = "in_call"}
       IN  /\ SetStatus(R, "locked")
           /\ expired' = [r \in Rows |-> IF r \in R THEN FALSE ELSE expired[r]]
    /\ UNCHANGED <<holder, attempts, call, claimVars, deskVars>>

-----------------------------------------------------------------------------
(* Documenting.  saveOutcome, by the agent or by autoFinalizePendingCalls,  *)
(* writes the call's row whoever holds it, and may sweep other rows of the  *)
(* contact: a DNC request all that are not in a call, a used-up quota of    *)
(* unanswered calls those queued or locked, a sale the same if the business *)
(* has that automation on; a lost lead's follow-ups are closed, and a       *)
(* callback requeues the contact in the personal list of its agent.         *)
Outcomes == {"retry", "callback", "close", "sale", "quota", "dnc"}

RowAfterClosed(outcome) ==
    CASE outcome = "retry" -> {"queued", "exhausted"}
      [] outcome = "callback" -> {"queued"}
      [] outcome \in {"close", "sale"} -> {"closed"}
      [] outcome = "quota" -> {"exhausted"}
      [] outcome = "dnc" -> {"dnc"}

RowAfter(outcome) ==
    CASE outcome = "retry" -> {"queued", "exhausted"}
      [] outcome = "callback" -> {"queued"}
      [] outcome \in {"close", "sale"} -> {"completed"}
      [] outcome = "quota" -> {"exhausted"}
      [] outcome = "dnc" -> {"dnc"}

SweptFrom(outcome) ==
    CASE outcome \in {"sale", "quota"} -> {"queued", "locked"}
      [] outcome = "dnc" -> RowStatus \ {"in_call"}
      [] outcome = "close" -> {"queued"}
      [] outcome = "callback" -> {"completed", "exhausted", "removed"}
      [] outcome = "retry" -> {}

SweptTo(outcome) == CASE outcome \in {"sale", "close"} -> "completed"
                      [] outcome = "quota" -> "exhausted"
                      [] outcome = "dnc" -> "dnc"
                      [] OTHER -> "queued"

Sweepable(c, outcome) ==
    {r \in RowsOf(call[c].contact) \ {call[c].row} : status[r] \in SweptFrom(outcome)}

saveOutcome(c, outcome, swept) ==
    /\ call[c].stage = "ended"
    /\ AgentFree(call[c].agent)
    /\ swept \subseteq Sweepable(c, outcome)
    /\ outcome \in {"quota", "dnc"} => swept = Sweepable(c, outcome)
    /\ call' = [call EXCEPT ![c].stage = "saved"]
    /\ \E to \in RowAfter(outcome) :
        status' = [r \in Rows |-> IF r = call[c].row THEN to
                                  ELSE IF r \in swept THEN SweptTo(outcome)
                                  ELSE status[r]]
    /\ Unlock(swept \cup {call[c].row})
    /\ blocked' = IF outcome = "dnc" THEN blocked \cup {call[c].contact} ELSE blocked
    /\ Outrun({r \in swept : outcome = "callback"})
    /\ UNCHANGED <<attempts, open, blocking, candidate, transfer, commands, overwritten,
                   overtaken>>

-----------------------------------------------------------------------------
(* Leaving a row: the session starts anew, ends or is reaped, a dial guard  *)
(* refuses, or the agent skips.  Never while the row is in a call.          *)
releaseLead(a, r) ==
    /\ status[r] = "locked" /\ holder[r] = a
    /\ SetStatus({r}, "queued")
    /\ Unlock({r})
    /\ UNCHANGED <<attempts, call, claimVars, deskVars>>

(* The lock runs out; a heartbeat of the agent renews it.  The heartbeat    *)
(* writes by row id, whoever holds the row by then.                         *)
LockExpires(r) ==
    /\ status[r] = "locked" /\ ~expired[r]
    /\ expired' = [expired EXCEPT ![r] = TRUE]
    /\ UNCHANGED <<status, holder, attempts, call, claimVars, deskVars>>

heartbeat(r) ==
    /\ expired[r]
    /\ expired' = [expired EXCEPT ![r] = FALSE]
    /\ UNCHANGED <<status, holder, attempts, call, claimVars, deskVars>>

-----------------------------------------------------------------------------
Command(kind) ==
    /\ commands[kind] < MaxCommands
    /\ commands' = [commands EXCEPT ![kind] = @ + 1]

(* Managers.  transferLead reads the row, refuses one in a call, and writes *)
(* by id what it has read, with the lock cleared.                           *)
TransferRead(r) ==
    /\ Command("transfer")
    /\ transfer.row = None
    /\ status[r] # "in_call"
    /\ transfer' = [row |-> r, seen |-> status[r]]
    /\ UNCHANGED <<status, holder, expired, attempts, call, open, blocked, blocking,
                   claimVars, overwritten>>

TransferWrite(r) ==
    /\ transfer.row = r
    /\ overwritten' = IF status[r] \in {transfer.seen, "queued", "locked"} THEN overwritten
                      ELSE overwritten \cup {r}
    /\ SetStatus({r}, IF transfer.seen = "locked" THEN "queued" ELSE transfer.seen)
    /\ Unlock({r})
    /\ transfer' = NoTransfer
    /\ UNCHANGED <<attempts, call, open, blocked, blocking, claimVars, commands>>

TransferFails ==
    /\ transfer.row # None
    /\ transfer' = NoTransfer
    /\ UNCHANGED <<status, holder, expired, attempts, call, open, blocked, blocking,
                   claimVars, commands, overwritten>>

removeAnyRow(r) ==
    /\ Command("other")
    /\ SetStatus({r}, "removed")
    /\ Unlock({r})
    /\ UNCHANGED <<attempts, call, open, blocked, blocking, claimVars, transfer, overwritten>>

removeRow(r) ==
    /\ Command("other")
    /\ status[r] # "in_call"
    /\ SetStatus({r}, "removed")
    /\ Unlock({r})
    /\ UNCHANGED <<attempts, call, open, blocked, blocking, claimVars, transfer, overwritten>>

requeueRow(r) ==
    /\ Command("other")
    /\ status[r] \notin {"in_call", "dnc"}
    /\ SetStatus({r}, "queued")
    /\ Unlock({r})
    /\ attempts' = [attempts EXCEPT ![r] = 0]
    /\ Outrun({q \in {r} : status[q] \in Closed})
    /\ UNCHANGED <<call, open, blocked, blocking, candidate, transfer, overwritten, overtaken>>

setListActive(l, active) ==
    /\ Command("other")
    /\ open' = IF active THEN open \cup {l} ELSE open \ {l}
    /\ LET R == {r \in Rows : ListOf[r] = l /\ status[r] = "locked" /\ ~active}
       IN  SetStatus(R, "queued") /\ Unlock(R)
    /\ UNCHANGED <<attempts, call, blocked, blocking, claimVars, transfer, overwritten>>

(* A manager blocks a number: the entry first, then the contact's rows, in  *)
(* two statements without a transaction around them.                        *)
addToDnc(p) ==
    /\ Command("other")
    /\ blocked' = blocked \cup {p}
    /\ blocking' = blocking \cup {p}
    /\ UNCHANGED <<status, holder, expired, attempts, call, open, claimVars, transfer, overwritten>>

PullRows(p) ==
    /\ p \in blocking
    /\ blocking' = blocking \ {p}
    /\ LET R == {r \in RowsOf(p) : status[r] # "in_call"}
       IN  SetStatus(R, "dnc") /\ Unlock(R)
    /\ UNCHANGED <<attempts, call, open, blocked, claimVars, transfer, commands, overwritten>>

removeFromDnc(p) ==
    /\ Command("other")
    /\ p \in blocked
    /\ blocked' = blocked \ {p}
    /\ UNCHANGED <<status, holder, expired, attempts, call, open, blocking,
                   claimVars, transfer, overwritten>>

-----------------------------------------------------------------------------
Next ==
    \/ \E a \in Agents, r \in Rows :
        claimNextLead(a, r) \/ LockCandidate(a, r) \/ releaseLead(a, r)
    \/ \E a \in Agents, c \in Calls :
        \/ \E r \in Rows : startCall(a, c, r)
        \/ \E p \in Contacts : dialManually(a, c, p)
    \/ \E c \in Calls :
        \/ \E technical \in BOOLEAN : CallEnds(c, technical)
        \/ RefundCall(c) \/ StartWrapUp(c)
        \/ \E outcome \in Outcomes, swept \in SUBSET Rows : saveOutcome(c, outcome, swept)
    \/ \E r \in Rows :
        \/ LockExpires(r) \/ heartbeat(r) \/ TransferRead(r) \/ TransferWrite(r)
        \/ removeRow(r) \/ requeueRow(r)
    \/ TransferFails
    \/ \E l \in Lists, active \in BOOLEAN : setListActive(l, active)
    \/ \E p \in Contacts : addToDnc(p) \/ PullRows(p) \/ removeFromDnc(p)

Spec == Init /\ [][Next]_vars
=============================================================================
