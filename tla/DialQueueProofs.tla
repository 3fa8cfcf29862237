-------------------------- MODULE DialQueueProofs --------------------------
(***************************************************************************)
(* Proofs about the dial queue, for any number of agents, rows and calls.  *)
(* The inductive invariant is about who holds what (status, holder), the   *)
(* calls, the claims in flight and which of them have been outrun.  Most   *)
(* actions make a set of rows leave their agents, some with a call         *)
(* documented; one lemma covers them all, and one covers those that touch  *)
(* none of these variables.                                                *)
(***************************************************************************)
EXTENDS DialQueueProperties, FiniteSetTheorems, TLAPS

HeldWhenLocked ==
    \A r \in Rows : holder[r] # None <=> status[r] \in {"locked", "in_call"}

\* An agent whose claim is in flight holds nothing; if somebody owes an
\* outcome for the row it is about to lock, it is another, and the claim has
\* been outrun.
ClaimsAlone ==
    \A a \in Agents : candidate[a] # None =>
        /\ \A r \in Rows : holder[r] # a
        /\ \A c \in Calls : Undocumented(c) /\ call[c].row = candidate[a] =>
            a \in outrun /\ call[c].agent # a

CallsWellFormed ==
    \A c \in Calls : Undocumented(c) =>
        /\ call[c].agent \in Agents /\ call[c].contact \in Contacts
        /\ call[c].row # None => call[c].contact = ContactOf[call[c].row]

OneUndocumentedCall ==
    \A c, d \in Calls :
        Undocumented(c) /\ Undocumented(d) /\ call[c].agent = call[d].agent => c = d

\* Two agents owe an outcome for one row only after a claim that was outrun.
OneDebtPerRow ==
    \A c, d \in Calls :
        (/\ Undocumented(c) /\ Undocumented(d)
         /\ call[c].row = call[d].row /\ call[c].row \notin {None} \cup overtaken)
            => c = d

\* An agent who is talking on a row has it in_call or no longer has it.
TalkerIsInCall ==
    \A c \in Calls :
        Live(c) /\ call[c].row # None /\ holder[call[c].row] = call[c].agent =>
            status[call[c].row] = "in_call"

CoreInv ==
    /\ HeldWhenLocked
    /\ OneRowPerAgent
    /\ ClaimsAlone
    /\ CallsWellFormed
    /\ OneUndocumentedCall
    /\ OneDebtPerRow
    /\ TalkerIsInCall
    /\ OutcomeFindsNoStranger
    /\ InCallHasItsCall

\* A step in which the rows R become nobody's.
Leaves(R) ==
    /\ \A r \in R : status'[r] \notin {"locked", "in_call"} /\ holder'[r] = None
    /\ \A r \in Rows \ R : status'[r] = status[r] /\ holder'[r] = holder[r]

\* A step in which the calls D, and no others, get documented.
Documents(D) ==
    /\ \A c \in D : call'[c].stage = "saved"
    /\ \A c \in Calls \ D : call'[c] = call[c]

-----------------------------------------------------------------------------
LEMMA NoneIsNoAgent == ASSUME DialQueueAssumption PROVE None \notin Agents \cup Rows
  BY DEF DialQueueAssumption

LEMMA TypeInit == ASSUME DialQueueAssumption, Init PROVE TypeOK
  BY DEF DialQueueAssumption, Init, TypeOK, NoCall, NoTransfer, CallRec, RowStatus, Closed

LEMMA CoreInit == ASSUME DialQueueAssumption, Init PROVE CoreInv
  BY DEF DialQueueAssumption, Init, NoCall, CoreInv, HeldWhenLocked, OneRowPerAgent,
         ClaimsAlone, CallsWellFormed, OneUndocumentedCall, OneDebtPerRow, TalkerIsInCall,
         OutcomeFindsNoStranger, InCallHasItsCall, Undocumented, Live

(* Rows leave and calls are documented, the rows of the documented calls    *)
(* among those that leave if their agents still hold them.                  *)
LEMMA LeavingKeeps ==
  ASSUME DialQueueAssumption, TypeOK, CoreInv, TypeOK',
         NEW R \in SUBSET Rows, NEW D \in SUBSET Calls,
         Leaves(R), Documents(D), UNCHANGED <<candidate, overtaken>>, outrun \subseteq outrun',
         \A c \in D : \A r \in Rows :
            call[c].row = r /\ call[c].agent = holder[r] => r \in R
  PROVE  CoreInv'
<1> USE DEF DialQueueAssumption, Leaves, Documents
<1>1. \A c \in Calls : Undocumented(c)' => Undocumented(c) /\ call'[c] = call[c]
  BY DEF Undocumented
<1>2. HeldWhenLocked' BY DEF CoreInv, HeldWhenLocked
<1>3. OneRowPerAgent' BY DEF CoreInv, OneRowPerAgent
<1>4. ClaimsAlone'
  <2> SUFFICES ASSUME NEW a \in Agents, candidate'[a] # None
               PROVE  /\ \A r \in Rows : holder'[r] # a
                      /\ \A c \in Calls : Undocumented(c)' /\ call'[c].row = candidate[a] =>
                          a \in outrun' /\ call'[c].agent # a
    BY DEF ClaimsAlone
  <2>1. /\ \A r \in Rows : holder[r] # a
        /\ \A c \in Calls : Undocumented(c) /\ call[c].row = candidate[a] =>
            a \in outrun /\ call[c].agent # a
    BY DEF CoreInv, ClaimsAlone
  <2>2. \A r \in Rows : holder'[r] # a BY <2>1
  <2> QED BY <2>1, <2>2, <1>1
<1>5. CallsWellFormed' BY <1>1 DEF CoreInv, CallsWellFormed
<1>6. OneUndocumentedCall' /\ OneDebtPerRow'
  BY <1>1 DEF CoreInv, OneUndocumentedCall, OneDebtPerRow
<1>9. TalkerIsInCall'
  <2> SUFFICES ASSUME NEW c \in Calls, Live(c)', call'[c].row # None,
                      holder'[call'[c].row] = call'[c].agent
               PROVE  status'[call'[c].row] = "in_call"
    BY DEF TalkerIsInCall
  <2>1. Undocumented(c)' BY DEF Live, Undocumented
  <2>2. call'[c] = call[c] /\ Undocumented(c) /\ Live(c) BY <1>1, <2>1 DEF Live
  <2>3. call[c].row \in Rows /\ call[c].agent # None
    BY <2>2 DEF TypeOK, CallRec, CoreInv, CallsWellFormed
  <2>4. call[c].row \notin R BY <2>2, <2>3
  <2> QED BY <2>2, <2>3, <2>4 DEF CoreInv, TalkerIsInCall
<1>7. OutcomeFindsNoStranger'
  BY <1>1 DEF CoreInv, OutcomeFindsNoStranger, TypeOK, CallRec
<1>8. InCallHasItsCall'
  <2> SUFFICES ASSUME NEW r \in Rows, status'[r] = "in_call"
               PROVE  \E c \in Calls : Undocumented(c)' /\ call'[c].row = r
                                        /\ call'[c].agent = holder'[r]
    BY DEF InCallHasItsCall
  <2>1. r \notin R /\ status[r] = "in_call" /\ holder'[r] = holder[r] OBVIOUS
  <2>2. PICK c \in Calls : Undocumented(c) /\ call[c].row = r /\ call[c].agent = holder[r]
    BY <2>1 DEF CoreInv, InCallHasItsCall
  <2>3. c \notin D BY <2>1, <2>2
  <2> QED BY <2>1, <2>2, <2>3 DEF Undocumented
<1> QED BY <1>2, <1>3, <1>4, <1>5, <1>6, <1>7, <1>8, <1>9 DEF CoreInv

LEMMA UntouchedKeeps ==
  ASSUME DialQueueAssumption, CoreInv, UNCHANGED <<status, holder, call, claimVars>>
  PROVE  CoreInv'
  BY DEF CoreInv, HeldWhenLocked, OneRowPerAgent, ClaimsAlone, CallsWellFormed,
         OneUndocumentedCall, OneDebtPerRow, TalkerIsInCall, OutcomeFindsNoStranger,
         InCallHasItsCall, Undocumented, Live, claimVars

-----------------------------------------------------------------------------
(* Types, one lemma per group of actions.                                   *)
LEMMA TypeOfRelease ==
  ASSUME TypeOK, NEW R, NEW to \in RowStatus, SetStatus(R, to), Unlock(R)
  PROVE  /\ status' \in [Rows -> RowStatus]
         /\ holder' \in [Rows -> Agents \cup {None}]
         /\ expired' \in [Rows -> BOOLEAN]
<1>1. status' \in [Rows -> RowStatus] BY DEF TypeOK, SetStatus
<1>2. holder' \in [Rows -> Agents \cup {None}] BY DEF TypeOK, Unlock
<1>3. expired' \in [Rows -> BOOLEAN] BY DEF TypeOK, Unlock
<1> QED BY <1>1, <1>2, <1>3

LEMMA TypeOfClaims ==
  ASSUME DialQueueAssumption, TypeOK, NEW a \in Agents, NEW r \in Rows,
         claimNextLead(a, r) \/ LockCandidate(a, r) \/ releaseLead(a, r)
  PROVE  TypeOK'
<1> USE DEF TypeOK, deskVars, claimVars, RowStatus
<1>1. CASE claimNextLead(a, r) BY <1>1 DEF claimNextLead
<1>2. CASE LockCandidate(a, r)
  <2>1. /\ status' \in [Rows -> RowStatus] /\ holder' \in [Rows -> Agents \cup {None}]
        /\ expired' \in [Rows -> BOOLEAN]
    <3>1. CASE Claimable(r)
      <4>1. status' = [status EXCEPT ![r] = "locked"] BY <1>2, <3>1 DEF LockCandidate
      <4>2. holder' = [holder EXCEPT ![r] = a] BY <1>2, <3>1 DEF LockCandidate
      <4>3. expired' = [expired EXCEPT ![r] = FALSE] BY <1>2, <3>1 DEF LockCandidate
      <4> QED BY <4>1, <4>2, <4>3
    <3>2. CASE ~Claimable(r) BY <1>2, <3>2 DEF LockCandidate
    <3> QED BY <3>1, <3>2
  <2>2. /\ candidate' \in [Agents -> Rows \cup {None}]
        /\ outrun' \in SUBSET Agents /\ overtaken' \in SUBSET Rows
    BY <1>2 DEF LockCandidate
  <2> QED BY <1>2, <2>1, <2>2 DEF LockCandidate
<1>3. CASE releaseLead(a, r)
  <2>1. SetStatus({r}, "queued") /\ Unlock({r}) BY <1>3 DEF releaseLead
  <2> QED BY <1>3, <2>1, TypeOfRelease DEF releaseLead
<1> QED BY <1>1, <1>2, <1>3

LEMMA TypeOfDials ==
  ASSUME DialQueueAssumption, TypeOK, NEW a \in Agents, NEW c \in Calls,
         \/ \E r \in Rows : startCall(a, c, r)
         \/ \E p \in Contacts : dialManually(a, c, p)
  PROVE  TypeOK'
<1> USE DEF DialQueueAssumption, TypeOK, deskVars, claimVars, RowStatus, Outrun, ClaimsOf
<1>1. ASSUME NEW r \in Rows, startCall(a, c, r) PROVE TypeOK'
  <2>1. NewCall(a, r, ContactOf[r]) \in CallRec BY DEF NewCall, CallRec
  <2> QED BY <1>1, <2>1 DEF startCall
<1>2. ASSUME NEW p \in Contacts, dialManually(a, c, p) PROVE TypeOK'
  <2>1. NewCall(a, None, p) \in CallRec BY DEF NewCall, CallRec
  <2> QED BY <1>2, <2>1 DEF dialManually
<1> QED BY <1>1, <1>2

LEMMA TypeOfCalls ==
  ASSUME DialQueueAssumption, TypeOK, CallsWellFormed, NEW c \in Calls,
         \/ \E technical \in BOOLEAN : CallEnds(c, technical)
         \/ RefundCall(c) \/ StartWrapUp(c)
         \/ \E outcome \in Outcomes, swept \in SUBSET Rows :
               saveOutcome(c, outcome, swept)
  PROVE  TypeOK'
<1> USE DEF TypeOK, deskVars, claimVars, Outrun, ClaimsOf
<1>0. call[c] \in CallRec OBVIOUS
<1>1. ASSUME NEW technical \in BOOLEAN, CallEnds(c, technical) PROVE TypeOK'
  <2>1. [call[c] EXCEPT !.stage = "ended", !.technical = technical] \in CallRec
    BY <1>0 DEF CallRec
  <2> QED BY <1>1, <2>1 DEF CallEnds
<1>2. CASE RefundCall(c)
  <2>1. call'[c] \in CallRec /\ call' \in [Calls -> CallRec]
    BY <1>0, <1>2 DEF RefundCall, CallRec
  <2>2. status' \in [Rows -> RowStatus] BY <1>2 DEF RefundCall, SetStatus, RowStatus
  <2>3. holder' \in [Rows -> Agents \cup {None}] /\ expired' \in [Rows -> BOOLEAN]
    BY <1>2 DEF RefundCall, Unlock
  <2>4. attempts' \in [Rows -> Int] BY <1>2 DEF RefundCall
  <2> QED BY <1>2, <2>1, <2>2, <2>3, <2>4 DEF RefundCall
<1>3. CASE StartWrapUp(c)
  BY <1>3 DEF StartWrapUp, SetStatus, RowStatus
<1>4. ASSUME NEW outcome \in Outcomes, NEW swept \in SUBSET Rows,
             saveOutcome(c, outcome, swept)
      PROVE  TypeOK'
  <2>1. call' \in [Calls -> CallRec] BY <1>0, <1>4 DEF saveOutcome, CallRec
  <2>2. RowAfter(outcome) \subseteq RowStatus /\ SweptTo(outcome) \in RowStatus
    BY DEF Outcomes, RowAfter, SweptTo, RowStatus, Closed
  <2>3. status' \in [Rows -> RowStatus] BY <1>4, <2>2 DEF saveOutcome
  <2>4. blocked' \in SUBSET Contacts
    BY <1>4 DEF saveOutcome, CallsWellFormed, Undocumented
  <2> QED BY <1>4, <2>1, <2>3, <2>4 DEF saveOutcome, Unlock
<1> QED BY <1>1, <1>2, <1>3, <1>4

LEMMA TypeOfRows ==
  ASSUME DialQueueAssumption, TypeOK, NEW r \in Rows,
         \/ LockExpires(r) \/ heartbeat(r) \/ TransferRead(r) \/ TransferWrite(r)
         \/ removeRow(r) \/ requeueRow(r)
  PROVE  TypeOK'
<1> USE DEF DialQueueAssumption, TypeOK, deskVars, claimVars, RowStatus, Closed, Command,
            NoTransfer, Outrun, ClaimsOf
<1>1. CASE LockExpires(r) BY <1>1 DEF LockExpires
<1>2. CASE heartbeat(r) BY <1>2 DEF heartbeat
<1>3. CASE TransferRead(r) BY <1>3 DEF TransferRead
<1>4. CASE TransferWrite(r)
  <2>1. PICK to \in RowStatus : SetStatus({r}, to) /\ Unlock({r})
    BY <1>4 DEF TransferWrite
  <2> QED BY <1>4, <2>1, TypeOfRelease DEF TransferWrite
<1>5. CASE removeRow(r)
  <2>1. SetStatus({r}, "removed") /\ Unlock({r}) BY <1>5 DEF removeRow
  <2> QED BY <1>5, <2>1, TypeOfRelease DEF removeRow
<1>6. CASE requeueRow(r)
  <2>1. SetStatus({r}, "queued") /\ Unlock({r}) BY <1>6 DEF requeueRow
  <2>2. attempts' \in [Rows -> Int] BY <1>6 DEF requeueRow
  <2> QED BY <1>6, <2>1, <2>2, TypeOfRelease DEF requeueRow
<1> QED BY <1>1, <1>2, <1>3, <1>4, <1>5, <1>6

LEMMA TypeOfDesk ==
  ASSUME DialQueueAssumption, TypeOK,
         \/ TransferFails
         \/ \E l \in Lists, active \in BOOLEAN : setListActive(l, active)
         \/ \E p \in Contacts : addToDnc(p) \/ PullRows(p) \/ removeFromDnc(p)
  PROVE  TypeOK'
<1> USE DEF DialQueueAssumption, TypeOK, claimVars, RowStatus, Closed, Command
<1>1. CASE TransferFails BY <1>1 DEF TransferFails, NoTransfer
<1>2. ASSUME NEW l \in Lists, NEW active \in BOOLEAN, setListActive(l, active)
      PROVE  TypeOK'
  <2>1. PICK R : SetStatus(R, "queued") /\ Unlock(R) BY <1>2 DEF setListActive
  <2> QED BY <1>2, <2>1, TypeOfRelease DEF setListActive
<1>3. ASSUME NEW p \in Contacts, addToDnc(p) PROVE TypeOK' BY <1>3 DEF addToDnc
<1>4. ASSUME NEW p \in Contacts, PullRows(p) PROVE TypeOK'
  <2>1. PICK R : SetStatus(R, "dnc") /\ Unlock(R) BY <1>4 DEF PullRows
  <2> QED BY <1>4, <2>1, TypeOfRelease DEF PullRows
<1>5. ASSUME NEW p \in Contacts, removeFromDnc(p) PROVE TypeOK'
  BY <1>5 DEF removeFromDnc
<1> QED BY <1>1, <1>2, <1>3, <1>4, <1>5

LEMMA TypeStep ==
  ASSUME DialQueueAssumption, TypeOK, CoreInv, [Next]_vars PROVE TypeOK'
<1>1. CASE UNCHANGED vars BY <1>1 DEF vars, TypeOK
<1>2. ASSUME Next PROVE TypeOK'
  BY <1>2, TypeOfClaims, TypeOfDials, TypeOfCalls, TypeOfRows, TypeOfDesk DEF Next, CoreInv
<1> QED BY <1>1, <1>2

-----------------------------------------------------------------------------
(* Custody.  First the actions in which rows leave their agents.            *)
LEMMA LeavingRow ==
  ASSUME DialQueueAssumption, TypeOK, CoreInv, TypeOK', NEW r \in Rows,
         \/ \E a \in Agents : releaseLead(a, r)
         \/ TransferWrite(r) \/ removeRow(r) \/ requeueRow(r)
  PROVE  CoreInv'
<1>1. Leaves({r})
  <2>1. PICK to \in RowStatus \ {"locked", "in_call"} : SetStatus({r}, to) /\ Unlock({r})
    BY DEF TypeOK, RowStatus, Closed, releaseLead, TransferWrite, removeRow, requeueRow
  <2> QED BY <2>1 DEF TypeOK, Leaves, SetStatus, Unlock
<1>2. UNCHANGED <<call, candidate, overtaken>> /\ outrun \subseteq outrun'
  BY DEF releaseLead, TransferWrite, removeRow, requeueRow, claimVars, Outrun
<1>3. Documents({}) BY <1>2 DEF Documents
<1> QED BY <1>1, <1>2, <1>3, LeavingKeeps

LEMMA LeavingRows ==
  ASSUME DialQueueAssumption, TypeOK, CoreInv, TypeOK',
         \/ \E l \in Lists, active \in BOOLEAN : setListActive(l, active)
         \/ \E p \in Contacts : PullRows(p)
  PROVE  CoreInv'
<1>1. ASSUME NEW R \in SUBSET Rows, NEW to \in RowStatus \ {"locked", "in_call"},
             SetStatus(R, to), Unlock(R), UNCHANGED <<call, claimVars>>
      PROVE  CoreInv'
  <2>1. Leaves(R) BY <1>1 DEF TypeOK, Leaves, SetStatus, Unlock
  <2>2. Documents({}) BY <1>1 DEF Documents
  <2> QED BY <1>1, <2>1, <2>2, LeavingKeeps DEF claimVars
<1>2. ASSUME NEW l \in Lists, NEW active \in BOOLEAN, setListActive(l, active)
      PROVE  CoreInv'
  <2> DEFINE R == {r \in Rows : ListOf[r] = l /\ status[r] = "locked" /\ ~active}
  <2>1. R \in SUBSET Rows OBVIOUS
  <2>2. SetStatus(R, "queued") /\ Unlock(R) /\ UNCHANGED <<call, claimVars>>
    BY <1>2 DEF setListActive
  <2> HIDE DEF R
  <2> QED BY <1>1, <2>1, <2>2 DEF RowStatus
<1>3. ASSUME NEW p \in Contacts, PullRows(p) PROVE CoreInv'
  <2> DEFINE R == {r \in RowsOf(p) : status[r] # "in_call"}
  <2>1. R \in SUBSET Rows BY DEF RowsOf
  <2>2. SetStatus(R, "dnc") /\ Unlock(R) /\ UNCHANGED <<call, claimVars>>
    BY <1>3 DEF PullRows
  <2> HIDE DEF R
  <2> QED BY <1>1, <2>1, <2>2 DEF RowStatus, Closed
<1> QED BY <1>2, <1>3

LEMMA LeavingCall ==
  ASSUME DialQueueAssumption, TypeOK, CoreInv, TypeOK', NEW c \in Calls,
         \/ RefundCall(c)
         \/ \E outcome \in Outcomes, swept \in SUBSET Rows :
               saveOutcome(c, outcome, swept)
  PROVE  CoreInv'
<1>1. CASE RefundCall(c)
  <2>1. Leaves(Returned(c))
    BY <1>1 DEF TypeOK, Leaves, RefundCall, SetStatus, Unlock, Returned
  <2>2. Documents({c}) BY <1>1 DEF TypeOK, Documents, RefundCall, CallRec
  <2>3. Returned(c) \in SUBSET Rows BY DEF Returned
  <2>4. \A r \in Rows : call[c].row = r /\ call[c].agent = holder[r] => r \in Returned(c)
    BY DEF Returned
  <2>5. UNCHANGED claimVars BY <1>1 DEF RefundCall
  <2> QED BY <2>1, <2>2, <2>3, <2>4, <2>5, LeavingKeeps DEF claimVars
<1>2. ASSUME NEW outcome \in Outcomes, NEW swept \in SUBSET Rows,
             saveOutcome(c, outcome, swept)
      PROVE  CoreInv'
  <2> DEFINE R == {r \in Rows : r = call[c].row \/ r \in swept}
  <2>1. PICK to \in RowAfter(outcome) :
            status' = [r \in Rows |-> IF r = call[c].row THEN to
                                      ELSE IF r \in swept THEN SweptTo(outcome)
                                      ELSE status[r]]
    BY <1>2 DEF saveOutcome
  <2>2. {to, SweptTo(outcome)} \subseteq RowStatus \ {"locked", "in_call"}
    BY DEF Outcomes, RowAfter, SweptTo, RowStatus, Closed
  <2>3. Leaves(R) BY <1>2, <2>1, <2>2 DEF TypeOK, Leaves, saveOutcome, Unlock
  <2>4. Documents({c}) BY <1>2 DEF TypeOK, Documents, saveOutcome, CallRec
  <2>5. \A r \in Rows : call[c].row = r /\ call[c].agent = holder[r] => r \in R OBVIOUS
  <2>6. UNCHANGED <<candidate, overtaken>> /\ outrun \subseteq outrun'
    BY <1>2 DEF saveOutcome, Outrun
  <2>7. R \in SUBSET Rows OBVIOUS
  <2> HIDE DEF R
  <2> QED BY <2>3, <2>4, <2>5, <2>6, <2>7, LeavingKeeps
<1> QED BY <1>1, <1>2

-----------------------------------------------------------------------------
(* A claim: the conditions its snapshot has checked outlive the snapshot,   *)
(* or the claim is marked as outrun.                                        *)
LEMMA ClaimKeeps ==
  ASSUME DialQueueAssumption, TypeOK, CoreInv, NEW a \in Agents, NEW r \in Rows,
         claimNextLead(a, r)
  PROVE  CoreInv'
<1>1. UNCHANGED <<status, holder, call, outrun, overtaken>> BY DEF claimNextLead
<1>2. ClaimsAlone'
  <2> SUFFICES ASSUME NEW b \in Agents, candidate'[b] # None
               PROVE  /\ \A q \in Rows : holder[q] # b
                      /\ \A c \in Calls : Undocumented(c) /\ call[c].row = candidate'[b] =>
                          b \in outrun /\ call[c].agent # b
    BY <1>1 DEF ClaimsAlone, Undocumented
  <2>1. CASE b = a
    <3>1. \A q \in Rows : holder[q] # a
      BY DEF CoreInv, HeldWhenLocked, claimNextLead, HeldBy, DialQueueAssumption
    <3>2. candidate'[a] = r BY DEF TypeOK, claimNextLead
    <3>3. NoUndocumentedCall(r) BY DEF claimNextLead, queueFilter
    <3> QED BY <2>1, <3>1, <3>2, <3>3 DEF NoUndocumentedCall
  <2>2. CASE b # a
    <3>1. candidate'[b] = candidate[b] BY <2>2 DEF TypeOK, claimNextLead
    <3> QED BY <3>1 DEF CoreInv, ClaimsAlone
  <2> QED BY <2>1, <2>2
<1> QED
  BY <1>1, <1>2 DEF CoreInv, HeldWhenLocked, OneRowPerAgent, CallsWellFormed,
     OneUndocumentedCall, OneDebtPerRow, TalkerIsInCall, OutcomeFindsNoStranger,
     InCallHasItsCall, Undocumented, Live

LEMMA LockKeeps ==
  ASSUME DialQueueAssumption, TypeOK, CoreInv, NEW a \in Agents, NEW r \in Rows,
         LockCandidate(a, r)
  PROVE  CoreInv'
<1> USE DEF DialQueueAssumption
<1>1. /\ UNCHANGED call /\ candidate'[a] = None
      /\ \A b \in Agents \ {a} : /\ candidate'[b] = candidate[b]
                                 /\ b \in outrun => b \in outrun'
  BY DEF TypeOK, LockCandidate
<1>2. /\ \A q \in Rows : holder[q] # a
      /\ \A c \in Calls : Undocumented(c) /\ call[c].row = r =>
          a \in outrun /\ call[c].agent # a
  BY DEF CoreInv, ClaimsAlone, LockCandidate
<1>3. CASE UNCHANGED <<status, holder, overtaken>>
  <2>1. ClaimsAlone' BY <1>1, <1>3 DEF CoreInv, ClaimsAlone, Undocumented
  <2> QED
    BY <1>1, <1>3, <2>1 DEF CoreInv, HeldWhenLocked, OneRowPerAgent, CallsWellFormed,
       OneUndocumentedCall, OneDebtPerRow, TalkerIsInCall, OutcomeFindsNoStranger,
       InCallHasItsCall, Undocumented, Live
<1>4. CASE /\ status' = [status EXCEPT ![r] = "locked"] /\ holder' = [holder EXCEPT ![r] = a]
           /\ overtaken' = IF a \in outrun THEN overtaken \cup {r} ELSE overtaken \ {r}
           /\ Claimable(r)
  <2>1. /\ status'[r] = "locked" /\ holder'[r] = a /\ status[r] # "in_call"
        /\ \A q \in Rows \ {r} : status'[q] = status[q] /\ holder'[q] = holder[q]
    BY <1>4 DEF TypeOK, Claimable
  <2>2. HeldWhenLocked' BY <2>1 DEF CoreInv, HeldWhenLocked
  <2>3. OneRowPerAgent' BY <1>2, <2>1 DEF CoreInv, OneRowPerAgent
  <2>4. ClaimsAlone' BY <1>1, <2>1 DEF CoreInv, ClaimsAlone, Undocumented
  <2>5. CallsWellFormed' /\ OneUndocumentedCall'
    BY <1>1 DEF CoreInv, CallsWellFormed, OneUndocumentedCall, Undocumented
  <2>6. \A c \in Calls : Undocumented(c) /\ call[c].row \notin {None} \cup overtaken' =>
          call[c].row \in Rows \ {r} /\ call[c].row \notin overtaken
    BY <1>2, <1>4 DEF TypeOK, CallRec
  <2>7. OneDebtPerRow' BY <1>1, <2>6 DEF CoreInv, OneDebtPerRow, Undocumented
  <2>8. OutcomeFindsNoStranger'
    BY <1>1, <2>1, <2>6 DEF CoreInv, OutcomeFindsNoStranger, Undocumented
  <2>9. TalkerIsInCall'
    <3> SUFFICES ASSUME NEW c \in Calls, Live(c), call[c].row # None,
                        holder'[call[c].row] = call[c].agent
                 PROVE  status'[call[c].row] = "in_call"
      BY <1>1 DEF TalkerIsInCall, Live
    <3>1. Undocumented(c) /\ call[c].row \in Rows
      BY DEF Live, Undocumented, TypeOK, CallRec
    <3>2. call[c].row # r BY <1>2, <2>1, <3>1
    <3> QED BY <2>1, <3>1, <3>2 DEF CoreInv, TalkerIsInCall
  <2>10. InCallHasItsCall' BY <1>1, <2>1 DEF CoreInv, InCallHasItsCall, Undocumented
  <2> QED BY <2>2, <2>3, <2>4, <2>5, <2>7, <2>8, <2>9, <2>10 DEF CoreInv
<1> QED BY <1>3, <1>4 DEF LockCandidate

(* A new call c, of an agent who owes no outcome, for a row the agent holds *)
(* or for none; the claims of that row that are in flight are outrun.       *)
LEMMA DialKeeps ==
  ASSUME DialQueueAssumption, TypeOK, CoreInv, NEW a \in Agents, NEW c \in Calls,
         \/ \E r \in Rows : startCall(a, c, r)
         \/ \E p \in Contacts : dialManually(a, c, p)
  PROVE  CoreInv'
<1> USE DEF DialQueueAssumption
<1>1. PICK row \in Rows \cup {None}, p \in Contacts :
        /\ call' = [call EXCEPT ![c] = NewCall(a, row, p)]
        /\ row # None => /\ p = ContactOf[row] /\ holder[row] = a
                         /\ status[row] = "locked" /\ ClaimsOf({row}) \subseteq outrun'
        /\ \A r \in Rows : status'[r] = IF r = row THEN "in_call" ELSE status[r]
  <2>1. ASSUME NEW r \in Rows, startCall(a, c, r)
        PROVE  /\ r \in Rows \cup {None} /\ ContactOf[r] \in Contacts
               /\ call' = [call EXCEPT ![c] = NewCall(a, r, ContactOf[r])]
               /\ holder[r] = a /\ status[r] = "locked" /\ ClaimsOf({r}) \subseteq outrun'
               /\ \A q \in Rows : status'[q] = IF q = r THEN "in_call" ELSE status[q]
    BY <2>1 DEF TypeOK, startCall, Outrun
  <2>2. ASSUME NEW p \in Contacts, dialManually(a, c, p)
        PROVE  /\ call' = [call EXCEPT ![c] = NewCall(a, None, p)]
               /\ \A q \in Rows : status'[q] = IF q = None THEN "in_call" ELSE status[q]
    BY <2>2 DEF dialManually
  <2>3. CASE \E r \in Rows : startCall(a, c, r) BY <2>1, <2>3
  <2>4. CASE \E p \in Contacts : dialManually(a, c, p) BY <2>2, <2>4
  <2> QED BY <2>3, <2>4
<1>2. /\ UNCHANGED <<holder, candidate, overtaken>> /\ outrun \subseteq outrun'
      /\ DialAllowed(a, p) /\ call[c].stage = "none"
  <2>1. /\ UNCHANGED <<holder, candidate, overtaken>> /\ outrun \subseteq outrun'
        /\ call[c].stage = "none"
    BY DEF startCall, dialManually, claimVars, Outrun
  <2>2. ASSUME NEW r \in Rows, startCall(a, c, r) PROVE DialAllowed(a, p)
    BY <1>1, <2>2 DEF startCall, NewCall, TypeOK
  <2>3. ASSUME NEW q \in Contacts, dialManually(a, c, q) PROVE DialAllowed(a, p)
    BY <1>1, <2>3 DEF dialManually, NewCall, TypeOK
  <2> QED BY <2>1, <2>2, <2>3
<1>3. /\ call'[c] = NewCall(a, row, p)
      /\ \A d \in Calls \ {c} : call'[d] = call[d]
  BY <1>1 DEF TypeOK
<1>4. /\ call'[c].agent = a /\ call'[c].row = row /\ call'[c].contact = p
      /\ Undocumented(c)' /\ ~Undocumented(c)
  BY <1>2, <1>3 DEF NewCall, Undocumented
<1>5. \A d \in Calls \ {c} : Undocumented(d)' <=> Undocumented(d)
  BY <1>3 DEF Undocumented
<1>6. HeldWhenLocked' BY <1>1, <1>2 DEF CoreInv, HeldWhenLocked
<1>7. OneRowPerAgent' BY <1>2 DEF CoreInv, OneRowPerAgent
<1>8. ClaimsAlone'
  <2> SUFFICES ASSUME NEW b \in Agents, candidate[b] # None
               PROVE  /\ \A q \in Rows : holder[q] # b
                      /\ \A d \in Calls : Undocumented(d)' /\ call'[d].row = candidate[b] =>
                          b \in outrun' /\ call'[d].agent # b
    BY <1>2 DEF ClaimsAlone
  <2>1. b # a BY <1>2 DEF DialAllowed, AgentFree
  <2>2. candidate[b] = row => b \in outrun' BY <1>1 DEF ClaimsOf
  <2>3. \A d \in Calls \ {c} : Undocumented(d) /\ call[d].row = candidate[b] =>
          b \in outrun' /\ call[d].agent # b
    BY <1>2 DEF CoreInv, ClaimsAlone
  <2> QED BY <1>3, <1>4, <1>5, <2>1, <2>2, <2>3 DEF CoreInv, ClaimsAlone
<1>9. CallsWellFormed' BY <1>1, <1>3, <1>4, <1>5 DEF CoreInv, CallsWellFormed
<1>10. OneUndocumentedCall'
  BY <1>2, <1>3, <1>4, <1>5 DEF CoreInv, OneUndocumentedCall, DialAllowed
<1>11. OutcomeFindsNoStranger'
  BY <1>1, <1>2, <1>3, <1>4, <1>5 DEF CoreInv, OutcomeFindsNoStranger
<1>12. InCallHasItsCall'
  <2> SUFFICES ASSUME NEW r \in Rows, status'[r] = "in_call"
               PROVE  \E d \in Calls : Undocumented(d)' /\ call'[d].row = r
                                        /\ call'[d].agent = holder'[r]
    BY DEF InCallHasItsCall
  <2>1. CASE r = row BY <1>1, <1>2, <1>4, <2>1
  <2>2. CASE r # row
    <3>1. PICK d \in Calls : Undocumented(d) /\ call[d].row = r /\ call[d].agent = holder[r]
      BY <1>1, <2>2 DEF CoreInv, InCallHasItsCall
    <3> QED BY <1>2, <1>3, <1>4, <1>5, <3>1
  <2> QED BY <2>1, <2>2
<1>13. OneDebtPerRow'
  <2>1. ASSUME NEW d \in Calls, d # c, Undocumented(d), call[d].row = row
        PROVE  row \in {None} \cup overtaken
    <3>1. call[d].agent # a BY <1>2, <2>1 DEF DialAllowed
    <3> QED BY <1>1, <2>1, <3>1 DEF CoreInv, OutcomeFindsNoStranger
  <2> QED BY <1>2, <1>3, <1>4, <1>5, <2>1 DEF CoreInv, OneDebtPerRow
<1>14. TalkerIsInCall'
  <2> SUFFICES ASSUME NEW d \in Calls, Live(d)', call'[d].row # None,
                      holder[call'[d].row] = call'[d].agent
               PROVE  status'[call'[d].row] = "in_call"
    BY <1>2 DEF TalkerIsInCall
  <2>1. CASE d = c BY <1>1, <1>4, <2>1
  <2>2. CASE d # c
    <3>1. call'[d] = call[d] /\ Live(d) BY <1>3, <2>2 DEF Live
    <3>2. call[d].row \in Rows BY <3>1 DEF TypeOK, CallRec
    <3> QED BY <1>1, <3>1, <3>2 DEF CoreInv, TalkerIsInCall
  <2> QED BY <2>1, <2>2
<1> QED BY <1>6, <1>7, <1>8, <1>9, <1>10, <1>11, <1>12, <1>13, <1>14 DEF CoreInv

(* A call ends, or its row waits for the wrap-up: it stays undocumented.    *)
LEMMA EndKeeps ==
  ASSUME DialQueueAssumption, TypeOK, CoreInv, NEW c \in Calls,
         (\E technical \in BOOLEAN : CallEnds(c, technical)) \/ StartWrapUp(c)
  PROVE  CoreInv'
<1>1. UNCHANGED <<holder, candidate, outrun, overtaken>>
  BY DEF CallEnds, StartWrapUp, claimVars
<1>2. \A d \in Calls : /\ Undocumented(d)' <=> Undocumented(d)
                       /\ call'[d].agent = call[d].agent /\ call'[d].row = call[d].row
                       /\ call'[d].contact = call[d].contact
  <2>1. CASE UNCHANGED call BY <2>1 DEF Undocumented
  <2>2. ASSUME NEW technical \in BOOLEAN, CallEnds(c, technical)
        PROVE  /\ call' = [call EXCEPT ![c].stage = "ended", ![c].technical = technical]
               /\ Undocumented(c)
    BY <2>2 DEF CallEnds
  <2>3. CASE \E technical \in BOOLEAN : CallEnds(c, technical)
    BY <2>2, <2>3 DEF TypeOK, CallRec, Undocumented
  <2> QED BY <2>1, <2>3 DEF StartWrapUp
<1>3. \A r \in Rows : \/ status'[r] = status[r]
                      \/ status[r] = "in_call" /\ status'[r] = "locked"
  BY DEF TypeOK, CallEnds, StartWrapUp, SetStatus
<1>4. HeldWhenLocked' BY <1>1, <1>3 DEF CoreInv, HeldWhenLocked
<1>5. OneRowPerAgent' BY <1>1 DEF CoreInv, OneRowPerAgent
<1>6. ClaimsAlone' BY <1>1, <1>2 DEF CoreInv, ClaimsAlone
<1>7. CallsWellFormed' /\ OneUndocumentedCall' /\ OneDebtPerRow'
  BY <1>1, <1>2 DEF CoreInv, CallsWellFormed, OneUndocumentedCall, OneDebtPerRow
<1>10. TalkerIsInCall'
  <2> SUFFICES ASSUME NEW d \in Calls, Live(d)', call'[d].row # None,
                      holder'[call'[d].row] = call'[d].agent
               PROVE  status'[call'[d].row] = "in_call"
    BY DEF TalkerIsInCall
  <2>1. Live(d) /\ call'[d] = call[d] /\ d # c
    <3>1. CASE StartWrapUp(c) BY <3>1 DEF StartWrapUp, Live
    <3>2. ASSUME NEW technical \in BOOLEAN, CallEnds(c, technical)
          PROVE  Live(d) /\ call'[d] = call[d] /\ d # c
      <4>0. /\ call' = [call EXCEPT ![c].stage = "ended", ![c].technical = technical]
            /\ call \in [Calls -> CallRec] /\ call[c] \in CallRec
        BY <3>2 DEF CallEnds, TypeOK
      <4>1. call'[c].stage = "ended" BY <4>0 DEF CallRec
      <4>2. d # c BY <4>1 DEF Live
      <4> QED BY <3>2, <4>2 DEF CallEnds, Live, TypeOK
    <3> QED BY <3>1, <3>2
  <2>2. status[call[d].row] = "in_call" /\ call[d].row \in Rows
    BY <1>1, <2>1 DEF CoreInv, TalkerIsInCall, TypeOK, CallRec
  <2>3. Undocumented(c) /\ Undocumented(d)
    BY <2>1 DEF CallEnds, StartWrapUp, Undocumented, Live
  <2>4. holder[call[d].row] # call[c].agent
    BY <1>1, <2>1, <2>3 DEF CoreInv, OneUndocumentedCall
  <2>5. status'[call[d].row] = status[call[d].row]
    BY <2>2, <2>4 DEF CallEnds, StartWrapUp, SetStatus, Returned
  <2> QED BY <2>1, <2>2, <2>5
<1>8. OutcomeFindsNoStranger' BY <1>1, <1>2 DEF CoreInv, OutcomeFindsNoStranger
<1>9. InCallHasItsCall' BY <1>1, <1>2, <1>3 DEF CoreInv, InCallHasItsCall
<1> QED BY <1>4, <1>5, <1>6, <1>7, <1>8, <1>9, <1>10 DEF CoreInv

LEMMA CoreStep ==
  ASSUME DialQueueAssumption, TypeOK, CoreInv, [Next]_vars PROVE CoreInv'
<1>0. TypeOK' BY TypeStep
<1>1. CASE UNCHANGED vars BY <1>1, UntouchedKeeps DEF vars, claimVars
<1>2. ASSUME NEW a \in Agents, NEW r \in Rows,
             claimNextLead(a, r) \/ LockCandidate(a, r) \/ releaseLead(a, r)
      PROVE  CoreInv'
  BY <1>0, <1>2, ClaimKeeps, LockKeeps, LeavingRow
<1>3. ASSUME NEW a \in Agents, NEW c \in Calls,
             \/ \E r \in Rows : startCall(a, c, r)
             \/ \E p \in Contacts : dialManually(a, c, p)
      PROVE  CoreInv'
  BY <1>3, DialKeeps
<1>4. ASSUME NEW c \in Calls,
             \/ \E technical \in BOOLEAN : CallEnds(c, technical)
             \/ RefundCall(c) \/ StartWrapUp(c)
             \/ \E outcome \in Outcomes, swept \in SUBSET Rows :
                   saveOutcome(c, outcome, swept)
      PROVE  CoreInv'
  BY <1>0, <1>4, LeavingCall, EndKeeps
<1>5. ASSUME NEW r \in Rows, TransferWrite(r) \/ removeRow(r) \/ requeueRow(r)
      PROVE  CoreInv'
  BY <1>0, <1>5, LeavingRow
<1>6. ASSUME NEW r \in Rows, LockExpires(r) \/ heartbeat(r) \/ TransferRead(r)
      PROVE  CoreInv'
  BY <1>6, UntouchedKeeps DEF LockExpires, heartbeat, TransferRead
<1>7. ASSUME \/ \E l \in Lists, active \in BOOLEAN : setListActive(l, active)
             \/ \E p \in Contacts : PullRows(p)
      PROVE  CoreInv'
  BY <1>0, <1>7, LeavingRows
<1>8. ASSUME TransferFails \/ \E p \in Contacts : addToDnc(p) \/ removeFromDnc(p)
      PROVE  CoreInv'
  BY <1>8, UntouchedKeeps DEF TransferFails, addToDnc, removeFromDnc
<1> QED BY <1>1, <1>2, <1>3, <1>4, <1>5, <1>6, <1>7, <1>8 DEF Next

-----------------------------------------------------------------------------
LEMMA Inductive == Spec => [](TypeOK /\ CoreInv)
<1> USE DialQueueAssumption
<1>1. Init => TypeOK /\ CoreInv BY TypeInit, CoreInit
<1>2. TypeOK /\ CoreInv /\ [Next]_vars => (TypeOK /\ CoreInv)' BY TypeStep, CoreStep
<1> QED BY <1>1, <1>2, PTL DEF Spec

(* The model's variables keep their types.                                  *)
THEOREM TypeOKHolds == Spec => []TypeOK
  BY Inductive, PTL

(* However many agents, tabs and managers there are, no agent ever holds    *)
(* two rows (claimNextLead under lockAgent).                                *)
THEOREM OneRowPerAgentHolds == Spec => []OneRowPerAgent
<1>1. CoreInv => OneRowPerAgent BY DEF CoreInv
<1> QED BY <1>1, Inductive, PTL

(* Between the start of a call and its outcome nobody else gets the row     *)
(* (queueFilter refuses rows with an undocumented call), but by a claim     *)
(* whose snapshot is older than the call or than a requeue.                 *)
THEOREM OutcomeFindsNoStrangerHolds == Spec => []OutcomeFindsNoStranger
<1>1. CoreInv => OutcomeFindsNoStranger BY DEF CoreInv
<1> QED BY <1>1, Inductive, PTL

(* No row is left in_call without a call whose outcome will take it out.    *)
THEOREM InCallHasItsCallHolds == Spec => []InCallHasItsCall
<1>1. CoreInv => InCallHasItsCall BY DEF CoreInv
<1> QED BY <1>1, Inductive, PTL

-----------------------------------------------------------------------------
(* The queue implements RowCustody.  A step changes the calls in one of     *)
(* three ways (one starts, ends or is documented) or not at all.            *)
LEMMA OwedTalking ==
  /\ \A x : x \in Owed <=> \E c \in Calls :
        Undocumented(c) /\ call[c].row # None /\ x = <<call[c].agent, call[c].row>>
  /\ \A x : x \in Talking <=> \E c \in Calls :
        Live(c) /\ x = <<call[c].agent, call[c].contact>>
  BY DEF Owed, Talking

LEMMA SameDebts == ASSUME UNCHANGED call PROVE UNCHANGED <<Owed, Talking>>
  BY DEF Owed, Talking, Undocumented, Live

LEMMA DocumentedDebts ==
  ASSUME DialQueueAssumption, TypeOK, CoreInv, NEW c \in Calls, call[c].stage = "ended",
         Documents({c})
  PROVE  /\ Talking' = Talking
         /\ call[c].row = None => Owed' = Owed
         /\ call[c].row # None => Owed' = Owed \ {<<call[c].agent, call[c].row>>}
<1>1. call'[c].stage = "saved" /\ \A d \in Calls \ {c} : call'[d] = call[d]
  BY DEF Documents
<1>2. \A d \in Calls : Live(d)' <=> Live(d)
  BY <1>1 DEF Live
<1>3. \A d \in Calls : Undocumented(d)' <=> Undocumented(d) /\ d # c
  BY <1>1 DEF Undocumented
<1>4. \A x : x \in Talking' <=> \E d \in Calls :
        Live(d)' /\ x = <<call'[d].agent, call'[d].contact>>
  BY DEF Talking
<1>5. \A x : x \in Owed' <=> \E d \in Calls :
        Undocumented(d)' /\ call'[d].row # None /\ x = <<call'[d].agent, call'[d].row>>
  BY DEF Owed
<1>6. ~Live(c) /\ Undocumented(c) BY DEF Live, Undocumented
<1>7. Talking' = Talking
  <2>1. ASSUME NEW x PROVE x \in Talking' <=> x \in Talking
    <3>1. ASSUME NEW d \in Calls, Live(d) PROVE call'[d] = call[d]
      BY <1>1, <1>6, <3>1
    <3> QED BY <1>2, <1>4, <3>1, OwedTalking
  <2> QED BY <2>1, OwedTalking, SetExtensionality
<1>8. ASSUME NEW d \in Calls, d # c, Undocumented(d) PROVE call[d].agent # call[c].agent
  BY <1>6, <1>8 DEF CoreInv, OneUndocumentedCall
<1>9. ASSUME call[c].row = None PROVE Owed' = Owed
  <2>1. \A x : x \in Owed' <=> \E d \in Calls \ {c} :
          Undocumented(d) /\ call[d].row # None /\ x = <<call[d].agent, call[d].row>>
    BY <1>1, <1>3, <1>5
  <2>2. \A x : x \in Owed' <=> x \in Owed BY <2>1, <1>9, OwedTalking
  <2> QED BY <2>2, SetExtensionality
<1>10. ASSUME call[c].row # None PROVE Owed' = Owed \ {<<call[c].agent, call[c].row>>}
  <2>1. \A x : x \in Owed' <=> \E d \in Calls \ {c} :
          Undocumented(d) /\ call[d].row # None /\ x = <<call[d].agent, call[d].row>>
    BY <1>1, <1>3, <1>5
  <2> QED BY <2>1, <1>6, <1>8, OwedTalking
<1> QED BY <1>7, <1>9, <1>10

LEMMA CustodyInit == ASSUME DialQueueAssumption, Init PROVE Custody!Init
<1>1. \A c \in Calls : call[c].stage = "none" BY DEF Init, NoCall
<1>2. Owed = {} /\ Talking = {} BY <1>1 DEF Owed, Talking, Undocumented, Live
<1> QED BY <1>2 DEF Init, Custody!Init

\* Rows leave; nobody starts, ends or documents a call.
LEMMA LeaveImplements ==
  ASSUME TypeOK, NEW R, Unlock(R), UNCHANGED <<call, candidate>> PROVE Custody!CustodyNext
<1>1. holder' = [r \in Rows |-> IF r \in R \cap Rows THEN None ELSE holder[r]]
  BY DEF Unlock
<1>2. Custody!Left(R \cap Rows) /\ UNCHANGED <<candidate, Owed, Talking>>
  BY <1>1, SameDebts DEF Custody!Left
<1> QED BY <1>2 DEF Custody!CustodyNext

LEMMA DocumentImplements ==
  ASSUME DialQueueAssumption, TypeOK, CoreInv, NEW c \in Calls, call[c].stage = "ended",
         Documents({c}), NEW R, Unlock(R), UNCHANGED candidate
  PROVE  Custody!CustodyNext
<1>1. holder' = [r \in Rows |-> IF r \in R \cap Rows THEN None ELSE holder[r]]
  BY DEF Unlock
<1>2. CASE call[c].row = None
  <2>1. Custody!Left(R \cap Rows) /\ UNCHANGED <<candidate, Owed, Talking>>
    BY <1>1, <1>2, DocumentedDebts DEF Custody!Left
  <2> QED BY <2>1 DEF Custody!CustodyNext
<1>3. CASE call[c].row # None
  <2>1. Undocumented(c) /\ ~Live(c) BY DEF Undocumented, Live
  <2>2. call[c].agent \in Agents /\ call[c].row \in Rows
    BY <1>3, <2>1 DEF CoreInv, CallsWellFormed, TypeOK, CallRec
  <2>3. <<call[c].agent, call[c].row>> \in Owed BY <1>3, <2>1, OwedTalking
  <2>4. \A d \in Calls : Live(d) => call[d].agent # call[c].agent
    BY <2>1 DEF CoreInv, OneUndocumentedCall, Undocumented, Live
  <2>5. \A p \in Contacts : <<call[c].agent, p>> \notin Talking BY <2>4, OwedTalking
  <2>6. Custody!Document(call[c].agent, call[c].row, R \cap Rows)
    BY <1>1, <1>3, <2>3, <2>5, DocumentedDebts DEF Custody!Document, Custody!Left
  <2> QED BY <2>2, <2>6 DEF Custody!CustodyNext
<1> QED BY <1>2, <1>3

LEMMA AskImplements ==
  ASSUME DialQueueAssumption, TypeOK, CoreInv, NEW a \in Agents, NEW r \in Rows,
         claimNextLead(a, r)
  PROVE  Custody!CustodyNext
<1>1. UNCHANGED <<Owed, Talking>> BY SameDebts DEF claimNextLead
<1>2. \A q \in Rows : holder[q] # a
  BY DEF CoreInv, HeldWhenLocked, claimNextLead, HeldBy, DialQueueAssumption
<1>3. \A b \in Agents : <<b, r>> \notin Owed
  BY OwedTalking DEF claimNextLead, queueFilter, NoUndocumentedCall
<1>4. Custody!Ask(a, r)
  BY <1>1, <1>2, <1>3 DEF claimNextLead, AgentFree, TypeOK, Custody!Ask, Custody!KeepsNothing
<1> QED BY <1>4 DEF Custody!CustodyNext

LEMMA LockImplements ==
  ASSUME DialQueueAssumption, TypeOK, CoreInv, NEW a \in Agents, NEW r \in Rows,
         LockCandidate(a, r)
  PROVE  Custody!CustodyNext
<1>1. UNCHANGED <<Owed, Talking>> BY SameDebts DEF LockCandidate
<1>2. (\A q \in Rows : holder[q] # a) /\ candidate[a] = r
  BY DEF CoreInv, ClaimsAlone, LockCandidate, DialQueueAssumption
<1>3. CASE Claimable(r)
  <2>1. ASSUME <<holder[r], r>> \in Owed, NEW p \in Contacts, <<holder[r], p>> \in Talking
        PROVE  FALSE
    <3>1. PICK c \in Calls : Undocumented(c) /\ call[c].row = r /\ call[c].agent = holder[r]
      BY <2>1, OwedTalking
    <3>2. PICK d \in Calls : Live(d) /\ call[d].agent = holder[r]
      BY <2>1, OwedTalking
    <3>3. d = c BY <3>1, <3>2 DEF CoreInv, OneUndocumentedCall, Undocumented, Live
    <3>4. status[r] = "in_call"
      BY <3>1, <3>2, <3>3, NoneIsNoAgent DEF CoreInv, TalkerIsInCall
    <3> QED BY <1>3, <3>4 DEF Claimable
  <2>2. Custody!Take(a, r)
    BY <1>1, <1>2, <1>3, <2>1
       DEF Custody!Take, Custody!KeepsNothing, Custody!TalksOn, LockCandidate
  <2> QED BY <2>2 DEF Custody!CustodyNext
<1>4. CASE ~Claimable(r)
  <2>1. Custody!GiveUp(a) BY <1>1, <1>4 DEF LockCandidate, Custody!GiveUp
  <2> QED BY <2>1 DEF Custody!CustodyNext
<1> QED BY <1>3, <1>4

LEMMA DialImplements ==
  ASSUME DialQueueAssumption, TypeOK, CoreInv, NEW a \in Agents, NEW c \in Calls,
         \/ \E r \in Rows : startCall(a, c, r)
         \/ \E p \in Contacts : dialManually(a, c, p)
  PROVE  Custody!CustodyNext
<1> USE DEF DialQueueAssumption
<1>1. PICK row \in Rows \cup {None}, p \in Contacts :
        /\ call' = [call EXCEPT ![c] = NewCall(a, row, p)]
        /\ row # None => p = ContactOf[row] /\ holder[row] = a
        /\ DialAllowed(a, p) /\ call[c].stage = "none" /\ UNCHANGED <<holder, candidate>>
  BY DEF TypeOK, startCall, dialManually, claimVars
<1>2. /\ call'[c] = NewCall(a, row, p) /\ \A d \in Calls \ {c} : call'[d] = call[d]
      /\ ~Undocumented(c) /\ ~Live(c) /\ Undocumented(c)' /\ Live(c)'
  BY <1>1 DEF TypeOK, NewCall, Undocumented, Live
<1>3. \A d \in Calls \ {c} : /\ Undocumented(d)' <=> Undocumented(d)
                            /\ Live(d)' <=> Live(d)
  BY <1>2 DEF Undocumented, Live
<1>4. call'[c].agent = a /\ call'[c].row = row /\ call'[c].contact = p
  BY <1>2 DEF NewCall
<1>5. Talking' = Talking \cup {<<a, p>>}
  <2>1. \A x : x \in Talking' <=> \E d \in Calls :
          Live(d)' /\ x = <<call'[d].agent, call'[d].contact>>
    BY DEF Talking
  <2>2. ASSUME NEW x PROVE x \in Talking' <=> x \in Talking \/ x = <<a, p>>
    <3>1. ASSUME x \in Talking PROVE x \in Talking'
      <4>1. PICK d \in Calls : Live(d) /\ x = <<call[d].agent, call[d].contact>>
        BY <3>1, OwedTalking
      <4>2. d # c BY <1>2, <4>1
      <4>3. call'[d] = call[d] BY <1>2, <4>2
      <4>4. Live(d)' BY <4>1, <4>3 DEF Live
      <4> QED BY <2>1, <4>1, <4>3, <4>4
    <3>2. ASSUME x = <<a, p>> PROVE x \in Talking' BY <1>2, <1>4, <2>1, <3>2
    <3>3. ASSUME x \in Talking', x # <<a, p>> PROVE x \in Talking
      <4>1. PICK d \in Calls : Live(d)' /\ x = <<call'[d].agent, call'[d].contact>>
        BY <2>1, <3>3
      <4>2. d # c BY <1>4, <3>3, <4>1
      <4>3. call'[d] = call[d] BY <1>2, <4>2
      <4>4. Live(d) BY <4>1, <4>3 DEF Live
      <4>5. x = <<call[d].agent, call[d].contact>> BY <4>1, <4>3
      <4> QED BY <4>4, <4>5, OwedTalking
    <3> QED BY <3>1, <3>2, <3>3
  <2> QED BY <2>2, SetExtensionality
<1>6. Owed' = IF row = None THEN Owed ELSE Owed \cup {<<a, row>>}
  <2>1. \A x : x \in Owed' <=> \E d \in Calls :
          Undocumented(d)' /\ call'[d].row # None /\ x = <<call'[d].agent, call'[d].row>>
    BY DEF Owed
  <2>2. ASSUME NEW x
        PROVE  x \in Owed' <=> x \in Owed \/ (row # None /\ x = <<a, row>>)
    <3>1. ASSUME x \in Owed PROVE x \in Owed'
      <4>1. PICK d \in Calls : /\ Undocumented(d) /\ call[d].row # None
                              /\ x = <<call[d].agent, call[d].row>>
        BY <3>1, OwedTalking
      <4>2. d # c BY <1>2, <4>1
      <4>3. call'[d] = call[d] BY <1>2, <4>2
      <4>4. Undocumented(d)' BY <4>1, <4>3 DEF Undocumented
      <4> QED BY <2>1, <4>1, <4>3, <4>4
    <3>2. ASSUME row # None, x = <<a, row>> PROVE x \in Owed'
      BY <1>2, <1>4, <2>1, <3>2
    <3>3. ASSUME x \in Owed', ~(row # None /\ x = <<a, row>>) PROVE x \in Owed
      <4>1. PICK d \in Calls : /\ Undocumented(d)' /\ call'[d].row # None
                              /\ x = <<call'[d].agent, call'[d].row>>
        BY <2>1, <3>3
      <4>2. d # c BY <1>4, <3>3, <4>1
      <4>3. call'[d] = call[d] BY <1>2, <4>2
      <4>4. Undocumented(d) BY <4>1, <4>3 DEF Undocumented
      <4>5. call[d].row # None /\ x = <<call[d].agent, call[d].row>> BY <4>1, <4>3
      <4> QED BY <4>4, <4>5, OwedTalking
    <3> QED BY <3>1, <3>2, <3>3
  <2>3. CASE row = None BY <2>2, <2>3, SetExtensionality
  <2>4. CASE row # None BY <2>2, <2>4, SetExtensionality
  <2> QED BY <2>3, <2>4
<1>7. /\ \A d \in Calls : Undocumented(d) => call[d].agent # a
      /\ \A d \in Calls : Live(d) => call[d].agent # a /\ call[d].contact # p
  BY <1>1 DEF DialAllowed, Undocumented, Live
<1>8. Custody!Idle(a, p) BY <1>1, <1>7, OwedTalking DEF Custody!Idle, DialAllowed, AgentFree
<1>9. CASE row = None
  <2>1. Custody!DialManually(a, p) BY <1>1, <1>5, <1>6, <1>8, <1>9 DEF Custody!DialManually
  <2> QED BY <2>1 DEF Custody!CustodyNext
<1>10. CASE row # None
  <2>1. Custody!Dial(a, row) BY <1>1, <1>5, <1>6, <1>8, <1>10 DEF Custody!Dial
  <2> QED BY <1>10, <2>1 DEF Custody!CustodyNext
<1> QED BY <1>9, <1>10

LEMMA HangUpImplements ==
  ASSUME DialQueueAssumption, TypeOK, CoreInv, NEW c \in Calls, NEW technical \in BOOLEAN,
         CallEnds(c, technical)
  PROVE  Custody!CustodyNext \/ UNCHANGED Custody!vars
<1>1. /\ call'[c].stage = "ended" /\ call'[c].agent = call[c].agent
      /\ call'[c].row = call[c].row /\ call'[c].contact = call[c].contact
      /\ \A d \in Calls \ {c} : call'[d] = call[d]
  BY DEF TypeOK, CallRec, CallEnds
<1>2. ~Live(c)' /\ Undocumented(c) /\ Undocumented(c)'
  BY <1>1 DEF CallEnds, Live, Undocumented
<1>3. \A d \in Calls \ {c} : /\ Undocumented(d)' <=> Undocumented(d)
                            /\ Live(d)' <=> Live(d)
  BY <1>1 DEF Undocumented, Live
<1>4. \A d \in Calls : Live(d) => d = c \/ call[d].agent # call[c].agent
  BY <1>2 DEF CoreInv, OneUndocumentedCall, Undocumented, Live
<1>5. Talking' = Talking \ {<<call[c].agent, call[c].contact>>}
  <2>1. \A x : x \in Talking' <=> \E d \in Calls :
          Live(d)' /\ x = <<call'[d].agent, call'[d].contact>>
    BY DEF Talking
  <2>2. ASSUME NEW x
        PROVE  x \in Talking' <=> x \in Talking /\ x # <<call[c].agent, call[c].contact>>
    <3>1. ASSUME x \in Talking, x # <<call[c].agent, call[c].contact>> PROVE x \in Talking'
      <4>1. PICK d \in Calls : Live(d) /\ x = <<call[d].agent, call[d].contact>>
        BY <3>1, OwedTalking
      <4>2. d # c BY <3>1, <4>1
      <4> QED BY <1>1, <1>3, <2>1, <4>1, <4>2
    <3>2. ASSUME x \in Talking'
          PROVE  x \in Talking /\ x # <<call[c].agent, call[c].contact>>
      <4>1. PICK d \in Calls : Live(d)' /\ x = <<call'[d].agent, call'[d].contact>>
        BY <2>1, <3>2
      <4>2. d # c BY <1>2, <4>1
      <4>3. call'[d] = call[d] BY <1>1, <4>2
      <4>4. Live(d) BY <4>1, <4>3 DEF Live
      <4>5. x = <<call[d].agent, call[d].contact>> BY <4>1, <4>3
      <4> QED BY <1>4, <4>2, <4>4, <4>5, OwedTalking
    <3> QED BY <3>1, <3>2
  <2> QED BY <2>2, SetExtensionality
<1>6. Owed' = Owed
  <2>1. \A x : x \in Owed' <=> \E d \in Calls :
          Undocumented(d)' /\ call'[d].row # None /\ x = <<call'[d].agent, call'[d].row>>
    BY DEF Owed
  <2>2. \A d \in Calls : /\ Undocumented(d)' <=> Undocumented(d)
                         /\ call'[d].agent = call[d].agent /\ call'[d].row = call[d].row
    <3> SUFFICES ASSUME NEW d \in Calls
                 PROVE  /\ Undocumented(d)' <=> Undocumented(d)
                        /\ call'[d].agent = call[d].agent /\ call'[d].row = call[d].row
      OBVIOUS
    <3>1. CASE d = c BY <1>1, <1>2, <3>1
    <3>2. CASE d # c
      <4>1. call'[d] = call[d] BY <1>1, <3>2
      <4>2. Undocumented(d)' <=> Undocumented(d) BY <4>1 DEF Undocumented
      <4> QED BY <4>1, <4>2
    <3> QED BY <3>1, <3>2
  <2>3. \A x : x \in Owed' <=> x \in Owed BY <2>1, <2>2, OwedTalking
  <2> QED BY <2>3, SetExtensionality
<1>7. CASE Live(c)
  <2>1. <<call[c].agent, call[c].contact>> \in Talking BY <1>7, OwedTalking
  <2>2. Custody!HangUp(call[c].agent, call[c].contact)
    BY <1>5, <1>6, <2>1 DEF Custody!HangUp, CallEnds, claimVars
  <2> QED BY <1>2, <2>2 DEF Custody!CustodyNext, CoreInv, CallsWellFormed
<1>8. CASE ~Live(c)
  <2>1. <<call[c].agent, call[c].contact>> \notin Talking BY <1>4, <1>8, OwedTalking
  <2>2. Talking' = Talking BY <1>5, <2>1
  <2> QED BY <1>6, <2>2 DEF Custody!vars, CallEnds, claimVars
<1> QED BY <1>7, <1>8

LEMMA CustodyStep ==
  ASSUME DialQueueAssumption, TypeOK, CoreInv, [Next]_vars
  PROVE  Custody!CustodyNext \/ UNCHANGED Custody!vars
<1>1. ASSUME UNCHANGED <<holder, call, candidate>> PROVE UNCHANGED Custody!vars
  BY <1>1, SameDebts DEF Custody!vars
<1>2. CASE UNCHANGED vars BY <1>1, <1>2 DEF vars
<1>3. ASSUME NEW a \in Agents, NEW r \in Rows,
             claimNextLead(a, r) \/ LockCandidate(a, r) \/ releaseLead(a, r)
      PROVE  Custody!CustodyNext \/ UNCHANGED Custody!vars
  <2>1. CASE claimNextLead(a, r) BY <2>1, AskImplements
  <2>2. CASE LockCandidate(a, r) BY <2>2, LockImplements
  <2>3. CASE releaseLead(a, r) BY <2>3, LeaveImplements DEF releaseLead, claimVars
  <2> QED BY <1>3, <2>1, <2>2, <2>3
<1>4. ASSUME NEW a \in Agents, NEW c \in Calls,
             \/ \E r \in Rows : startCall(a, c, r)
             \/ \E p \in Contacts : dialManually(a, c, p)
      PROVE  Custody!CustodyNext
  BY <1>4, DialImplements
<1>5. ASSUME NEW c \in Calls, NEW technical \in BOOLEAN, CallEnds(c, technical)
      PROVE  Custody!CustodyNext \/ UNCHANGED Custody!vars
  BY <1>5, HangUpImplements
<1>6. ASSUME NEW c \in Calls, RefundCall(c) PROVE Custody!CustodyNext
  <2>1. Documents({c}) BY <1>6 DEF TypeOK, Documents, RefundCall, CallRec
  <2> QED BY <1>6, <2>1, DocumentImplements DEF RefundCall, claimVars
<1>7. ASSUME NEW c \in Calls, StartWrapUp(c) PROVE UNCHANGED Custody!vars
  BY <1>1, <1>7 DEF StartWrapUp, claimVars
<1>8. ASSUME NEW c \in Calls, NEW outcome \in Outcomes, NEW swept \in SUBSET Rows,
             saveOutcome(c, outcome, swept)
      PROVE  Custody!CustodyNext
  <2>1. Documents({c}) BY <1>8 DEF TypeOK, Documents, saveOutcome, CallRec
  <2> QED BY <1>8, <2>1, DocumentImplements DEF saveOutcome
<1>9. ASSUME NEW r \in Rows, TransferWrite(r) \/ removeRow(r) \/ requeueRow(r)
      PROVE  Custody!CustodyNext
  BY <1>9, LeaveImplements DEF TransferWrite, removeRow, requeueRow, claimVars
<1>10. ASSUME NEW r \in Rows, LockExpires(r) \/ heartbeat(r) \/ TransferRead(r)
       PROVE  UNCHANGED Custody!vars
  BY <1>1, <1>10 DEF LockExpires, heartbeat, TransferRead, claimVars
<1>11. ASSUME \/ \E l \in Lists, active \in BOOLEAN : setListActive(l, active)
              \/ \E p \in Contacts : PullRows(p)
       PROVE  Custody!CustodyNext
  BY <1>11, LeaveImplements DEF setListActive, PullRows, claimVars
<1>12. ASSUME TransferFails \/ \E p \in Contacts : addToDnc(p) \/ removeFromDnc(p)
       PROVE  UNCHANGED Custody!vars
  BY <1>1, <1>12 DEF TransferFails, addToDnc, removeFromDnc, claimVars
<1> QED BY <1>2, <1>3, <1>4, <1>5, <1>6, <1>7, <1>8, <1>9, <1>10, <1>11, <1>12 DEF Next

(* The queue keeps the custody promise: every step of it is a step of the   *)
(* promise or changes nothing the promise is about.                         *)
THEOREM KeepsCustodyHolds == Spec => KeepsCustody
<1> USE DialQueueAssumption
<1>1. Init => Custody!Init BY CustodyInit
<1>2. TypeOK /\ CoreInv /\ [Next]_vars => [Custody!CustodyNext]_(Custody!vars)
  BY CustodyStep
<1> QED BY <1>1, <1>2, Inductive, PTL DEF Spec, KeepsCustody, Custody!CustodySpec

-----------------------------------------------------------------------------
(* The attempt counter.  A refund takes an attempt off a row only while the *)
(* caller holds the row, and whoever left a row does not get it again       *)
(* before the call is documented: so no reset of the counter can have come  *)
(* between the attempt and its refund.                                      *)
Counted(r) == {c \in Calls : call[c].row = r /\ call[c].counted}

RefundsAreBacked ==
    \A c \in Calls : Undocumented(c) /\ call[c].row # None =>
        /\ call[c].counted
        /\ holder[call[c].row] = call[c].agent => attempts[call[c].row] >= 1

CountInv ==
    /\ \A c \in Calls : call[c].stage = "none" => call[c] = NoCall
    /\ RefundsAreBacked
    /\ \A r \in Rows : attempts[r] >= 0 /\ attempts[r] <= Cardinality(Counted(r))

LEMMA CountedFinite ==
  ASSUME DialQueueAssumption
  PROVE  \A r \in Rows : IsFiniteSet(Counted(r)) /\ Cardinality(Counted(r)) \in Nat
<1>1. ASSUME NEW r \in Rows PROVE IsFiniteSet(Counted(r))
  BY FS_Subset DEF DialQueueAssumption, Counted
<1> QED BY <1>1, FS_CardinalityType

LEMMA CountInit == ASSUME DialQueueAssumption, Init PROVE CountInv
<1>1. \A c \in Calls : call[c] = NoCall BY DEF Init
<1>2. \A r \in Rows : attempts[r] = 0 BY DEF Init
<1>3. RefundsAreBacked BY <1>1 DEF RefundsAreBacked, Undocumented, NoCall
<1>4. \A r \in Rows : Cardinality(Counted(r)) >= 0 BY CountedFinite
<1> QED BY <1>1, <1>2, <1>3, <1>4 DEF CountInv

(* Steps that leave the calls' rows and agents alone, document some calls,  *)
(* raise or keep or reset counters nobody will refund, and give no row to   *)
(* anybody who owes its outcome.                                            *)
LEMMA CountKept ==
  ASSUME DialQueueAssumption, TypeOK, CountInv, TypeOK',
         \A c \in Calls : /\ call'[c].row = call[c].row /\ call'[c].agent = call[c].agent
                          /\ call'[c].counted = call[c].counted
                          /\ call'[c].stage = "none" => call'[c] = NoCall
                          /\ Undocumented(c)' => Undocumented(c),
         \A r \in Rows : attempts'[r] \in {0, attempts[r]},
         \A c \in Calls : \A r \in Rows :
            Undocumented(c) /\ call[c].row = r /\ holder'[r] = call[c].agent
                => holder[r] = call[c].agent /\ attempts'[r] = attempts[r]
  PROVE  CountInv'
<1>1. \A r \in Rows : Counted(r)' = Counted(r) BY DEF Counted
<1>2. RefundsAreBacked'
  <2> SUFFICES ASSUME NEW c \in Calls, Undocumented(c)', call'[c].row # None
               PROVE  /\ call'[c].counted
                      /\ holder'[call'[c].row] = call'[c].agent => attempts'[call'[c].row] >= 1
    BY DEF RefundsAreBacked
  <2>1. Undocumented(c) /\ call[c].row # None /\ call[c].row \in Rows
    BY DEF TypeOK, CallRec
  <2>2. /\ call[c].counted
        /\ holder[call[c].row] = call[c].agent => attempts[call[c].row] >= 1
    BY <2>1 DEF CountInv, RefundsAreBacked
  <2> QED BY <2>1, <2>2
<1>3. \A r \in Rows : attempts'[r] >= 0 /\ attempts'[r] <= Cardinality(Counted(r))'
  <2> SUFFICES ASSUME NEW r \in Rows
               PROVE  attempts'[r] >= 0 /\ attempts'[r] <= Cardinality(Counted(r)')
    OBVIOUS
  <2>1. attempts[r] >= 0 /\ attempts[r] <= Cardinality(Counted(r)) BY DEF CountInv
  <2>2. Cardinality(Counted(r)) \in Nat BY CountedFinite
  <2>3. attempts[r] \in Int BY DEF TypeOK
  <2> QED BY <1>1, <2>1, <2>2, <2>3
<1> QED BY <1>2, <1>3 DEF CountInv

LEMMA CountStep ==
  ASSUME DialQueueAssumption, TypeOK, CoreInv, CountInv, [Next]_vars, TypeOK', CoreInv'
  PROVE  CountInv'
<1> USE DEF DialQueueAssumption
<1>0. /\ \A c \in Calls : call[c].stage = "none" => call[c] = NoCall
      /\ None \notin Agents
  BY DEF CountInv
<1>1. ASSUME UNCHANGED <<call, attempts, holder>> PROVE CountInv'
  BY <1>0, <1>1, CountKept DEF Undocumented
<1>2. ASSUME NEW R, Unlock(R), UNCHANGED call,
             \A r \in Rows : attempts'[r] = attempts[r] \/ (r \in R /\ attempts'[r] = 0)
      PROVE  CountInv'
  <2>1. \A c \in Calls : \A r \in Rows :
          Undocumented(c) /\ call[c].row = r /\ holder'[r] = call[c].agent
            => holder[r] = call[c].agent /\ attempts'[r] = attempts[r]
    BY <1>0, <1>2 DEF TypeOK, Unlock, CoreInv, CallsWellFormed
  <2>2. \A r \in Rows : attempts'[r] \in {0, attempts[r]} BY <1>2
  <2>3. \A c \in Calls : Undocumented(c)' <=> Undocumented(c) BY <1>2 DEF Undocumented
  <2> QED BY <1>0, <1>2, <2>1, <2>2, <2>3, CountKept
<1>3. ASSUME NEW a \in Agents, NEW r \in Rows, LockCandidate(a, r) PROVE CountInv'
  <2>1. /\ UNCHANGED <<call, attempts>>
        /\ \A c \in Calls : Undocumented(c) /\ call[c].row = r => call[c].agent # a
    BY <1>3 DEF LockCandidate, CoreInv, ClaimsAlone
  <2>2. \A q \in Rows : holder'[q] = holder[q] \/ (q = r /\ holder'[q] = a)
    BY <1>3 DEF TypeOK, LockCandidate
  <2>3. \A c \in Calls : \A q \in Rows :
          Undocumented(c) /\ call[c].row = q /\ holder'[q] = call[c].agent
            => holder[q] = call[c].agent /\ attempts'[q] = attempts[q]
    BY <2>1, <2>2
  <2>4. \A c \in Calls : Undocumented(c)' <=> Undocumented(c) BY <2>1 DEF Undocumented
  <2> QED BY <1>0, <2>1, <2>3, <2>4, CountKept
<1>4. ASSUME NEW a \in Agents, NEW c \in Calls, NEW r \in Rows, startCall(a, c, r)
      PROVE  CountInv'
  <2>1. /\ call'[c] = NewCall(a, r, ContactOf[r]) /\ call[c] = NoCall
        /\ \A d \in Calls \ {c} : call'[d] = call[d]
    BY <1>0, <1>4 DEF TypeOK, startCall
  <2>2. /\ call'[c].row = r /\ call'[c].agent = a /\ call'[c].counted
        /\ call'[c].stage = "live" /\ call[c].row = None
    <3>1. r # None OBVIOUS
    <3>2. NewCall(a, r, ContactOf[r]).counted BY <3>1 DEF NewCall
    <3>3. call'[c].counted BY <2>1, <3>2
    <3> QED BY <2>1, <3>3 DEF NewCall, NoCall
  <2>3. /\ UNCHANGED holder /\ attempts'[r] = attempts[r] + 1
        /\ \A q \in Rows \ {r} : attempts'[q] = attempts[q]
    BY <1>4 DEF TypeOK, startCall
  <2>4. Counted(r)' = Counted(r) \cup {c} /\ c \notin Counted(r)
    BY <2>1, <2>2 DEF Counted
  <2>5. \A q \in Rows \ {r} : Counted(q)' = Counted(q) BY <2>1, <2>2 DEF Counted
  <2>6. Cardinality(Counted(r)') = Cardinality(Counted(r)) + 1
    BY <2>4, CountedFinite, FS_AddElement
  <2>7. \A q \in Rows : attempts'[q] >= 0 /\ attempts'[q] <= Cardinality(Counted(q))'
    <3> SUFFICES ASSUME NEW q \in Rows
                 PROVE  attempts'[q] >= 0 /\ attempts'[q] <= Cardinality(Counted(q)')
      OBVIOUS
    <3>1. /\ attempts[q] \in Int /\ Cardinality(Counted(q)) \in Nat
          /\ attempts[q] >= 0 /\ attempts[q] <= Cardinality(Counted(q))
      BY CountedFinite DEF CountInv, TypeOK
    <3>2. CASE q = r BY <2>3, <2>6, <3>1, <3>2
    <3>3. CASE q # r BY <2>3, <2>5, <3>1, <3>3
    <3> QED BY <3>2, <3>3
  <2>8. RefundsAreBacked'
    <3> SUFFICES ASSUME NEW d \in Calls, Undocumented(d)', call'[d].row # None
                 PROVE  /\ call'[d].counted
                        /\ holder'[call'[d].row] = call'[d].agent
                              => attempts'[call'[d].row] >= 1
      BY DEF RefundsAreBacked
    <3>1. attempts'[r] >= 1 BY <2>3 DEF CountInv, TypeOK
    <3>2. CASE d = c BY <2>2, <3>1, <3>2
    <3>3. CASE d # c
      <4>1. call'[d] = call[d] BY <2>1, <3>3
      <4>2. Undocumented(d) BY <4>1 DEF Undocumented
      <4>3. call[d].row \in Rows BY <4>1 DEF TypeOK, CallRec
      <4>4. /\ call[d].counted
            /\ holder[call[d].row] = call[d].agent => attempts[call[d].row] >= 1
        BY <4>1, <4>2 DEF CountInv, RefundsAreBacked
      <4> QED BY <2>3, <3>1, <4>1, <4>3, <4>4
    <3> QED BY <3>2, <3>3
  <2>9. \A d \in Calls : call'[d].stage = "none" => call'[d] = NoCall
    BY <1>0, <2>1, <2>2
  <2> QED BY <2>7, <2>8, <2>9 DEF CountInv
<1>5. ASSUME NEW a \in Agents, NEW c \in Calls, NEW p \in Contacts, dialManually(a, c, p)
      PROVE  CountInv'
  <2>1. /\ call'[c] = NewCall(a, None, p) /\ call[c] = NoCall
        /\ \A d \in Calls \ {c} : call'[d] = call[d]
    BY <1>0, <1>5 DEF TypeOK, dialManually
  <2>2. call'[c].row = None /\ call[c].row = None /\ call'[c].stage = "live"
    BY <2>1 DEF NewCall, NoCall
  <2>3. UNCHANGED <<holder, attempts>> BY <1>5 DEF dialManually
  <2>4. \A q \in Rows : Counted(q)' = Counted(q) BY <2>1, <2>2 DEF Counted
  <2>5. RefundsAreBacked'
    <3> SUFFICES ASSUME NEW d \in Calls, Undocumented(d)', call'[d].row # None
                 PROVE  /\ call'[d].counted
                        /\ holder'[call'[d].row] = call'[d].agent
                              => attempts'[call'[d].row] >= 1
      BY DEF RefundsAreBacked
    <3>1. call'[d] = call[d] BY <2>1, <2>2
    <3>2. Undocumented(d) BY <3>1 DEF Undocumented
    <3> QED BY <2>3, <3>1, <3>2 DEF CountInv, RefundsAreBacked
  <2>6. \A q \in Rows : attempts'[q] >= 0 /\ attempts'[q] <= Cardinality(Counted(q))'
    BY <2>3, <2>4 DEF CountInv
  <2>7. \A d \in Calls : call'[d].stage = "none" => call'[d] = NoCall
    BY <1>0, <2>1, <2>2
  <2> QED BY <2>5, <2>6, <2>7 DEF CountInv
<1>6. ASSUME NEW c \in Calls, NEW technical \in BOOLEAN, CallEnds(c, technical)
      PROVE  CountInv'
  <2>1. /\ call'[c].stage = "ended" /\ call'[c].agent = call[c].agent
        /\ call'[c].row = call[c].row /\ call'[c].counted = call[c].counted
        /\ \A d \in Calls \ {c} : call'[d] = call[d]
    BY <1>6 DEF TypeOK, CallRec, CallEnds
  <2>2. Undocumented(c) /\ UNCHANGED <<holder, attempts>>
    BY <1>6 DEF CallEnds, Live, Undocumented
  <2>3. \A d \in Calls : Undocumented(d)' => Undocumented(d)
    BY <2>1, <2>2 DEF Undocumented
  <2>4. \A d \in Calls : call'[d].stage = "none" => call'[d] = NoCall BY <1>0, <2>1
  <2>5. \A d \in Calls : /\ call'[d].row = call[d].row /\ call'[d].agent = call[d].agent
                         /\ call'[d].counted = call[d].counted
    BY <2>1
  <2> QED BY <2>2, <2>3, <2>4, <2>5, CountKept
<1>7. ASSUME NEW c \in Calls, RefundCall(c) PROVE CountInv'
  <2>1. /\ call'[c].stage = "saved" /\ call'[c].agent = call[c].agent
        /\ call'[c].row = call[c].row
        /\ call'[c].counted = (call[c].counted /\ Returned(c) = {})
        /\ \A d \in Calls \ {c} : call'[d] = call[d]
    BY <1>7 DEF TypeOK, CallRec, RefundCall
  <2>2. Undocumented(c) BY <1>7 DEF RefundCall, Undocumented
  <2>3. \A d \in Calls : call'[d].stage = "none" => call'[d] = NoCall BY <1>0, <2>1
  <2>4. \A d \in Calls : Undocumented(d)' => Undocumented(d) /\ d # c
    BY <2>1 DEF Undocumented
  <2>5. \A r \in Rows : /\ holder'[r] = IF r \in Returned(c) THEN None ELSE holder[r]
                        /\ attempts'[r] = IF r \in Returned(c) THEN attempts[r] - 1
                                          ELSE attempts[r]
    BY <1>7 DEF RefundCall, Unlock
  <2>6. CASE Returned(c) = {}
    <3>1. \A d \in Calls : /\ call'[d].row = call[d].row /\ call'[d].agent = call[d].agent
                           /\ call'[d].counted = call[d].counted
      <4> SUFFICES ASSUME NEW d \in Calls
                   PROVE /\ call'[d].row = call[d].row /\ call'[d].agent = call[d].agent
                         /\ call'[d].counted = call[d].counted
        OBVIOUS
      <4>1. CASE d = c
        <5>1. call[c].counted \in BOOLEAN BY DEF TypeOK, CallRec
        <5> QED BY <2>1, <2>6, <4>1, <5>1
      <4>2. CASE d # c BY <2>1, <4>2
      <4> QED BY <4>1, <4>2
    <3>2. \A r \in Rows : holder'[r] = holder[r] /\ attempts'[r] = attempts[r]
      BY <2>5, <2>6
    <3> QED BY <2>3, <2>4, <3>1, <3>2, CountKept
  <2>7. CASE Returned(c) # {}
    <3>1. PICK r \in Rows : r = call[c].row /\ holder[r] = call[c].agent
      BY <2>7 DEF Returned
    <3>2. Returned(c) = {r} BY <3>1 DEF Returned
    <3>3. call[c].counted /\ attempts[r] >= 1
      <4>1. call[c].counted \in BOOLEAN BY DEF TypeOK, CallRec
      <4> QED BY <2>2, <3>1, <4>1 DEF CountInv, RefundsAreBacked
    <3>4. Counted(r)' = Counted(r) \ {c} /\ c \in Counted(r)
      <4>1. ~call'[c].counted BY <2>1, <2>7
      <4>2. c \in Counted(r) BY <3>1, <3>3 DEF Counted
      <4>3. \A d \in Calls \ {c} : d \in Counted(r)' <=> d \in Counted(r)
        BY <2>1 DEF Counted
      <4>4. c \notin Counted(r)' BY <4>1 DEF Counted
      <4>5. Counted(r) \subseteq Calls /\ Counted(r)' \subseteq Calls BY DEF Counted
      <4> QED BY <4>2, <4>3, <4>4, <4>5
    <3>5. \A q \in Rows \ {r} : Counted(q)' = Counted(q)
      BY <2>1, <3>1 DEF Counted
    <3>6. Cardinality(Counted(r)') = Cardinality(Counted(r)) - 1
      BY <3>4, CountedFinite, FS_RemoveElement
    <3>7. \A q \in Rows : attempts'[q] >= 0 /\ attempts'[q] <= Cardinality(Counted(q))'
      <4> SUFFICES ASSUME NEW q \in Rows
                   PROVE  attempts'[q] >= 0 /\ attempts'[q] <= Cardinality(Counted(q)')
        OBVIOUS
      <4>1. /\ attempts[q] \in Int /\ Cardinality(Counted(q)) \in Nat
            /\ attempts[q] >= 0 /\ attempts[q] <= Cardinality(Counted(q))
        BY CountedFinite DEF CountInv, TypeOK
      <4>2. CASE q = r
        <5>1. attempts'[q] = attempts[q] - 1 BY <2>5, <3>2, <4>2
        <5> QED BY <3>3, <3>6, <4>1, <4>2, <5>1
      <4>3. CASE q # r
        <5>1. attempts'[q] = attempts[q] BY <2>5, <3>2, <4>3
        <5> QED BY <3>5, <4>1, <4>3, <5>1
      <4> QED BY <4>2, <4>3
    <3>8. RefundsAreBacked'
      <4> SUFFICES ASSUME NEW d \in Calls, Undocumented(d)', call'[d].row # None
                   PROVE  /\ call'[d].counted
                          /\ holder'[call'[d].row] = call'[d].agent
                                => attempts'[call'[d].row] >= 1
        BY DEF RefundsAreBacked
      <4>1. Undocumented(d) /\ call'[d] = call[d] BY <2>1, <2>4
      <4>2. call[d].row \in Rows BY <4>1 DEF TypeOK, CallRec
      <4>3. call[d].agent \in Agents BY <4>1 DEF CoreInv, CallsWellFormed
      <4>4. /\ call[d].counted
            /\ holder[call[d].row] = call[d].agent => attempts[call[d].row] >= 1
        BY <4>1 DEF CountInv, RefundsAreBacked
      <4>5. CASE call[d].row = r BY <1>0, <2>5, <3>2, <4>1, <4>2, <4>3, <4>4, <4>5
      <4>6. CASE call[d].row # r BY <2>5, <3>2, <4>1, <4>2, <4>4, <4>6
      <4> QED BY <4>5, <4>6
    <3> QED BY <2>3, <3>7, <3>8 DEF CountInv
  <2> QED BY <2>6, <2>7
<1>8. ASSUME NEW c \in Calls, NEW outcome \in Outcomes, NEW swept \in SUBSET Rows,
             saveOutcome(c, outcome, swept)
      PROVE  CountInv'
  <2>1. /\ call'[c].stage = "saved" /\ call'[c].agent = call[c].agent
        /\ call'[c].row = call[c].row /\ call'[c].counted = call[c].counted
        /\ \A d \in Calls \ {c} : call'[d] = call[d]
    BY <1>8 DEF TypeOK, CallRec, saveOutcome
  <2>2. \A d \in Calls : Undocumented(d)' => Undocumented(d)
    BY <2>1 DEF Undocumented
  <2>3. \A d \in Calls : call'[d].stage = "none" => call'[d] = NoCall BY <1>0, <2>1
  <2>4. \A d \in Calls : /\ call'[d].row = call[d].row /\ call'[d].agent = call[d].agent
                         /\ call'[d].counted = call[d].counted
    BY <2>1
  <2>5. UNCHANGED attempts /\ \A r \in Rows : holder'[r] \in {None, holder[r]}
    BY <1>8 DEF saveOutcome, Unlock
  <2>6. \A d \in Calls : \A q \in Rows :
          Undocumented(d) /\ call[d].row = q /\ holder'[q] = call[d].agent
            => holder[q] = call[d].agent /\ attempts'[q] = attempts[q]
    BY <1>0, <2>5 DEF CoreInv, CallsWellFormed
  <2> QED BY <2>2, <2>3, <2>4, <2>5, <2>6, CountKept
<1>9. ASSUME \/ \E a \in Agents, r \in Rows : releaseLead(a, r)
             \/ \E r \in Rows : TransferWrite(r) \/ removeRow(r) \/ requeueRow(r)
             \/ \E l \in Lists, active \in BOOLEAN : setListActive(l, active)
             \/ \E p \in Contacts : PullRows(p)
      PROVE  CountInv'
  <2>1. PICK R : /\ Unlock(R) /\ UNCHANGED call
                 /\ \A r \in Rows : attempts'[r] = attempts[r] \/ (r \in R /\ attempts'[r] = 0)
    <3>1. ASSUME NEW r \in Rows, requeueRow(r)
          PROVE  /\ Unlock({r}) /\ UNCHANGED call
                 /\ \A q \in Rows : attempts'[q] = attempts[q] \/ (q \in {r} /\ attempts'[q] = 0)
      BY <3>1 DEF TypeOK, requeueRow
    <3>2. CASE \E r \in Rows : requeueRow(r) BY <3>1, <3>2
    <3>3. CASE \E r \in Rows : \/ \E a \in Agents : releaseLead(a, r)
                             \/ TransferWrite(r) \/ removeRow(r)
      BY <3>3 DEF releaseLead, TransferWrite, removeRow
    <3>4. CASE \/ \E l \in Lists, active \in BOOLEAN : setListActive(l, active)
               \/ \E p \in Contacts : PullRows(p)
      BY <3>4 DEF setListActive, PullRows
    <3> QED BY <1>9, <3>2, <3>3, <3>4
  <2> QED BY <1>2, <2>1
<1>10. ASSUME \/ UNCHANGED vars
              \/ \E a \in Agents, r \in Rows : claimNextLead(a, r)
              \/ \E c \in Calls : StartWrapUp(c)
              \/ \E r \in Rows : LockExpires(r) \/ heartbeat(r) \/ TransferRead(r)
              \/ TransferFails
              \/ \E p \in Contacts : addToDnc(p) \/ removeFromDnc(p)
       PROVE  CountInv'
  BY <1>1, <1>10 DEF vars, claimNextLead, StartWrapUp, LockExpires, heartbeat, TransferRead,
     TransferFails, addToDnc, removeFromDnc
<1> QED
  BY <1>3, <1>4, <1>5, <1>6, <1>7, <1>8, <1>9, <1>10 DEF Next

(* No attempt is refunded twice, or from a counter reset after the attempt  *)
(* (afterCallFinalized refunds only to the agent who still holds the row).  *)
THEOREM AttemptsAreCallsHolds == Spec => []AttemptsAreCalls
<1> USE DialQueueAssumption
<1>1. Init => CountInv BY CountInit
<1>2. TypeOK /\ CoreInv /\ CountInv /\ [Next]_vars /\ TypeOK' /\ CoreInv' => CountInv'
  BY CountStep
<1>3. TypeOK /\ CountInv => AttemptsAreCalls
  <2> SUFFICES ASSUME TypeOK, CountInv, NEW r \in Rows
               PROVE  attempts[r] \in 0..Cardinality(Counted(r))
    BY DEF AttemptsAreCalls, Counted
  <2>1. attempts[r] \in Int BY DEF TypeOK
  <2>2. attempts[r] >= 0 /\ attempts[r] <= Cardinality(Counted(r)) BY DEF CountInv
  <2>3. Cardinality(Counted(r)) \in Nat BY CountedFinite
  <2> QED BY <2>1, <2>2, <2>3
<1> QED BY <1>1, <1>2, <1>3, Inductive, PTL DEF Spec
-----------------------------------------------------------------------------
(* A live call and its row.  What a step may do to it: calls end, and a row *)
(* whose call stays live is left alone.                                     *)
LEMMA LiveRowsKept ==
  ASSUME DialQueueAssumption, TypeOK, LiveCallKeepsRow, overwritten \subseteq overwritten',
         UNCHANGED overtaken,
         \A c \in Calls : Live(c)' => Live(c) /\ call'[c].row = call[c].row
                                              /\ call'[c].agent = call[c].agent,
         \A c \in Calls, r \in Rows :
            Live(c)' /\ Live(c) /\ call[c].row = r /\ status[r] = "in_call"
                     /\ holder[r] = call[c].agent /\ r \notin overtaken =>
                r \in overwritten' \/ (status'[r] = "in_call" /\ holder'[r] = holder[r])
  PROVE  LiveCallKeepsRow'
<1> SUFFICES ASSUME NEW c \in Calls, Live(c)',
                    call'[c].row \notin {None} \cup overwritten' \cup overtaken
             PROVE  /\ status'[call'[c].row] = "in_call"
                    /\ holder'[call'[c].row] = call'[c].agent
  BY DEF LiveCallKeepsRow
<1>1. Live(c) /\ call'[c].row = call[c].row /\ call'[c].agent = call[c].agent OBVIOUS
<1>2. call[c].row \in Rows BY <1>1 DEF TypeOK, CallRec
<1>3. status[call[c].row] = "in_call" /\ holder[call[c].row] = call[c].agent
  BY <1>1, <1>2 DEF LiveCallKeepsRow
<1> QED BY <1>1, <1>2, <1>3

\* The calls that are being refunded, wrapped up or documented are not live,
\* and the row they write is not a live call's.
LEMMA EndedCallsRow ==
  ASSUME DialQueueAssumption, TypeOK, CoreInv, NEW c \in Calls, call[c].stage = "ended",
         NEW d \in Calls, Live(d),
         NEW r \in Rows \ overtaken, call[d].row = r, holder[r] = call[d].agent
  PROVE  call[c].row # r /\ holder[r] # call[c].agent
<1>1. c # d /\ Undocumented(c) /\ Undocumented(d) BY DEF Live, Undocumented
<1>2. call[c].agent # call[d].agent BY <1>1 DEF CoreInv, OneUndocumentedCall
<1>3. holder[r] # call[c].agent BY <1>2
<1>4. call[c].row # r
  BY <1>1, NoneIsNoAgent DEF CoreInv, OneDebtPerRow
<1> QED BY <1>3, <1>4

LEMMA LiveStep ==
  ASSUME DialQueueAssumption, TypeOK, CoreInv, LiveCallKeepsRow, [Next]_vars
  PROVE  LiveCallKeepsRow'
<1> USE DEF DialQueueAssumption
<1>1. ASSUME UNCHANGED <<call, overwritten, overtaken>>,
             \A r \in Rows : status[r] = "in_call" => status'[r] = "in_call" /\ holder'[r] = holder[r]
      PROVE  LiveCallKeepsRow'
  BY <1>1, LiveRowsKept DEF Live
<1>2. CASE UNCHANGED vars BY <1>1, <1>2 DEF vars
<1>3. ASSUME NEW a \in Agents, NEW r \in Rows,
             claimNextLead(a, r) \/ LockCandidate(a, r) \/ releaseLead(a, r)
      PROVE  LiveCallKeepsRow'
  <2>1. CASE claimNextLead(a, r) \/ releaseLead(a, r)
    BY <1>1, <2>1 DEF TypeOK, deskVars, claimVars, claimNextLead, releaseLead, SetStatus,
       Unlock
  <2>2. CASE LockCandidate(a, r) /\ ~Claimable(r)
    BY <1>1, <2>2 DEF deskVars, LockCandidate
  <2>3. CASE LockCandidate(a, r) /\ Claimable(r)
    <3>1. /\ status[r] # "in_call" /\ UNCHANGED <<call, overwritten>>
          /\ overtaken' = IF a \in outrun THEN overtaken \cup {r} ELSE overtaken \ {r}
          /\ \A q \in Rows \ {r} : status'[q] = status[q] /\ holder'[q] = holder[q]
      BY <2>3 DEF LockCandidate, Claimable, deskVars, TypeOK
    <3>2. \A c \in Calls : Undocumented(c) /\ call[c].row = r => a \in outrun
      BY <2>3, NoneIsNoAgent DEF LockCandidate, CoreInv, ClaimsAlone
    <3> SUFFICES ASSUME NEW c \in Calls, Live(c),
                        call[c].row \notin {None} \cup overwritten \cup overtaken'
                 PROVE  status'[call[c].row] = "in_call" /\ holder'[call[c].row] = call[c].agent
      BY <3>1 DEF LiveCallKeepsRow, Live
    <3>3. call[c].row \in Rows /\ Undocumented(c)
      BY DEF TypeOK, CallRec, Live, Undocumented
    <3>4. call[c].row # r BY <3>1, <3>2, <3>3
    <3> QED BY <3>1, <3>3, <3>4 DEF LiveCallKeepsRow
  <2> QED BY <1>3, <2>1, <2>2, <2>3
<1>4. ASSUME NEW a \in Agents, NEW c \in Calls, NEW r \in Rows, startCall(a, c, r)
      PROVE  LiveCallKeepsRow'
  <2>1. call' = [call EXCEPT ![c] = NewCall(a, r, ContactOf[r])] /\ call[c].stage = "none"
    BY <1>4 DEF startCall
  <2>2. /\ status' = [status EXCEPT ![r] = "in_call"] /\ holder[r] = a
        /\ UNCHANGED <<holder, overwritten, overtaken>>
    BY <1>4 DEF startCall, deskVars
  <2>3. call'[c].row = r /\ call'[c].agent = a BY <2>1 DEF TypeOK, NewCall
  <2>4. \A d \in Calls \ {c} : call'[d] = call[d] BY <2>1 DEF TypeOK
  <2> QED BY <2>2, <2>3, <2>4 DEF LiveCallKeepsRow, Live, TypeOK, CallRec
<1>5. ASSUME NEW a \in Agents, NEW c \in Calls, NEW p \in Contacts, dialManually(a, c, p)
      PROVE  LiveCallKeepsRow'
  <2>1. call' = [call EXCEPT ![c] = NewCall(a, None, p)] /\ call[c].stage = "none"
    BY <1>5 DEF dialManually
  <2>2. UNCHANGED <<status, holder, overwritten, overtaken>>
    BY <1>5 DEF dialManually, deskVars, claimVars
  <2>3. call'[c].row = None BY <2>1 DEF TypeOK, NewCall
  <2>4. \A d \in Calls \ {c} : call'[d] = call[d] BY <2>1 DEF TypeOK
  <2> QED BY <2>2, <2>3, <2>4 DEF LiveCallKeepsRow, Live
<1>6. ASSUME NEW c \in Calls, NEW technical \in BOOLEAN, CallEnds(c, technical)
      PROVE  LiveCallKeepsRow'
  <2>1. call' = [call EXCEPT ![c].stage = "ended", ![c].technical = technical]
    BY <1>6 DEF CallEnds
  <2>2. \A d \in Calls : Live(d)' => call'[d] = call[d] BY <2>1 DEF Live, TypeOK, CallRec
  <2> QED BY <1>6, <2>2, LiveRowsKept DEF CallEnds, deskVars, claimVars, Live
<1>7. ASSUME NEW c \in Calls, RefundCall(c) PROVE LiveCallKeepsRow'
  <2>1. \A d \in Calls : Live(d)' => call'[d] = call[d]
    BY <1>7 DEF RefundCall, Live, TypeOK, CallRec
  <2>2. \A r \in Rows : holder[r] # call[c].agent =>
            status'[r] = status[r] /\ holder'[r] = holder[r]
    BY <1>7 DEF RefundCall, Returned, SetStatus, Unlock, TypeOK
  <2>3. call[c].stage = "ended" /\ UNCHANGED <<overwritten, overtaken>>
    BY <1>7 DEF RefundCall, deskVars, claimVars
  <2> QED BY <2>1, <2>2, <2>3, EndedCallsRow, LiveRowsKept DEF Live
<1>8. ASSUME NEW c \in Calls, StartWrapUp(c) PROVE LiveCallKeepsRow'
  <2>1. UNCHANGED <<call, holder, overwritten, overtaken>> /\ call[c].stage = "ended"
    BY <1>8 DEF StartWrapUp, deskVars, claimVars
  <2>2. \A r \in Rows : holder[r] # call[c].agent => status'[r] = status[r]
    BY <1>8 DEF StartWrapUp, Returned, SetStatus, TypeOK
  <2> QED BY <2>1, <2>2, EndedCallsRow, LiveRowsKept DEF Live
<1>9. ASSUME NEW c \in Calls, NEW outcome \in Outcomes, NEW swept \in SUBSET Rows,
             saveOutcome(c, outcome, swept)
      PROVE  LiveCallKeepsRow'
  <2>1. call' = [call EXCEPT ![c].stage = "saved"] /\ call[c].stage = "ended"
        /\ UNCHANGED <<overwritten, overtaken>>
    BY <1>9 DEF saveOutcome
  <2>2. \A d \in Calls : Live(d)' => call'[d] = call[d] BY <2>1 DEF Live, TypeOK, CallRec
  <2>3. \A r \in swept : status[r] # "in_call"
    BY <1>9 DEF saveOutcome, Sweepable, SweptFrom, Outcomes
  <2>4. \A r \in Rows : r # call[c].row /\ r \notin swept =>
            status'[r] = status[r] /\ holder'[r] = holder[r]
    BY <1>9 DEF saveOutcome, Unlock, TypeOK
  <2> QED BY <2>1, <2>2, <2>3, <2>4, EndedCallsRow, LiveRowsKept DEF Live
<1>10. ASSUME NEW r \in Rows, TransferWrite(r) PROVE LiveCallKeepsRow'
  <2>1. UNCHANGED <<call, overtaken>> /\ overwritten \subseteq overwritten'
    BY <1>10 DEF TransferWrite, claimVars
  <2>2. status[r] = "in_call" => r \in overwritten' BY <1>10 DEF TransferWrite, TypeOK
  <2>3. \A q \in Rows \ {r} : status'[q] = status[q] /\ holder'[q] = holder[q]
    BY <1>10 DEF TransferWrite, SetStatus, Unlock, TypeOK
  <2> QED BY <2>1, <2>2, <2>3, LiveRowsKept DEF Live
<1>11. ASSUME NEW R, NEW to, SetStatus(R, to), Unlock(R), UNCHANGED <<call, overwritten, overtaken>>,
              \A r \in R : status[r] # "in_call"
       PROVE  LiveCallKeepsRow'
  BY <1>1, <1>11 DEF TypeOK, SetStatus, Unlock
<1>12. ASSUME NEW r \in Rows, LockExpires(r) \/ heartbeat(r) \/ TransferRead(r)
       PROVE  LiveCallKeepsRow'
  BY <1>1, <1>12 DEF deskVars, claimVars, LockExpires, heartbeat, TransferRead
<1>13. ASSUME NEW r \in Rows, removeRow(r) \/ requeueRow(r) PROVE LiveCallKeepsRow'
  <2>1. PICK to : SetStatus({r}, to) /\ Unlock({r}) BY <1>13 DEF removeRow, requeueRow
  <2> QED BY <1>11, <1>13, <2>1 DEF removeRow, requeueRow, claimVars
<1>14. ASSUME NEW l \in Lists, NEW active \in BOOLEAN, setListActive(l, active)
       PROVE  LiveCallKeepsRow'
  BY <1>11, <1>14 DEF setListActive, claimVars
<1>15. ASSUME NEW p \in Contacts, PullRows(p) PROVE LiveCallKeepsRow'
  BY <1>11, <1>15 DEF PullRows, claimVars
<1>16. ASSUME TransferFails \/ \E p \in Contacts : addToDnc(p) \/ removeFromDnc(p)
       PROVE  LiveCallKeepsRow'
  BY <1>1, <1>16 DEF TransferFails, addToDnc, removeFromDnc, claimVars
<1> QED
  BY <1>2, <1>3, <1>4, <1>5, <1>6, <1>7, <1>8, <1>9, <1>10, <1>12, <1>13, <1>14, <1>15, <1>16
     DEF Next

(* A dialed row stays with its live call, unless a transfer has written     *)
(* over what it had not read, or the row was taken by a claim that was      *)
(* outrun (the conditions of every other write).                            *)
THEOREM LiveCallKeepsRowHolds == Spec => []LiveCallKeepsRow
<1> USE DialQueueAssumption
<1>1. Init => LiveCallKeepsRow BY DEF Init, LiveCallKeepsRow, Live, NoCall
<1>2. TypeOK /\ CoreInv /\ LiveCallKeepsRow /\ [Next]_vars => LiveCallKeepsRow' BY LiveStep
<1> QED BY <1>1, <1>2, Inductive, PTL DEF Spec

-----------------------------------------------------------------------------
(* Blocked people.  A claim in flight is no way around the block: by the    *)
(* time the rows are pulled out, the row it has selected is not on offer,   *)
(* or the claim has been outrun.                                            *)
Barred(r) == ContactOf[r] \in blocked \ blocking

FreshClaim(r) == \E a \in Agents \ outrun : candidate[a] = r

BlockedCandidates ==
    \A r \in Rows \ overwritten :
        Barred(r) /\ FreshClaim(r) => status[r] \notin {"queued", "locked"}

BlockedInv == BlockedIsNotWorked /\ BlockedCandidates

\* What most steps do: nobody is barred anew, nobody new holds a row or is
\* about to, calls are documented only with their row given back, and no
\* row becomes available while it is being claimed.
LEMMA BlockedKept ==
  ASSUME DialQueueAssumption, TypeOK, BlockedInv, overwritten \subseteq overwritten',
         blocked' \ blocking' \subseteq blocked \ blocking,
         \A r \in Rows : FreshClaim(r)' => FreshClaim(r),
         \A r \in Rows \ overwritten' :
            /\ holder'[r] # None =>
                (r \notin overtaken /\ holder[r] # None) \/ r \in overtaken' \/ ~Barred(r)
            /\ status'[r] \in {"queued", "locked"} =>
                status[r] \in {"queued", "locked"} \/ ~FreshClaim(r)',
         \A c \in Calls : Undocumented(c) /\ call[c].row # None =>
            \/ Undocumented(c)' /\ call'[c].row = call[c].row
            \/ holder'[call[c].row] = None
            \/ call[c].row \in overtaken'
  PROVE  BlockedInv'
<1>1. BlockedIsNotWorked'
  <2> SUFFICES ASSUME NEW r \in Rows \ (overwritten' \cup overtaken'),
                      ContactOf[r] \in blocked' \ blocking', holder'[r] # None
               PROVE  \E c \in Calls : Undocumented(c)' /\ call'[c].row = r
    BY DEF BlockedIsNotWorked
  <2>1. Barred(r) BY DEF Barred
  <2>2. PICK c \in Calls : Undocumented(c) /\ call[c].row = r
    BY <2>1 DEF BlockedInv, BlockedIsNotWorked, Barred
  <2>3. r # None BY NoneIsNoAgent
  <2> QED BY <2>2, <2>3
<1>2. BlockedCandidates'
  <2> SUFFICES ASSUME NEW r \in Rows \ overwritten', Barred(r)', FreshClaim(r)',
                      status'[r] \in {"queued", "locked"}
               PROVE  FALSE
    BY DEF BlockedCandidates
  <2>1. Barred(r) BY DEF Barred
  <2>2. FreshClaim(r) OBVIOUS
  <2> QED BY <2>1, <2>2 DEF BlockedInv, BlockedCandidates
<1> QED BY <1>1, <1>2 DEF BlockedInv

\* No claim becomes fresh by being outrun.
LEMMA FreshKept ==
  ASSUME UNCHANGED candidate, outrun \subseteq outrun', NEW r, FreshClaim(r)'
  PROVE  FreshClaim(r)
  BY DEF FreshClaim

LEMMA OwedIsNotFresh ==
  ASSUME DialQueueAssumption, CoreInv, NEW c \in Calls, Undocumented(c),
         call[c].row # None
  PROVE  ~FreshClaim(call[c].row)
  BY DEF CoreInv, ClaimsAlone, FreshClaim

LEMMA OutrunIsNotFresh ==
  ASSUME NEW R, Outrun(R), UNCHANGED candidate, NEW r \in R
  PROVE  ~FreshClaim(r)'
  BY DEF Outrun, ClaimsOf, FreshClaim

\* Rows R get a status no claim is interested in, or one they could be
\* claimed with before, or their claims are outrun; nothing is documented.
LEMMA BlockedReleases ==
  ASSUME DialQueueAssumption, TypeOK, BlockedInv, NEW R, NEW to, SetStatus(R, to), Unlock(R),
         UNCHANGED <<call, blocked, blocking, candidate, overtaken>>, outrun \subseteq outrun',
         overwritten \subseteq overwritten',
         \A r \in (R \cap Rows) \ overwritten' :
            to \in {"queued", "locked"} =>
                status[r] \in {"queued", "locked"} \/ ~FreshClaim(r)'
  PROVE  BlockedInv'
<1>1. \A r \in Rows : holder'[r] # None => holder[r] # None BY DEF Unlock, TypeOK
<1>2. \A r \in Rows \ overwritten' : status'[r] \in {"queued", "locked"} =>
          status[r] \in {"queued", "locked"} \/ ~FreshClaim(r)'
  BY DEF SetStatus, TypeOK
<1>3. \A r \in Rows : FreshClaim(r)' => FreshClaim(r) BY FreshKept
<1> QED BY <1>1, <1>2, <1>3, BlockedKept DEF Undocumented

LEMMA BlockedByClaims ==
  ASSUME DialQueueAssumption, TypeOK, CoreInv, BlockedInv, NEW a \in Agents, NEW r \in Rows,
         claimNextLead(a, r) \/ LockCandidate(a, r) \/ releaseLead(a, r)
  PROVE  BlockedInv'
<1>1. CASE claimNextLead(a, r)
  <2>1. /\ candidate' = [candidate EXCEPT ![a] = r] /\ ContactOf[r] \notin blocked
        /\ UNCHANGED <<status, holder, call, blocked, blocking, overwritten, outrun, overtaken>>
    BY <1>1 DEF claimNextLead, queueFilter, deskVars
  <2>2. BlockedIsNotWorked' BY <2>1 DEF BlockedInv, BlockedIsNotWorked, Undocumented
  <2>3. \A q \in Rows : FreshClaim(q)' => FreshClaim(q) \/ q = r
    BY <2>1 DEF FreshClaim, TypeOK
  <2>4. BlockedCandidates' BY <2>1, <2>3 DEF BlockedInv, BlockedCandidates, Barred
  <2> QED BY <2>2, <2>4 DEF BlockedInv
<1>2. CASE LockCandidate(a, r)
  <2>1. /\ UNCHANGED <<call, blocked, blocking, overwritten>>
        /\ a \notin outrun => FreshClaim(r)
    BY <1>2 DEF LockCandidate, deskVars, FreshClaim
  <2>2. \A q \in Rows : FreshClaim(q)' => FreshClaim(q)
    BY <1>2, NoneIsNoAgent DEF LockCandidate, FreshClaim, TypeOK
  <2>3. \A q \in Rows \ {r} : /\ holder'[q] = holder[q] /\ status'[q] = status[q]
                              /\ q \in overtaken' <=> q \in overtaken
    BY <1>2 DEF LockCandidate, TypeOK
  <2>4. \/ /\ Claimable(r) /\ status[r] \in {"queued", "locked"}
           /\ r \in overtaken' <=> a \in outrun
        \/ holder'[r] = holder[r] /\ status'[r] = status[r] /\ overtaken' = overtaken
    BY <1>2 DEF LockCandidate, Claimable
  <2>5. r \notin overwritten =>
            \/ holder'[r] = holder[r] /\ overtaken' = overtaken
            \/ r \in overtaken' \/ ~Barred(r)
    BY <2>1, <2>4 DEF BlockedInv, BlockedCandidates
  <2>6. \A q \in Rows \ overwritten' :
            /\ holder'[q] # None =>
                (q \notin overtaken /\ holder[q] # None) \/ q \in overtaken' \/ ~Barred(q)
            /\ status'[q] \in {"queued", "locked"} =>
                status[q] \in {"queued", "locked"} \/ ~FreshClaim(q)'
    BY <2>1, <2>3, <2>4, <2>5
  <2> QED BY <2>1, <2>2, <2>6, BlockedKept DEF Undocumented
<1>3. CASE releaseLead(a, r)
  BY <1>3, BlockedReleases DEF releaseLead, deskVars, claimVars
<1> QED BY <1>1, <1>2, <1>3

LEMMA BlockedByCalls ==
  ASSUME DialQueueAssumption, TypeOK, CoreInv, BlockedInv, NEW c \in Calls,
         \/ \E a \in Agents, r \in Rows : startCall(a, c, r)
         \/ \E a \in Agents, p \in Contacts : dialManually(a, c, p)
         \/ \E technical \in BOOLEAN : CallEnds(c, technical)
         \/ RefundCall(c) \/ StartWrapUp(c)
  PROVE  BlockedInv'
<1>0. /\ UNCHANGED <<candidate, blocked, blocking, overwritten, overtaken>>
      /\ outrun \subseteq outrun'
  BY DEF startCall, dialManually, CallEnds, RefundCall, StartWrapUp, deskVars, claimVars, Outrun
<1>1. ASSUME \A r \in Rows : holder'[r] # None => holder[r] # None,
             \A r \in Rows : status'[r] \in {"queued", "locked"} =>
                status[r] \in {"queued", "locked"} \/ ~FreshClaim(r),
             \A d \in Calls : Undocumented(d) /\ call[d].row # None =>
                \/ Undocumented(d)' /\ call'[d].row = call[d].row
                \/ holder'[call[d].row] = None
                \/ call[d].row \in overtaken
      PROVE  BlockedInv'
  <2>1. \A r \in Rows : FreshClaim(r)' => FreshClaim(r) BY <1>0, FreshKept
  <2> QED BY <1>0, <1>1, <2>1, BlockedKept
<1>2. ASSUME NEW a \in Agents, NEW r \in Rows, startCall(a, c, r) PROVE BlockedInv'
  <2>1. /\ call' = [call EXCEPT ![c] = NewCall(a, r, ContactOf[r])] /\ call[c].stage = "none"
        /\ status' = [status EXCEPT ![r] = "in_call"] /\ UNCHANGED holder
    BY <1>2 DEF startCall
  <2>2. \A d \in Calls : Undocumented(d) => call'[d] = call[d]
    BY <2>1 DEF Undocumented, TypeOK
  <2>3. \A q \in Rows : status'[q] \in {"queued", "locked"} => status'[q] = status[q]
    BY <2>1 DEF TypeOK
  <2> QED BY <1>1, <2>1, <2>2, <2>3 DEF Undocumented
<1>3. ASSUME NEW a \in Agents, NEW p \in Contacts, dialManually(a, c, p) PROVE BlockedInv'
  <2>1. /\ call' = [call EXCEPT ![c] = NewCall(a, None, p)] /\ call[c].stage = "none"
        /\ UNCHANGED <<status, holder>>
    BY <1>3 DEF dialManually
  <2>2. \A d \in Calls : Undocumented(d) => call'[d] = call[d]
    BY <2>1 DEF Undocumented, TypeOK
  <2> QED BY <1>1, <2>1, <2>2 DEF Undocumented
<1>4. ASSUME NEW technical \in BOOLEAN, CallEnds(c, technical) PROVE BlockedInv'
  <2>1. call' = [call EXCEPT ![c] = [@ EXCEPT !.stage = "ended", !.technical = technical]]
    BY <1>4 DEF CallEnds
  <2>2. call'[c].stage = "ended" /\ call'[c].row = call[c].row
    BY <2>1 DEF TypeOK, CallRec
  <2>3. \A d \in Calls \ {c} : call'[d] = call[d] BY <2>1 DEF TypeOK
  <2>4. \A d \in Calls : Undocumented(d) => Undocumented(d)' /\ call'[d].row = call[d].row
    BY <2>2, <2>3 DEF Undocumented
  <2> QED BY <1>1, <1>4, <2>4 DEF CallEnds
<1>5. CASE RefundCall(c)
  <2>1. Undocumented(c) BY <1>5 DEF RefundCall, Undocumented
  <2>2. \A d \in Calls \ {c} : call'[d] = call[d] BY <1>5 DEF RefundCall, TypeOK
  <2>3. \A r \in Rows : \/ r \in Returned(c) /\ holder'[r] = None
                        \/ r \notin Returned(c) /\ holder'[r] = holder[r] /\ status'[r] = status[r]
    BY <1>5 DEF RefundCall, SetStatus, Unlock, TypeOK
  <2>4. call[c].row # None => call[c].row \in overtaken \/ holder'[call[c].row] = None
    <3> SUFFICES ASSUME call[c].row # None, call[c].row \notin overtaken
                 PROVE  holder'[call[c].row] = None
      OBVIOUS
    <3>1. call[c].row \in Rows BY DEF TypeOK, CallRec
    <3>2. holder[call[c].row] \in {None, call[c].agent}
      BY <2>1 DEF CoreInv, OutcomeFindsNoStranger
    <3> QED BY <2>3, <3>1, <3>2 DEF Returned
  <2>5. \A r \in Returned(c) : ~FreshClaim(r)
    BY <2>1, OwedIsNotFresh, NoneIsNoAgent DEF Returned
  <2> QED BY <1>1, <2>2, <2>3, <2>4, <2>5 DEF Undocumented
<1>6. CASE StartWrapUp(c)
  <2>1. Undocumented(c) BY <1>6 DEF StartWrapUp, Undocumented
  <2>2. UNCHANGED <<call, holder>> BY <1>6 DEF StartWrapUp
  <2>3. \A r \in Rows : status'[r] # status[r] => r = call[c].row
    BY <1>6 DEF StartWrapUp, SetStatus, Returned, TypeOK
  <2>4. \A r \in Rows : r = call[c].row => ~FreshClaim(r)
    BY <2>1, OwedIsNotFresh, NoneIsNoAgent
  <2>5. \A r \in Rows : status'[r] \in {"queued", "locked"} =>
            status[r] \in {"queued", "locked"} \/ ~FreshClaim(r)
    BY <2>3, <2>4
  <2>6. \A d \in Calls : Undocumented(d)' = Undocumented(d) BY <2>2 DEF Undocumented
  <2> QED BY <1>1, <2>2, <2>5, <2>6
<1> QED BY <1>2, <1>3, <1>4, <1>5, <1>6

LEMMA BlockedByOutcome ==
  ASSUME DialQueueAssumption, TypeOK, CoreInv, BlockedInv, NEW c \in Calls,
         NEW outcome \in Outcomes, NEW swept \in SUBSET Rows, saveOutcome(c, outcome, swept)
  PROVE  BlockedInv'
<1>1. /\ UNCHANGED <<blocking, candidate, overwritten, overtaken>> /\ Undocumented(c)
      /\ \A d \in Calls \ {c} : call'[d] = call[d]
  BY DEF saveOutcome, Undocumented, TypeOK
<1>0. \A r \in Rows : FreshClaim(r)' => FreshClaim(r)
  BY FreshKept DEF saveOutcome, Outrun
<1>2. \A r \in Rows : holder'[r] = IF r = call[c].row \/ r \in swept THEN None ELSE holder[r]
  BY DEF saveOutcome, Unlock
<1>3. call[c].row # None => call[c].row \in Rows BY DEF TypeOK, CallRec
<1>4. PICK to \in RowAfter(outcome) :
          \A r \in Rows : status'[r] = IF r = call[c].row THEN to
                                       ELSE IF r \in swept THEN SweptTo(outcome)
                                       ELSE status[r]
  BY DEF saveOutcome
<1>5. \A r \in Rows : status'[r] \in {"queued", "locked"} =>
          status[r] \in {"queued", "locked"} \/ ~FreshClaim(r)'
  <2> SUFFICES ASSUME NEW r \in Rows, status'[r] \in {"queued", "locked"}
               PROVE  status[r] \in {"queued", "locked"} \/ ~FreshClaim(r)'
    OBVIOUS
  <2>1. CASE r = call[c].row BY <1>0, <1>1, <2>1, OwedIsNotFresh, NoneIsNoAgent
  <2>2. CASE r # call[c].row /\ r \in swept
    <3>1. SweptTo(outcome) \in {"queued", "locked"} BY <1>4, <2>2
    <3>2. outcome \in {"callback", "retry"} BY <3>1 DEF SweptTo, Outcomes
    <3>3. outcome # "retry" BY <2>2 DEF saveOutcome, Sweepable, SweptFrom, Outcomes
    <3>4. r \in {q \in swept : outcome = "callback"} BY <2>2, <3>2, <3>3
    <3> QED BY <1>1, <3>4, OutrunIsNotFresh DEF saveOutcome
  <2>3. CASE r # call[c].row /\ r \notin swept BY <1>4, <2>3
  <2> QED BY <2>1, <2>2, <2>3
<1>6. \A d \in Calls : Undocumented(d) /\ call[d].row # None =>
          \/ Undocumented(d)' /\ call'[d].row = call[d].row
          \/ holder'[call[d].row] = None
  BY <1>1, <1>2, <1>3 DEF Undocumented
<1>7. CASE outcome # "dnc"
  BY <1>0, <1>1, <1>2, <1>5, <1>6, <1>7, BlockedKept DEF saveOutcome
<1>8. CASE outcome = "dnc"
  <2> DEFINE p == call[c].contact
  <2>1. blocked' = blocked \cup {p} /\ swept = Sweepable(c, outcome)
    BY <1>8 DEF saveOutcome
  <2>2. \A r \in RowsOf(p) : \/ r = call[c].row \/ r \in swept
                             \/ status[r] = "in_call"
    BY <1>8, <2>1 DEF Sweepable, SweptFrom, TypeOK, RowsOf
  <2>3. \A r \in Rows : Barred(r)' => Barred(r) \/ r \in RowsOf(p)
    BY <1>1, <2>1 DEF Barred, RowsOf
  <2>4. ASSUME NEW r \in RowsOf(p), holder'[r] # None
        PROVE  \E d \in Calls : Undocumented(d)' /\ call'[d].row = r
    <3>1. r \in Rows /\ status[r] = "in_call" /\ r # call[c].row
      BY <1>2, <2>2, <2>4 DEF RowsOf
    <3>2. PICK d \in Calls : Undocumented(d) /\ call[d].row = r
      BY <3>1 DEF CoreInv, InCallHasItsCall
    <3> QED BY <1>1, <3>1, <3>2 DEF Undocumented
  <2>5. ASSUME NEW r \in RowsOf(p) PROVE status'[r] \notin {"queued", "locked"}
    <3>1. to = "dnc" /\ SweptTo(outcome) = "dnc" BY <1>8 DEF RowAfter, SweptTo, Outcomes
    <3>2. r \in Rows BY DEF RowsOf
    <3> QED BY <1>4, <2>2, <3>1, <3>2
  <2>6. BlockedIsNotWorked'
    <3> SUFFICES ASSUME NEW r \in Rows \ (overwritten' \cup overtaken'), Barred(r)',
                        holder'[r] # None
                 PROVE  \E d \in Calls : Undocumented(d)' /\ call'[d].row = r
      BY DEF BlockedIsNotWorked, Barred
    <3>1. CASE r \in RowsOf(p) BY <2>4, <3>1
    <3>2. CASE r \notin RowsOf(p)
      <4>1. Barred(r) /\ holder[r] # None /\ r # None BY <1>2, <2>3, <3>2, NoneIsNoAgent
      <4>2. PICK d \in Calls : Undocumented(d) /\ call[d].row = r
        BY <1>1, <4>1 DEF BlockedInv, BlockedIsNotWorked, Barred
      <4> QED BY <1>6, <4>1, <4>2
    <3> QED BY <3>1, <3>2
  <2>7. BlockedCandidates'
    <3> SUFFICES ASSUME NEW r \in Rows \ overwritten', Barred(r)', FreshClaim(r)',
                        status'[r] \in {"queued", "locked"}
                 PROVE  FALSE
      BY DEF BlockedCandidates
    <3>1. r \notin RowsOf(p) BY <2>5
    <3>2. Barred(r) /\ FreshClaim(r) BY <1>0, <2>3, <3>1
    <3> QED BY <1>1, <1>5, <3>2 DEF BlockedInv, BlockedCandidates
  <2> QED BY <2>6, <2>7 DEF BlockedInv
<1> QED BY <1>7, <1>8

LEMMA BlockedByPull ==
  ASSUME DialQueueAssumption, TypeOK, CoreInv, BlockedInv, NEW p \in Contacts, PullRows(p)
  PROVE  BlockedInv'
<1>1. /\ UNCHANGED <<call, blocked, candidate, outrun, overtaken, overwritten>>
      /\ blocking' = blocking \ {p}
  BY DEF PullRows, claimVars
<1>2. \A r \in Rows : \/ /\ r \in RowsOf(p) /\ status[r] # "in_call"
                         /\ status'[r] = "dnc" /\ holder'[r] = None
                      \/ /\ r \in RowsOf(p) => status[r] = "in_call"
                         /\ status'[r] = status[r] /\ holder'[r] = holder[r]
  BY DEF PullRows, SetStatus, Unlock, TypeOK
<1>3. \A r \in Rows : Barred(r)' => Barred(r) \/ r \in RowsOf(p)
  BY <1>1 DEF Barred, RowsOf
<1>4. BlockedIsNotWorked'
  <2> SUFFICES ASSUME NEW r \in Rows \ (overwritten \cup overtaken), Barred(r)',
                      holder'[r] # None
               PROVE  \E d \in Calls : Undocumented(d) /\ call[d].row = r
    BY <1>1 DEF BlockedIsNotWorked, Barred, Undocumented
  <2>1. CASE r \in RowsOf(p) BY <1>2, <2>1 DEF CoreInv, InCallHasItsCall
  <2>2. CASE r \notin RowsOf(p)
    BY <1>1, <1>2, <1>3, <2>2 DEF BlockedInv, BlockedIsNotWorked, Barred
  <2> QED BY <2>1, <2>2
<1>5. BlockedCandidates'
  BY <1>1, <1>2, <1>3 DEF BlockedInv, BlockedCandidates, FreshClaim
<1> QED BY <1>4, <1>5 DEF BlockedInv

LEMMA BlockedByRows ==
  ASSUME DialQueueAssumption, TypeOK, CoreInv, BlockedInv, NEW r \in Rows,
         \/ LockExpires(r) \/ heartbeat(r) \/ TransferRead(r) \/ TransferWrite(r)
         \/ removeRow(r) \/ requeueRow(r)
  PROVE  BlockedInv'
<1>1. CASE LockExpires(r) \/ heartbeat(r) \/ TransferRead(r)
  <2>1. UNCHANGED <<status, holder, call, blocked, blocking, overwritten, claimVars>>
    BY <1>1 DEF LockExpires, heartbeat, TransferRead, deskVars
  <2> QED BY <2>1, BlockedKept DEF Undocumented, claimVars, FreshClaim
<1>2. CASE TransferWrite(r)
  <2> DEFINE to == IF transfer.seen = "locked" THEN "queued" ELSE transfer.seen
  <2>1. /\ SetStatus({r}, to) /\ Unlock({r})
        /\ UNCHANGED <<call, blocked, blocking, candidate, outrun, overtaken>>
        /\ overwritten' = IF status[r] \in {transfer.seen, "queued", "locked"}
                          THEN overwritten ELSE overwritten \cup {r}
    BY <1>2 DEF TransferWrite, claimVars
  <2>2. r \notin overwritten' => status[r] \in {transfer.seen, "queued", "locked"} BY <2>1
  <2>3. to \in {"queued", "locked"} => transfer.seen \in {"queued", "locked"} OBVIOUS
  <2> HIDE DEF to
  <2> QED BY <2>1, <2>2, <2>3, BlockedReleases
<1>3. CASE removeRow(r) BY <1>3, BlockedReleases DEF removeRow, claimVars
<1>4. CASE requeueRow(r)
  <2>1. status[r] \in Closed => ~FreshClaim(r)' BY <1>4, OutrunIsNotFresh DEF requeueRow
  <2>2. status[r] \in {"queued", "locked"} \/ ~FreshClaim(r)'
    BY <1>4, <2>1 DEF requeueRow, TypeOK, RowStatus
  <2> QED BY <1>4, <2>2, BlockedReleases DEF requeueRow, Outrun
<1> QED BY <1>1, <1>2, <1>3, <1>4

LEMMA BlockedByDesk ==
  ASSUME DialQueueAssumption, TypeOK, CoreInv, BlockedInv,
         \/ TransferFails
         \/ \E l \in Lists, active \in BOOLEAN : setListActive(l, active)
         \/ \E p \in Contacts : addToDnc(p) \/ removeFromDnc(p)
  PROVE  BlockedInv'
<1>1. ASSUME NEW l \in Lists, NEW active \in BOOLEAN, setListActive(l, active)
      PROVE  BlockedInv'
  BY <1>1, BlockedReleases DEF setListActive, claimVars
<1>2. CASE TransferFails \/ \E p \in Contacts : addToDnc(p) \/ removeFromDnc(p)
  <2>1. /\ UNCHANGED <<status, holder, call, claimVars, overwritten>>
        /\ blocked' \ blocking' \subseteq blocked \ blocking
    BY <1>2 DEF TransferFails, addToDnc, removeFromDnc
  <2> QED BY <2>1, BlockedKept DEF Undocumented, claimVars, FreshClaim
<1> QED BY <1>1, <1>2

LEMMA BlockedStep ==
  ASSUME DialQueueAssumption, TypeOK, CoreInv, BlockedInv, [Next]_vars PROVE BlockedInv'
<1>1. CASE UNCHANGED vars BY <1>1, BlockedKept DEF vars, Undocumented, FreshClaim
<1>2. ASSUME Next PROVE BlockedInv'
  BY <1>2, BlockedByClaims, BlockedByCalls, BlockedByOutcome, BlockedByPull, BlockedByRows,
     BlockedByDesk DEF Next
<1> QED BY <1>1, <1>2

(* A blocked person's rows are held only to document a running call, even   *)
(* by an agent whose claim was in flight when the number was blocked, and   *)
(* was not outrun.                                                          *)
THEOREM BlockedIsNotWorkedHolds == Spec => []BlockedIsNotWorked
<1> USE DialQueueAssumption
<1>1. Init => BlockedInv
  BY DEF Init, BlockedInv, BlockedIsNotWorked, BlockedCandidates, Barred
<1>2. TypeOK /\ CoreInv /\ BlockedInv /\ [Next]_vars => BlockedInv' BY BlockedStep
<1>3. BlockedInv => BlockedIsNotWorked BY DEF BlockedInv
<1> QED BY <1>1, <1>2, <1>3, Inductive, PTL DEF Spec
=============================================================================
