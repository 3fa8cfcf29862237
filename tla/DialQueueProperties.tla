------------------------ MODULE DialQueueProperties ------------------------
(* What the dial queue is meant to guarantee.                               *)
EXTENDS DialQueue

(* An agent works on at most one row, in any number of tabs and requests    *)
(* (claimNextLead under lockAgent): a part of KeepsCustody.                 *)
OneRowPerAgent == \A q, r \in Rows : holder[q] # None /\ holder[q] = holder[r] => q = r

(* Until a call is documented its row is the calling agent's or nobody's:   *)
(* whatever expires, is released, transferred or swept meanwhile, no other  *)
(* agent gets the row (claimNextLead "never hands the same lead to two      *)
(* agents"), so the outcome does not land on somebody else's work; but for  *)
(* a row that was taken by a claim that was outrun.                         *)
OutcomeFindsNoStranger ==
    \A c \in Calls : Undocumented(c) /\ call[c].row \notin {None} \cup overtaken =>
        holder[call[c].row] \in {None, call[c].agent}

(* A row is in_call only for an undocumented call of its holder: such a row *)
(* is never claimed, released or expired, so without a call to end it, it   *)
(* would be lost to the queue for good.                                     *)
InCallHasItsCall ==
    \A r \in Rows : status[r] = "in_call" =>
        \E c \in Calls : Undocumented(c) /\ call[c].row = r /\ call[c].agent = holder[r]

(* A row's attempts are those of its counted calls, never more and never    *)
(* fewer than zero: a technical failure is refunded at most once, and never *)
(* from a counter that was reset in between.                                *)
AttemptsAreCalls ==
    \A r \in Rows : attempts[r] \in
        0..Cardinality({c \in Calls : call[c].row = r /\ call[c].counted})

(* Once a number is blocked and its rows are pulled out, an agent holds one *)
(* of them only to document a call that was running; but for a row that a   *)
(* transfer has put back into the queue over a closed status it had not     *)
(* read, or that was taken by a claim that was outrun.                      *)
BlockedIsNotWorked ==
    \A r \in Rows \ (overwritten \cup overtaken) :
        ContactOf[r] \in blocked \ blocking /\ holder[r] # None =>
            \E c \in Calls : Undocumented(c) /\ call[c].row = r

(* While a dialed row's call is live the row stays with it, whatever other  *)
(* agents' outcomes, sweeps, expiries and list changes do; only a transfer  *)
(* that had read the row before the dial takes it away, and the outcome of  *)
(* an earlier call whose row the agent's claim, outrun, has taken.          *)
LiveCallKeepsRow ==
    \A c \in Calls : Live(c) /\ call[c].row \notin {None} \cup overwritten \cup overtaken =>
        status[call[c].row] = "in_call" /\ holder[call[c].row] = call[c].agent

-----------------------------------------------------------------------------
(* Custody of the rows, seen in the locks and the calls.                    *)
Owed == {<<call[c].agent, call[c].row>> :
            c \in {d \in Calls : Undocumented(d) /\ call[d].row # None}}
Talking == {<<call[c].agent, call[c].contact>> : c \in {d \in Calls : Live(d)}}

Custody == INSTANCE RowCustody WITH keeper <- holder, asked <- candidate,
                                    owed <- Owed, talking <- Talking

KeepsCustody == Custody!CustodySpec
=============================================================================
