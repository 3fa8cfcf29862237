---------------------------- MODULE SequenceRuns ----------------------------
(***************************************************************************)
(* One contact's run through a marketing sequence (a journey):             *)
(* src/src/server/services/sequence-service.ts, with the SMS and email     *)
(* sends of channel-send-service.ts (WhatsApp's are in CampaignRunner), the *)
(* stop of src/src/lib/suppression.ts and the manager's retry of           *)
(* src/src/server/ai/diagnostics.ts.                                       *)
(*                                                                         *)
(* A cron worker lists the runs that are due, claims each by its status    *)
(* and works on the step it has LISTED, while anything else may write the  *)
(* row; it closes the step with an update by id.  Workers live for at most *)
(* a minute and may be killed at any point; a run they leave RUNNING is    *)
(* given back ten minutes later.                                           *)
(*                                                                         *)
(* Waiting times only delay a run, and conditions, replies, consent and    *)
(* the frequency cap may turn out either way at any time: a run that is    *)
(* PENDING may be due, and a step that is checked may stop, skip or wait.  *)
(***************************************************************************)
EXTENDS Naturals, Sequences

CONSTANTS SeqWorkers,
          Steps        \* the published version: "send", "act" (task, tag, list,
                       \* webhook) or "gate" (condition)

ASSUME SeqAssumption == Steps \in Seq({"send", "act", "gate"}) /\ Steps # << >>

VARIABLES
    run,        \* the sequence_runs row
    note,       \* the message of each step, found by its requestKey seq:run:position
    optedOut,   \* an active suppression of the contact
    seqWorker,  \* what each worker knows
    retrying,   \* a manager's retry has been checked and not yet written
    posted      \* history: how often each step's message went to the provider

seqVars == <<run, note, optedOut, seqWorker, retrying, posted>>

Positions == 1..Len(Steps)
RunStatus == {"PENDING", "RUNNING", "COMPLETED", "STOPPED", "FAILED"}
NoteStatus == {"none", "QUEUED", "ACCEPTED", "UNKNOWN", "FAILED", "CANCELLED"}
Busy == {"claimed", "checked", "acting", "sending", "new", "cleared", "queued", "asked",
         "performed"}

\* late: the contact had opted out before the run was claimed.
Hand == [pc : {"idle", "listed"} \cup Busy, at : Positions, late : BOOLEAN]
NoHand == [pc |-> "idle", at |-> 1, late |-> FALSE]

SeqTypeOK ==
    /\ run \in [status : RunStatus, step : Positions]
    /\ note \in [Positions -> NoteStatus]
    /\ optedOut \in BOOLEAN /\ retrying \in BOOLEAN
    /\ seqWorker \in [SeqWorkers -> Hand]
    /\ posted \in [Positions -> Nat]

SeqInit ==
    /\ run = [status |-> "PENDING", step |-> 1]
    /\ note = [i \in Positions |-> "none"]
    /\ optedOut = FALSE /\ retrying = FALSE
    /\ seqWorker = [w \in SeqWorkers |-> NoHand]
    /\ posted = [i \in Positions |-> 0]

-----------------------------------------------------------------------------
Moves(w, pc) == seqWorker' = [seqWorker EXCEPT ![w].pc = pc]

\* finish: an update by id, whatever the row holds by now.
Finish(w, status, step) ==
    /\ run' = [status |-> status, step |-> step]
    /\ seqWorker' = [seqWorker EXCEPT ![w] = NoHand]

NextStep(w) ==
    LET at == seqWorker[w].at
    IN  IF at = Len(Steps) THEN Finish(w, "COMPLETED", run.step)
        ELSE Finish(w, "PENDING", at + 1)

NeverStranded == FALSE
Stranded == run.status = "RUNNING" /\ \A w \in SeqWorkers : seqWorker[w].pc \notin Busy

GiveBack == IF Stranded THEN [run EXCEPT !.status = "PENDING"] ELSE run

ListDue(w) ==
    /\ seqWorker[w].pc = "idle"
    /\ GiveBack.status = "PENDING"
    /\ run' = GiveBack
    /\ seqWorker' = [seqWorker EXCEPT ![w] = [NoHand EXCEPT !.pc = "listed", !.at = run.step]]
    /\ UNCHANGED <<note, optedOut, retrying, posted>>

ClaimRun(w) ==
    /\ seqWorker[w].pc = "listed"
    /\ IF run.status = "PENDING"
       THEN /\ run' = [run EXCEPT !.status = "RUNNING"]
            /\ seqWorker' = [seqWorker EXCEPT ![w].pc = "claimed", ![w].late = optedOut]
       ELSE run' = run /\ Moves(w, "idle")
    /\ UNCHANGED <<note, optedOut, retrying, posted>>

Kind(w) == Steps[seqWorker[w].at]

Blocked(w) == Kind(w) = "send" /\ optedOut

\* Whatever stops the run, and before a send the contact's suppressions.
CheckStep(w) ==
    /\ seqWorker[w].pc = "claimed"
    /\ \/ Finish(w, "STOPPED", run.step)
       \/ ~Blocked(w) /\ Moves(w, "checked") /\ UNCHANGED run
    /\ UNCHANGED <<note, optedOut, retrying, posted>>

\* A gate waits, stops the run or lets it pass; other steps may be skipped.
DecideStep(w) ==
    /\ seqWorker[w].pc = "checked"
    /\ \/ Kind(w) = "gate" /\ \E status \in {"PENDING", "STOPPED"} : Finish(w, status, run.step)
       \/ Kind(w) # "gate" /\ NextStep(w)
       \/ /\ Moves(w, CASE Kind(w) = "send" -> "sending" [] Kind(w) = "act" -> "acting"
                        [] Kind(w) = "gate" -> "performed")
          /\ UNCHANGED run
    /\ UNCHANGED <<note, optedOut, retrying, posted>>

Act(w) ==
    /\ seqWorker[w].pc = "acting"
    /\ Moves(w, "performed")
    /\ UNCHANGED <<run, note, optedOut, retrying, posted>>

\* sendChannelMessage: what an earlier attempt of this step has left.
IsNewUnlessSent(status) == status # "ACCEPTED"
IsNew(status) == status = "none"

LookUpNote(w) ==
    LET known == note[seqWorker[w].at]
    IN  /\ seqWorker[w].pc = "sending"
        /\ CASE IsNew(known) -> Moves(w, "new") /\ UNCHANGED run
             [] known \in {"ACCEPTED", "CANCELLED"} -> Moves(w, "performed") /\ UNCHANGED run
             [] OTHER -> Finish(w, "FAILED", run.step)
        /\ UNCHANGED <<note, optedOut, retrying, posted>>

\* The first gate: template, address, suppression.
ClearNote(w) ==
    /\ seqWorker[w].pc = "new"
    /\ \/ Moves(w, "performed")
       \/ ~optedOut /\ Moves(w, "cleared")
    /\ UNCHANGED <<run, note, optedOut, retrying, posted>>

\* No channel or the frequency cap: later again.  No quota or budget: skipped.
RefuseNote(w) ==
    /\ seqWorker[w].pc = "cleared"
    /\ \/ Finish(w, "PENDING", run.step)
       \/ Moves(w, "performed") /\ UNCHANGED run
    /\ UNCHANGED <<note, optedOut, retrying, posted>>

QueueNote(w) ==
    LET at == seqWorker[w].at
    IN  /\ seqWorker[w].pc = "cleared"
        /\ IF IsNew(note[at])
           THEN /\ note' = [note EXCEPT ![at] = "QUEUED"]
                /\ Moves(w, "queued") /\ UNCHANGED run
           ELSE Finish(w, "FAILED", run.step) /\ UNCHANGED note   \* unique requestKey
        /\ UNCHANGED <<optedOut, retrying, posted>>

\* The text cannot be rendered.
DropNote(w) ==
    /\ seqWorker[w].pc = "queued"
    /\ note' = [note EXCEPT ![seqWorker[w].at] = "CANCELLED"]
    /\ Moves(w, "performed")
    /\ UNCHANGED <<run, optedOut, retrying, posted>>

\* The last check and the request.
PostNote(w) ==
    LET at == seqWorker[w].at
    IN  /\ seqWorker[w].pc = "queued"
        /\ IF optedOut
           THEN /\ note' = [note EXCEPT ![at] = "CANCELLED"]
                /\ Finish(w, "STOPPED", run.step) /\ UNCHANGED posted
           ELSE /\ posted' = [posted EXCEPT ![at] = @ + 1]
                /\ Moves(w, "asked") /\ UNCHANGED <<run, note>>
        /\ UNCHANGED <<optedOut, retrying>>

NoteAnswered(w, result) ==
    /\ seqWorker[w].pc = "asked"
    /\ note' = [note EXCEPT ![seqWorker[w].at] = result]
    /\ IF result = "ACCEPTED" THEN Moves(w, "performed") /\ UNCHANGED run
       ELSE Finish(w, "FAILED", run.step)
    /\ UNCHANGED <<optedOut, retrying, posted>>

\* A step skipped for a reason that speaks of removal or consent stops the run.
CloseStep(w) ==
    /\ seqWorker[w].pc = "performed"
    /\ \/ NextStep(w)
       \/ /\ Kind(w) = "send" /\ note[seqWorker[w].at] \in {"none", "CANCELLED"}
          /\ Finish(w, "STOPPED", run.step)
    /\ UNCHANGED <<note, optedOut, retrying, posted>>

\* Anything throws: the step is not tried again but by a manager's retry.
StepThrows(w) ==
    /\ seqWorker[w].pc \in Busy
    /\ Finish(w, "FAILED", run.step)
    /\ UNCHANGED <<note, optedOut, retrying, posted>>

SeqKilled(w) ==
    /\ seqWorker[w].pc # "idle"
    /\ seqWorker' = [seqWorker EXCEPT ![w] = NoHand]
    /\ UNCHANGED <<run, note, optedOut, retrying, posted>>

-----------------------------------------------------------------------------
StoppedRun == IF run.status \in {"PENDING", "RUNNING"} THEN [run EXCEPT !.status = "STOPPED"]
              ELSE run

\* suppressContact, from an inbound message: one transaction.
OptOut ==
    /\ ~optedOut /\ optedOut' = TRUE
    /\ run' = StoppedRun
    /\ note' = [i \in Positions |-> IF note[i] = "QUEUED" THEN "CANCELLED" ELSE note[i]]
    /\ UNCHANGED <<seqWorker, retrying, posted>>

\* The contact is deleted, or the business leaves.
StopRun ==
    /\ run' = StoppedRun
    /\ UNCHANGED <<note, optedOut, seqWorker, retrying, posted>>

\* retry_failed_run reads the run and its messages, then updates by id.
RetryCheck ==
    /\ ~retrying /\ run.status = "FAILED"
    /\ \A i \in Positions : note[i] # "ACCEPTED"
    /\ retrying' = TRUE
    /\ UNCHANGED <<run, note, optedOut, seqWorker, posted>>

RetryWrite ==
    /\ retrying /\ retrying' = FALSE
    /\ run' = [run EXCEPT !.status = "PENDING"]
    /\ UNCHANGED <<note, optedOut, seqWorker, posted>>

SeqStep(w) ==
    \/ ListDue(w) \/ ClaimRun(w) \/ CheckStep(w) \/ DecideStep(w) \/ Act(w)
    \/ LookUpNote(w) \/ ClearNote(w) \/ RefuseNote(w) \/ QueueNote(w) \/ DropNote(w)
    \/ PostNote(w) \/ CloseStep(w)
    \/ \E result \in {"ACCEPTED", "UNKNOWN", "FAILED"} : NoteAnswered(w, result)

SeqNext ==
    \/ \E w \in SeqWorkers : SeqStep(w) \/ StepThrows(w) \/ SeqKilled(w)
    \/ OptOut \/ StopRun \/ RetryCheck \/ RetryWrite

SeqSpec == SeqInit /\ [][SeqNext]_seqVars
SeqFairness == WF_seqVars(\E w \in SeqWorkers : SeqStep(w))

-----------------------------------------------------------------------------
(* Reclaiming a run is safe (processDueSequenceRuns: "steps are idempotent"):*)
(* a step's message goes to the provider at most once, though workers are   *)
(* killed, work on stale steps and a manager's retry lets two of them in.   *)
StepPostedOnce == \A i \in Positions : posted[i] <= 1

(* No run stays RUNNING for good, however often workers are killed.         *)
NoRunStuck == run.status = "RUNNING" ~> run.status # "RUNNING"

(* After a contact has opted out no further step of the sequence starts     *)
(* (stopPendingMarketing: "sequences in flight for this contact stop at the *)
(* next step").                                                             *)
OptOutStopsSteps ==
    \A w \in SeqWorkers : seqWorker[w].pc \in {"acting", "asked"} => ~seqWorker[w].late
=============================================================================
