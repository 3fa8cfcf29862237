--------------------------- MODULE CampaignRunner ---------------------------
(***************************************************************************)
(* One campaign and its recipients: src/src/jobs/campaign-runner.ts, the   *)
(* two senders it calls (server/services/message-service.ts for WhatsApp,  *)
(* channel-send-service.ts for SMS and email), and the commands of         *)
(* campaign-service.ts.                                                    *)
(*                                                                         *)
(* Any number of workers run processDueCampaigns at the same time.  A      *)
(* worker reads the due recipients, claims them one by one with a          *)
(* compare-and-set, and sends each under the request key of the attempt it *)
(* has read.  A message row with that unique key is written before the     *)
(* provider is called; every outcome is written back by id, whatever the   *)
(* row says by then.  Every database round trip is a step.                 *)
(*                                                                         *)
(* A policy check (consent, suppression, template, window, lease of the    *)
(* conversation) may refuse at any time.  The provider's answers are taken *)
(* at their word: a rejected message was not delivered.  Not modelled: the *)
(* pace, the limits of Meta and the send window, which only delay claims.  *)
(***************************************************************************)
EXTENDS Integers, FiniteSets

CONSTANTS
    Recipients,   \* the campaign's recipients, each a contact of its own
    Workers,      \* concurrent runs of processDueCampaigns
    MaxAuto,      \* MAX_AUTO_ATTEMPTS
    MaxAttempts,  \* retryRecipient refuses from here on; no later attempt is followed
    LongRuns,    \* TRUE: a run may take over ten minutes (its deadline: 45 s)
    None          \* no attempt, no owner, no retry

ASSUME CampaignRunnerAssumption ==
    /\ MaxAuto \in Nat \ {0} /\ MaxAttempts \in Nat /\ MaxAuto <= MaxAttempts
    /\ LongRuns \in BOOLEAN
    /\ None \notin Nat \cup Workers \cup Recipients

VARIABLES
    campaign,   \* the row in campaigns
    recipient,  \* the rows in campaign_recipients
    message,    \* the status of the message with a request key
    slot,       \* contacts.lastMarketingAt: the send that holds the window
    worker,     \* the runs of processDueCampaigns
    retry,      \* what a manager's retryRecipient has read
    handed,     \* history: how often a request was handed to the provider
    delivered,  \* history: the requests the provider has accepted
    attested    \* history: "the provider did not deliver it", how often

rows == <<campaign, recipient, message, slot>>
history == <<handed, delivered, attested>>
vars == <<rows, worker, retry, history>>

\* A recipient and an attempt stand for the attempt's request key.
Attempts == 0 .. MaxAttempts
Keys == Recipients \X Attempts

CampaignStatus == {"DRAFT", "SCHEDULED", "RUNNING", "PAUSED", "COMPLETED", "CANCELLED"}
RecipientRec == [status : {"QUEUED", "PROCESSING", "SENT", "FAILED", "SKIPPED", "UNKNOWN"},
                 attempts : 0 .. MaxAttempts + 1, due : BOOLEAN,
                 message : Attempts \cup {None}]
\* TRANSIENT: FAILED and retryable.
MessageStatus == {"none", "QUEUED", "ACCEPTED", "FAILED", "TRANSIENT", "UNKNOWN", "CANCELLED"}

Idle == [pc |-> "idle", batch |-> {}]
Outcomes == {"sent", "failed", "retry", "requeue", "drop", "skip", "unknown"}
WorkerRec ==
    {Idle} \cup [pc : {"loop"}, batch : SUBSET Keys]
           \cup [pc : {"claimed", "lookup", "create", "link", "check", "answer"},
                 batch : SUBSET Keys, key : Keys]
           \cup [pc : {"pause", "write"}, batch : SUBSET Keys, key : Keys, outcome : Outcomes]
RetryRec == [recipient : Recipients, attempts : 0 .. MaxAttempts, completed : BOOLEAN]

TypeOK ==
    /\ campaign \in [status : CampaignStatus, whatsapp : BOOLEAN, marketing : BOOLEAN]
    /\ recipient \in [Recipients -> RecipientRec]
    /\ message \in [Keys -> MessageStatus]
    /\ slot \in [Recipients -> Workers \cup {None}]
    /\ worker \in [Workers -> WorkerRec]
    /\ retry \in RetryRec \cup {None}
    /\ handed \in [Keys -> Nat]
    /\ delivered \subseteq Keys
    /\ attested \in [Recipients -> Nat]

\* Every WhatsApp campaign needs the opt-in of a marketing message.  Contacts
\* of an excluded list are skipped from the start.
Init ==
    /\ campaign \in [status : {"DRAFT"}, whatsapp : BOOLEAN, marketing : BOOLEAN]
    /\ campaign.whatsapp => campaign.marketing
    /\ \E excluded \in SUBSET Recipients :
          recipient = [r \in Recipients |->
              [status |-> IF r \in excluded THEN "SKIPPED" ELSE "QUEUED",
               attempts |-> 0, due |-> TRUE, message |-> None]]
    /\ message = [k \in Keys |-> "none"]
    /\ slot = [r \in Recipients |-> None]
    /\ worker = [w \in Workers |-> Idle]
    /\ retry = None
    /\ handed = [k \in Keys |-> 0]
    /\ delivered = {}
    /\ attested = [r \in Recipients |-> 0]

At(w, pc) == worker[w].pc = pc
Key(w) == worker[w].key
Contact(w) == Key(w)[1]
Busy(w) == worker[w].pc \notin {"idle", "loop"}

Goto(w, pc) == worker' = [worker EXCEPT ![w].pc = pc]
GotoOutcome(w, pc, outcome) ==
    worker' = [worker EXCEPT ![w] =
        [pc |-> pc, batch |-> @.batch, key |-> @.key, outcome |-> outcome]]
GotoWrite(w, outcome) == GotoOutcome(w, "write", outcome)
BackToLoop(w) == worker' = [worker EXCEPT ![w] = [pc |-> "loop", batch |-> @.batch]]

-----------------------------------------------------------------------------
(* The first statements of a run, each as if the run died after it: what    *)
(* was claimed over ten minutes ago is in doubt, a scheduled campaign       *)
(* starts, a channel outside the package pauses its campaigns.              *)
Concerns(w, r) ==
    (Busy(w) /\ Contact(w) = r) \/ \E k \in worker[w].batch : k[1] = r

OverdueWithMessage(r) ==
    /\ recipient[r].status = "PROCESSING" /\ recipient[r].message # None
    /\ LongRuns \/ ~\E w \in Workers : Concerns(w, r)

Overdue(r) ==
    /\ recipient[r].status = "PROCESSING"
    /\ LongRuns \/ ~\E w \in Workers : Concerns(w, r)

StuckIsRequeued == "QUEUED"
Stuck == "UNKNOWN"

MarkStuck(r) ==
    /\ Overdue(r)
    /\ recipient' = [recipient EXCEPT ![r].status = Stuck]
    /\ UNCHANGED <<campaign, message, slot, worker, retry, history>>

SetStatus(from, to) ==
    /\ campaign.status \in from
    /\ campaign' = [campaign EXCEPT !.status = to]

StartScheduled ==
    /\ SetStatus({"SCHEDULED"}, "RUNNING")
    /\ UNCHANGED <<recipient, message, slot, worker, retry, history>>

PausePackage ==
    /\ SetStatus({"RUNNING"}, "PAUSED")
    /\ UNCHANGED <<recipient, message, slot, worker, retry, history>>

\* The batch: due recipients with the attempts they had at this moment.
Due(r) ==
    recipient[r].status = "QUEUED" /\ recipient[r].due /\ recipient[r].attempts <= MaxAttempts

Scan(w) ==
    /\ At(w, "idle") /\ campaign.status = "RUNNING"
    /\ worker' = [worker EXCEPT ![w] =
          [pc |-> "loop",
           batch |-> {<<r, recipient[r].attempts>> : r \in {s \in Recipients : Due(s)}}]]
    /\ UNCHANGED <<rows, retry, history>>

-----------------------------------------------------------------------------
(* The loop over the batch.                                                 *)
ClaimableWhoever(r) == campaign.status = "RUNNING"

Claimable(r) == recipient[r].status = "QUEUED" /\ campaign.status = "RUNNING"

Claim(w) ==
    /\ At(w, "loop")
    /\ \E k \in worker[w].batch :
          LET rest == worker[w].batch \ {k} IN
          IF Claimable(k[1])
          THEN /\ worker' = [worker EXCEPT ![w] =
                                [pc |-> "claimed", batch |-> rest, key |-> k]]
               /\ recipient' = [recipient EXCEPT ![k[1]].status = "PROCESSING"]
          ELSE /\ worker' = [worker EXCEPT ![w].batch = rest]
               /\ UNCHANGED recipient
    /\ UNCHANGED <<campaign, message, slot, retry, history>>

(* After the loop, at its end or at the deadline.                           *)
NothingQueued == \A r \in Recipients : recipient[r].status # "QUEUED"
NothingLeft == \A r \in Recipients : recipient[r].status \notin {"QUEUED", "PROCESSING"}

Finish(w) ==
    /\ At(w, "loop")
    /\ worker' = [worker EXCEPT ![w] = Idle]
    /\ campaign' = [campaign EXCEPT !.status =
                        IF @ = "RUNNING" /\ NothingLeft THEN "COMPLETED" ELSE @]
    /\ UNCHANGED <<recipient, message, slot, retry, history>>

(* The campaign, its creator, sender and template are looked at again, then *)
(* the contact.                                                             *)
ReadCampaign(w) ==
    /\ At(w, "claimed")
    /\ \/ campaign.status = "CANCELLED" /\ GotoWrite(w, "skip")
       \/ campaign.status \notin {"RUNNING", "CANCELLED"} /\ GotoWrite(w, "requeue")
       \/ campaign.status = "RUNNING"
          /\ (GotoOutcome(w, "pause", "requeue") \/ GotoWrite(w, "skip") \/ Goto(w, "lookup"))
    /\ UNCHANGED <<rows, retry, history>>

(* A campaign that cannot be sent now pauses; the recipient returns to the  *)
(* queue, and the worker may leave the rest of the batch alone.             *)
Pause(w) ==
    /\ At(w, "pause")
    /\ campaign' = [campaign EXCEPT !.status = IF @ = "RUNNING" THEN "PAUSED" ELSE @]
    /\ \E batch \in {worker[w].batch, {}} :
          worker' = [worker EXCEPT ![w].pc = "write", ![w].batch = batch]
    /\ UNCHANGED <<recipient, message, slot, retry, history>>

-----------------------------------------------------------------------------
(* createOutboundMessage and sendChannelMessage.                            *)

\* settle: what a message's status makes of its recipient.
OutcomeOf(status, attempt) ==
    CASE status = "TRANSIENT" /\ attempt + 1 < MaxAuto -> "retry"
      [] status = "FAILED" \/ (status = "TRANSIENT" /\ attempt + 1 >= MaxAuto) -> "failed"
      [] OTHER -> "sent"

\* What the request key's message, written by an earlier run, means now.
OutcomeOfExisting(status, attempt) ==
    CASE status \in {"QUEUED", "UNKNOWN"} -> "unknown"
      [] status = "CANCELLED" /\ ~campaign.whatsapp -> "skip"
      [] OTHER -> OutcomeOf(status, attempt)

\* A refusal by policy, also the window held by another marketing message.
Lookup(w) ==
    /\ At(w, "lookup")
    /\ \/ /\ message[Key(w)] # "none"
          /\ GotoWrite(w, OutcomeOfExisting(message[Key(w)], Key(w)[2]))
          /\ UNCHANGED slot
       \/ message[Key(w)] = "none" /\ GotoWrite(w, "skip") /\ UNCHANGED slot
       \/ message[Key(w)] = "none" /\ ~campaign.whatsapp
          /\ GotoOutcome(w, "pause", "drop") /\ UNCHANGED slot
       \/ /\ message[Key(w)] = "none"
          /\ campaign.marketing => slot[Contact(w)] = None
          /\ slot' = IF campaign.marketing THEN [slot EXCEPT ![Contact(w)] = w] ELSE slot
          /\ Goto(w, "create")
    /\ UNCHANGED <<campaign, recipient, message, retry, history>>

\* releaseSlot: only the reservation of this very send.
Released(w) == [slot EXCEPT ![Contact(w)] = IF @ = w THEN None ELSE @]

QuotaExceeded(w) ==
    /\ At(w, "create")
    /\ slot' = Released(w)
    /\ GotoOutcome(w, "pause", "drop")
    /\ UNCHANGED <<campaign, recipient, message, retry, history>>

\* The unique request key refuses a second row.
KeyFree(k) == message[k] = "none"

CreateMessage(w) ==
    /\ At(w, "create")
    /\ IF KeyFree(Key(w))
       THEN /\ message' = [message EXCEPT ![Key(w)] = "QUEUED"]
            /\ Goto(w, "link") /\ UNCHANGED slot
       ELSE /\ slot' = IF campaign.whatsapp THEN Released(w) ELSE slot
            /\ GotoWrite(w, "unknown") /\ UNCHANGED message
    /\ UNCHANGED <<campaign, recipient, retry, history>>

LinkMessage(w) ==
    /\ At(w, "link")
    /\ recipient' = [recipient EXCEPT ![Contact(w)].message = Key(w)[2]]
    /\ Goto(w, "check")
    /\ UNCHANGED <<campaign, message, slot, retry, history>>

\* The last check before the provider; WhatsApp keeps the window reserved,
\* the other channels give it back when the message cannot be rendered.
Refused(w) ==
    /\ At(w, "check")
    /\ message' = [message EXCEPT ![Key(w)] =
                      IF campaign.whatsapp THEN "FAILED" ELSE "CANCELLED"]
    /\ slot' \in {slot} \cup (IF campaign.whatsapp THEN {} ELSE {Released(w)})
    /\ GotoWrite(w, "skip")
    /\ UNCHANGED <<campaign, recipient, retry, history>>

\* A disconnected WhatsApp number: nothing was handed over, the row goes.
Unavailable(w) ==
    /\ At(w, "check") /\ campaign.whatsapp
    /\ recipient' = [recipient EXCEPT ![Contact(w)].message =
                        IF @ = Key(w)[2] THEN None ELSE @]
    /\ message' = [message EXCEPT ![Key(w)] = "none"]
    /\ slot' = Released(w)
    /\ GotoOutcome(w, "pause", "drop")
    /\ UNCHANGED <<campaign, retry, history>>

HandOver(w) ==
    /\ At(w, "check")
    /\ handed' = [handed EXCEPT ![Key(w)] = @ + 1]
    /\ delivered' \in {delivered, delivered \cup {Key(w)}}
    /\ Goto(w, "answer")
    /\ UNCHANGED <<rows, retry, attested>>

AnswerSent(k) == {"SENT"}
AnswerStatus(k) == IF k \in delivered THEN {"ACCEPTED"} ELSE {"FAILED", "TRANSIENT"}

\* The rejected message's window is given back right after the update.
Answered(w) ==
    /\ At(w, "answer")
    /\ \E status \in AnswerStatus(Key(w)) :
          /\ message' = [message EXCEPT ![Key(w)] = status]
          /\ slot' = IF status = "ACCEPTED" THEN slot ELSE Released(w)
          /\ GotoWrite(w, OutcomeOf(status, Key(w)[2]))
    /\ UNCHANGED <<campaign, recipient, retry, history>>

NoAnswerIsTransient(w) ==
    /\ At(w, "answer")
    /\ message' = [message EXCEPT ![Key(w)] = "TRANSIENT"]
    /\ GotoWrite(w, OutcomeOf("TRANSIENT", Key(w)[2]))
    /\ UNCHANGED <<campaign, recipient, slot, retry, history>>

NoAnswerDropsRow(w) ==
    /\ At(w, "answer")
    /\ message' = [message EXCEPT ![Key(w)] = "none"]
    /\ slot' = Released(w)
    /\ GotoOutcome(w, "pause", "drop")
    /\ UNCHANGED <<campaign, recipient, retry, history>>

\* No answer, a broken connection: delivered or not.
NoAnswer(w) ==
    /\ At(w, "answer")
    /\ message' = [message EXCEPT ![Key(w)] = "UNKNOWN"]
    /\ GotoWrite(w, "unknown")
    /\ UNCHANGED <<campaign, recipient, slot, retry, history>>

-----------------------------------------------------------------------------
(* The recipient's row, by id, whatever it says by now.                     *)
Written(rec, outcome, attempt) ==
    CASE outcome = "sent"    -> [rec EXCEPT !.status = "SENT", !.attempts = attempt + 1,
                                            !.message = attempt]
      [] outcome = "failed"  -> [rec EXCEPT !.status = "FAILED", !.attempts = attempt + 1,
                                            !.message = attempt]
      [] outcome = "retry"   -> [rec EXCEPT !.status = "QUEUED", !.attempts = attempt + 1,
                                            !.message = attempt, !.due = FALSE]
      [] outcome = "requeue" -> [rec EXCEPT !.status = "QUEUED"]
      [] outcome = "drop"    -> [rec EXCEPT !.status = "QUEUED", !.message = None]
      [] outcome = "skip"    -> [rec EXCEPT !.status = "SKIPPED"]
      [] outcome = "unknown" -> [rec EXCEPT !.status = "UNKNOWN"]

WriteRecipient(w) ==
    /\ At(w, "write")
    /\ recipient' = [recipient EXCEPT ![Contact(w)] =
                        Written(@, worker[w].outcome, Key(w)[2])]
    /\ BackToLoop(w)
    /\ UNCHANGED <<campaign, message, slot, retry, history>>

\* Any other error on the way leaves the recipient in doubt.
Throws(w) ==
    /\ Busy(w)
    /\ slot' \in {slot} \cup (IF At(w, "create") THEN {Released(w)} ELSE {})
    /\ GotoWrite(w, "unknown")
    /\ UNCHANGED <<campaign, recipient, message, retry, history>>

WorkerDies(w) ==
    /\ worker[w].pc # "idle"
    /\ worker' = [worker EXCEPT ![w] = Idle]
    /\ UNCHANGED <<rows, retry, history>>

-----------------------------------------------------------------------------
(* Time: a backoff ends; the contact's marketing window ends (hours, which  *)
(* no send takes).                                                          *)
BackoffEnds(r) ==
    /\ ~recipient[r].due
    /\ recipient' = [recipient EXCEPT ![r].due = TRUE]
    /\ UNCHANGED <<campaign, message, slot, worker, retry, history>>

WindowEnds(r) ==
    /\ slot[r] # None
    /\ ~\E w \in Workers : Concerns(w, r)
    /\ slot' = [slot EXCEPT ![r] = None]
    /\ UNCHANGED <<campaign, recipient, message, worker, retry, history>>

-----------------------------------------------------------------------------
(* The manager's commands.  The preflight may refuse a start or a resume;   *)
(* it looks before the update does, so its verdict is no guard of it.       *)
start == SetStatus({"DRAFT"}, "SCHEDULED")
unschedule == SetStatus({"SCHEDULED"}, "DRAFT")
pause == SetStatus({"SCHEDULED", "RUNNING"}, "PAUSED")
resume == SetStatus({"PAUSED"}, "SCHEDULED")

changeCampaignStatus ==
    /\ start \/ unschedule \/ pause \/ resume
    /\ UNCHANGED <<recipient, message, slot, worker, retry, history>>

\* What is still queued is skipped, and the queued message a recipient links
\* to is cancelled.
SkipQueued(set) ==
    recipient' = [r \in Recipients |->
        IF r \in set /\ recipient[r].status = "QUEUED"
        THEN [recipient[r] EXCEPT !.status = "SKIPPED"] ELSE recipient[r]]
CancelUnfinished(set) ==
    message' = [k \in Keys |->
        IF k \in set /\ message[k] \in {"QUEUED", "ACCEPTED"} THEN "CANCELLED"
        ELSE message[k]]
CancelQueued(set) ==
    message' = [k \in Keys |->
        IF k \in set /\ message[k] = "QUEUED" THEN "CANCELLED" ELSE message[k]]

cancel ==
    /\ SetStatus({"DRAFT", "SCHEDULED", "RUNNING", "PAUSED"}, "CANCELLED")
    /\ SkipQueued(Recipients)
    /\ CancelQueued({k \in Keys : recipient[k[1]].message = k[2]})
    /\ UNCHANGED <<slot, worker, retry, history>>

\* The contact asks to be removed.
stopPendingMarketing(r) ==
    /\ SkipQueued({r})
    /\ CancelQueued(IF campaign.marketing THEN {r} \X Attempts ELSE {})
    /\ UNCHANGED <<campaign, slot, worker, retry, history>>

\* An uncertain outcome is retried only with the manager's word that the
\* provider did not deliver it.
ReadRetry(r) ==
    /\ retry = None
    /\ recipient[r].status \in {"FAILED", "UNKNOWN"}
    /\ recipient[r].attempts < MaxAttempts
    /\ campaign.status \in {"RUNNING", "PAUSED", "COMPLETED", "SCHEDULED"}
    /\ retry' = [recipient |-> r, attempts |-> recipient[r].attempts,
                 completed |-> campaign.status = "COMPLETED"]
    /\ attested' = [attested EXCEPT ![r] =
                       IF recipient[r].status = "UNKNOWN" THEN @ + 1 ELSE @]
    /\ UNCHANGED <<rows, worker, handed, delivered>>

WriteRetry ==
    /\ retry # None
    /\ recipient' = [recipient EXCEPT ![retry.recipient] =
          [@ EXCEPT !.status = "QUEUED", !.attempts = retry.attempts + 1, !.due = TRUE]]
    /\ campaign' = IF retry.completed THEN [campaign EXCEPT !.status = "RUNNING"] ELSE campaign
    /\ retry' = None
    /\ UNCHANGED <<message, slot, worker, history>>

-----------------------------------------------------------------------------
send(w) ==
    \/ Lookup(w) \/ QuotaExceeded(w) \/ CreateMessage(w) \/ LinkMessage(w) \/ Refused(w)
    \/ Unavailable(w) \/ HandOver(w) \/ Answered(w) \/ NoAnswer(w)

handle(w) == ReadCampaign(w) \/ Pause(w) \/ send(w) \/ WriteRecipient(w)

processDueCampaigns(w) == Scan(w) \/ Claim(w) \/ handle(w) \/ Finish(w)

retryRecipient == WriteRetry \/ \E r \in Recipients : ReadRetry(r)

Next ==
    \/ \E w \in Workers : processDueCampaigns(w) \/ Throws(w) \/ WorkerDies(w)
    \/ StartScheduled \/ PausePackage
    \/ \E r \in Recipients :
          MarkStuck(r) \/ BackoffEnds(r) \/ WindowEnds(r) \/ stopPendingMarketing(r)
    \/ changeCampaignStatus \/ cancel \/ retryRecipient

Spec == Init /\ [][Next]_vars

(* The cron runs again and again and not every run dies at the same place;  *)
(* backoffs end.  Nothing is assumed of the managers and the provider.      *)
FairSpec ==
    /\ Spec
    /\ \A w \in Workers :
          /\ WF_vars(Scan(w)) /\ SF_vars(Claim(w)) /\ SF_vars(Finish(w))
          /\ WF_vars(handle(w))
    /\ \A r \in Recipients : WF_vars(MarkStuck(r)) /\ WF_vars(BackoffEnds(r))
=============================================================================
