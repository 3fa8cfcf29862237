------------------------ MODULE CampaignRunnerProofs ------------------------
(***************************************************************************)
(* Proofs about a campaign, for any number of recipients, workers and      *)
(* attempts.  Three inductive invariants, each on top of the one before.   *)
(* KeyInv is ownership of the request key: whoever has created the key's    *)
(* message row and not yet written its outcome owns the key, there is one   *)
(* owner at most, and the row is there as long as it is owned.  A row is    *)
(* removed, and the key free again, only by an owner that has handed        *)
(* nothing over.  HoldInv, for runs that end before they count as stuck: a  *)
(* recipient is in one worker's hands at most.  VerdictInv keeps account of *)
(* the deliveries: a delivery may follow another only behind a manager's    *)
(* word, so wherever an attempt may start every earlier delivery has one.   *)
(* Together the three carry the refinement of SendingPromise, at the end.   *)
(***************************************************************************)
EXTENDS CampaignRunnerProperties, FiniteSetTheorems, TLAPS

Steps == {"claimed", "lookup", "create", "link", "check", "answer"}
OwnerSteps == {"link", "check", "answer"}

Owns(w, k) == worker[w].pc \in OwnerSteps /\ worker[w].key = k

OneOwner == \A k \in Keys, v, w \in Workers : Owns(v, k) /\ Owns(w, k) => v = w

OwnedIsQueued ==
    \A k \in Keys, w \in Workers : Owns(w, k) => message[k] \in {"QUEUED", "CANCELLED"}

UnhandedBefore ==
    \A k \in Keys, w \in Workers :
        Owns(w, k) /\ worker[w].pc # "answer" => handed[k] = 0

FreeIsUnhanded == \A k \in Keys : message[k] = "none" => handed[k] = 0

KeyInv == OneOwner /\ OwnedIsQueued /\ UnhandedBefore /\ FreeIsUnhanded /\ KeyHandedOnce

(* Who holds a recipient, and what is known of deliveries.  A recipient is  *)
(* in one worker's hands at most, it is PROCESSING meanwhile, and neither a *)
(* claim nor a write overtakes a manager's retry.                           *)
OneHolder ==
    \A v, w \in Workers : Busy(v) /\ Busy(w) /\ Contact(v) = Contact(w) => v = w

HeldIsProcessing == \A w \in Workers : Busy(w) => recipient[Contact(w)].status = "PROCESSING"

RetryWaits == retry # None => recipient[retry.recipient].status \in {"FAILED", "UNKNOWN"}

HoldInv == OneHolder /\ HeldIsProcessing /\ RetryWaits

(* Accounted: every delivery has been followed by a manager's word, so the  *)
(* next one is not blind.  An attempt that may still be made is accounted   *)
(* for, and so is every row from which one may start; what is lost is lost  *)
(* in the states of doubt, which are left by the word alone.                *)
Received(r) == {k \in delivered : k[1] = r}
Accounted(r) == Cardinality(Received(r)) <= attested[r]

Clear(w) ==
    /\ Busy(w)
    /\ ~(At(w, "answer") /\ Key(w) \in delivered)
    /\ ~(At(w, "write") /\ worker[w].outcome \in {"sent", "unknown"})

ConcludedSent(w) == worker[w].pc \in {"pause", "write"} /\ worker[w].outcome = "sent"

Vouched(r) ==
    \/ \E k \in delivered : k[1] = r
    \/ campaign.whatsapp /\ \E k \in {r} \X Attempts : message[k] = "CANCELLED"

DeliveredWasHanded == \A k \in delivered : handed[k] >= 1
AcceptedIsDelivered == \A k \in Keys : message[k] = "ACCEPTED" => k \in delivered
RowsAccounted ==
    \A r \in Recipients :
        recipient[r].status \in {"QUEUED", "SKIPPED", "FAILED"} => Accounted(r)
RetryAccounted == retry # None => Accounted(retry.recipient)
WorkersAccounted == \A w \in Workers : Clear(w) => Accounted(Contact(w))
SentIsVouched ==
    /\ \A r \in Recipients : recipient[r].status = "SENT" => Vouched(r)
    /\ \A w \in Workers : ConcludedSent(w) => Vouched(Contact(w))

VerdictInv ==
    /\ DeliveredWasHanded /\ AcceptedIsDelivered /\ NoBlindResend
    /\ RowsAccounted /\ RetryAccounted /\ WorkersAccounted /\ SentIsVouched

-----------------------------------------------------------------------------
LEMMA TypeInit == ASSUME CampaignRunnerAssumption, Init PROVE TypeOK
  <1>1. Idle \in WorkerRec
    BY DEF WorkerRec
  <1>2. campaign \in [status : CampaignStatus, whatsapp : BOOLEAN, marketing : BOOLEAN]
    BY DEF Init, CampaignStatus
  <1>3. recipient \in [Recipients -> RecipientRec]
    BY DEF Init, RecipientRec, CampaignRunnerAssumption
  <1>4. QED
    BY <1>1, <1>2, <1>3 DEF Init, TypeOK, MessageStatus

LEMMA KeyInit == ASSUME CampaignRunnerAssumption, Init PROVE KeyInv
  BY DEF Init, KeyInv, OneOwner, OwnedIsQueued, UnhandedBefore, FreeIsUnhanded,
         KeyHandedOnce, Owns, OwnerSteps, Idle

-----------------------------------------------------------------------------
(* What a worker has in its hands, and how it moves.                        *)
LEMMA BusyWorker ==
  ASSUME TypeOK, NEW w \in Workers, Busy(w)
  PROVE  /\ worker[w].batch \subseteq Keys
         /\ Key(w) \in Keys /\ Contact(w) \in Recipients /\ Key(w)[2] \in Attempts
         /\ Key(w) = <<Contact(w), Key(w)[2]>>
  <1>1. worker[w] \in WorkerRec
    BY DEF TypeOK
  <1>2. worker[w].batch \subseteq Keys /\ Key(w) \in Keys
    BY <1>1 DEF WorkerRec, Busy, Idle, Key
  <1>3. QED
    BY <1>2 DEF Keys, Contact

LEMMA Others ==
  ASSUME TypeOK, NEW w \in Workers, NEW pc \in STRING, NEW outcome \in STRING,
         Goto(w, pc) \/ GotoOutcome(w, pc, outcome) \/ GotoWrite(w, outcome) \/ BackToLoop(w)
  PROVE  \A v \in Workers \ {w} : worker'[v] = worker[v]
  BY DEF TypeOK, Goto, GotoOutcome, GotoWrite, BackToLoop

LEMMA GotoMoves ==
  ASSUME TypeOK, NEW w \in Workers, worker[w].pc \in Steps, NEW pc \in Steps, Goto(w, pc)
  PROVE  /\ worker' \in [Workers -> WorkerRec]
         /\ worker'[w].pc = pc /\ worker'[w].key = worker[w].key
         /\ \A v \in Workers \ {w} : worker'[v] = worker[v]
  <1>1. worker[w] \in WorkerRec /\ worker \in [Workers -> WorkerRec]
    BY DEF TypeOK
  <1>2. worker[w] \in [pc : Steps, batch : SUBSET Keys, key : Keys]
    BY <1>1 DEF WorkerRec, Idle, Steps
  <1>3. /\ [worker[w] EXCEPT !.pc = pc] \in [pc : Steps, batch : SUBSET Keys, key : Keys]
        /\ [worker[w] EXCEPT !.pc = pc].pc = pc
        /\ [worker[w] EXCEPT !.pc = pc].key = worker[w].key
    BY <1>2
  <1>4. worker' = [worker EXCEPT ![w] = [worker[w] EXCEPT !.pc = pc]]
    BY <1>1 DEF Goto
  <1>5. [worker[w] EXCEPT !.pc = pc] \in WorkerRec
    BY <1>3 DEF WorkerRec, Steps
  <1>6. QED
    BY <1>1, <1>3, <1>4, <1>5

LEMMA OutcomeMoves ==
  ASSUME TypeOK, NEW w \in Workers, Busy(w), NEW pc \in {"pause", "write"},
         NEW outcome \in Outcomes, GotoOutcome(w, pc, outcome)
  PROVE  /\ worker' \in [Workers -> WorkerRec]
         /\ worker'[w].pc = pc
         /\ worker'[w].key = worker[w].key /\ worker'[w].outcome = outcome
         /\ \A v \in Workers \ {w} : worker'[v] = worker[v]
  <1> DEFINE new == [pc |-> pc, batch |-> worker[w].batch, key |-> worker[w].key,
                     outcome |-> outcome]
  <1>1. worker \in [Workers -> WorkerRec] /\ worker' = [worker EXCEPT ![w] = new]
    BY DEF TypeOK, GotoOutcome
  <1>2. new \in WorkerRec /\ new.pc = pc /\ new.key = worker[w].key /\ new.outcome = outcome
    BY BusyWorker DEF WorkerRec, Key
  <1> HIDE DEF new
  <1>3. QED
    BY <1>1, <1>2

LEMMA WriteMoves ==
  ASSUME TypeOK, NEW w \in Workers, Busy(w), NEW outcome \in Outcomes, GotoWrite(w, outcome)
  PROVE  /\ worker' \in [Workers -> WorkerRec]
         /\ worker'[w].pc = "write"
         /\ worker'[w].key = worker[w].key /\ worker'[w].outcome = outcome
         /\ \A v \in Workers \ {w} : worker'[v] = worker[v]
  BY OutcomeMoves DEF GotoWrite

LEMMA LoopMoves ==
  ASSUME TypeOK, NEW w \in Workers, Busy(w), BackToLoop(w)
  PROVE  /\ worker' \in [Workers -> WorkerRec]
         /\ worker'[w].pc = "loop"
         /\ \A v \in Workers \ {w} : worker'[v] = worker[v]
  <1>1. [pc |-> "loop", batch |-> worker[w].batch] \in WorkerRec
    BY BusyWorker DEF WorkerRec
  <1>2. QED
    BY <1>1 DEF BackToLoop, TypeOK

LEMMA OutcomesTyped ==
  ASSUME NEW status, NEW attempt
  PROVE  OutcomeOf(status, attempt) \in Outcomes /\ OutcomeOfExisting(status, attempt) \in Outcomes
  BY DEF OutcomeOf, OutcomeOfExisting, Outcomes

LEMMA ReleasedTyped ==
  ASSUME TypeOK, NEW w \in Workers
  PROVE  Released(w) \in [Recipients -> Workers \cup {None}]
  BY DEF TypeOK, Released

-----------------------------------------------------------------------------
(* Types.                                                                   *)
LEMMA SetStatusTyped ==
  ASSUME TypeOK, NEW from, NEW to \in CampaignStatus, SetStatus(from, to)
  PROVE  campaign' \in [status : CampaignStatus, whatsapp : BOOLEAN, marketing : BOOLEAN]
  BY DEF TypeOK, SetStatus

LEMMA StatusTyped ==
  ASSUME TypeOK, NEW r \in Recipients, NEW status \in {"QUEUED", "PROCESSING", "SKIPPED", "UNKNOWN"}
  PROVE  /\ recipient[r] \in RecipientRec
         /\ [recipient[r] EXCEPT !.status = status] \in RecipientRec
  BY DEF TypeOK, RecipientRec

LEMMA SkipTyped ==
  ASSUME TypeOK, NEW set, SkipQueued(set)
  PROVE  recipient' \in [Recipients -> RecipientRec]
  BY StatusTyped DEF SkipQueued, TypeOK

LEMMA CancelTyped ==
  ASSUME TypeOK, NEW set, CancelQueued(set)
  PROVE  message' \in [Keys -> MessageStatus]
  BY DEF CancelQueued, TypeOK, MessageStatus

LEMMA WrittenTyped ==
  ASSUME CampaignRunnerAssumption, NEW rec \in RecipientRec, NEW outcome \in Outcomes,
         NEW attempt \in Attempts
  PROVE  Written(rec, outcome, attempt) \in RecipientRec
  <1>1. attempt + 1 \in 0 .. MaxAttempts + 1
    BY DEF Attempts, CampaignRunnerAssumption
  <1>2. QED
    BY <1>1 DEF Written, RecipientRec, Outcomes

LEMMA RunTypes ==
  ASSUME CampaignRunnerAssumption, TypeOK, NEW w \in Workers,
         Scan(w) \/ Claim(w) \/ Finish(w) \/ WorkerDies(w)
  PROVE  TypeOK'
  <1> USE DEF TypeOK
  <1>0. Idle \in WorkerRec
    BY DEF WorkerRec
  <1>1. CASE Scan(w)
    <2> DEFINE due == {<<r, recipient[r].attempts>> : r \in {s \in Recipients : Due(s)}}
    <2>1. due \subseteq Keys
      BY DEF Due, RecipientRec, Keys, Attempts, CampaignRunnerAssumption
    <2>2. [pc |-> "loop", batch |-> due] \in WorkerRec
      BY <2>1 DEF WorkerRec
    <2> HIDE DEF due
    <2>3. worker' \in [Workers -> WorkerRec]
      BY <1>1, <2>2 DEF Scan, due
    <2>4. QED
      BY <1>1, <2>3 DEF Scan, rows, history
  <1>2. CASE Claim(w)
    <2>1. PICK k \in worker[w].batch :
            LET rest == worker[w].batch \ {k} IN
            IF Claimable(k[1])
            THEN /\ worker' = [worker EXCEPT ![w] =
                                  [pc |-> "claimed", batch |-> rest, key |-> k]]
                 /\ recipient' = [recipient EXCEPT ![k[1]].status = "PROCESSING"]
            ELSE /\ worker' = [worker EXCEPT ![w].batch = rest]
                 /\ UNCHANGED recipient
      BY <1>2 DEF Claim
    <2> DEFINE rest == worker[w].batch \ {k}
    <2>2. worker[w] \in [pc : {"loop"}, batch : SUBSET Keys]
      BY <1>2 DEF Claim, At, WorkerRec, Idle
    <2>3. /\ k \in Keys /\ k[1] \in Recipients
          /\ [pc |-> "claimed", batch |-> rest, key |-> k] \in WorkerRec
          /\ [worker[w] EXCEPT !.batch = rest] \in WorkerRec
      BY <2>2 DEF WorkerRec, Keys
    <2>4. worker' \in [Workers -> WorkerRec]
      BY <2>1, <2>3
    <2>5. [recipient[k[1]] EXCEPT !.status = "PROCESSING"] \in RecipientRec
      BY <2>3, StatusTyped
    <2>6. recipient' \in [Recipients -> RecipientRec]
      BY <2>1, <2>3, <2>5
    <2>7. QED
      BY <1>2, <2>4, <2>6 DEF Claim, history
  <1>3. CASE Finish(w)
    BY <1>0, <1>3 DEF Finish, history, CampaignStatus
  <1>4. CASE WorkerDies(w)
    BY <1>0, <1>4 DEF WorkerDies, rows, history
  <1>5. QED
    BY <1>1, <1>2, <1>3, <1>4

LEMMA HandleTypes ==
  ASSUME CampaignRunnerAssumption, TypeOK, NEW w \in Workers,
         ReadCampaign(w) \/ Pause(w) \/ WriteRecipient(w) \/ Throws(w)
  PROVE  TypeOK'
  <1>1. CASE ReadCampaign(w)
    <2>1. Busy(w) /\ worker[w].pc \in Steps
      BY <1>1 DEF ReadCampaign, At, Busy, Steps
    <2>2. worker' \in [Workers -> WorkerRec]
      BY <1>1, <2>1, GotoMoves, OutcomeMoves, WriteMoves DEF ReadCampaign, Steps, Outcomes
    <2>3. QED
      BY <1>1, <2>2 DEF ReadCampaign, TypeOK, rows, history
  <1>2. CASE Pause(w)
    <2>1. worker[w] \in [pc : {"pause", "write"}, batch : SUBSET Keys, key : Keys,
                         outcome : Outcomes]
      BY <1>2 DEF Pause, At, TypeOK, WorkerRec, Idle
    <2>2. PICK batch \in {worker[w].batch, {}} :
            worker' = [worker EXCEPT ![w].pc = "write", ![w].batch = batch]
      BY <1>2 DEF Pause
    <2>3. worker' = [worker EXCEPT ![w] = [worker[w] EXCEPT !.pc = "write", !.batch = batch]]
      BY <2>2 DEF TypeOK
    <2>4. [worker[w] EXCEPT !.pc = "write", !.batch = batch] \in WorkerRec
      BY <2>1, <2>2 DEF WorkerRec
    <2>5. worker' \in [Workers -> WorkerRec]
      BY <2>3, <2>4 DEF TypeOK
    <2>6. QED
      BY <1>2, <2>5 DEF Pause, TypeOK, CampaignStatus, history
  <1>3. CASE WriteRecipient(w)
    <2>1. Busy(w) /\ worker[w].outcome \in Outcomes
      BY <1>3 DEF WriteRecipient, At, Busy, TypeOK, WorkerRec, Idle
    <2>2. Contact(w) \in Recipients /\ Key(w)[2] \in Attempts
      BY <2>1, BusyWorker
    <2>3. recipient[Contact(w)] \in RecipientRec
      BY <2>2 DEF TypeOK
    <2>4. Written(recipient[Contact(w)], worker[w].outcome, Key(w)[2]) \in RecipientRec
      BY <2>1, <2>2, <2>3, WrittenTyped
    <2>5. recipient' \in [Recipients -> RecipientRec]
      BY <1>3, <2>4 DEF WriteRecipient, TypeOK
    <2>6. worker' \in [Workers -> WorkerRec]
      BY <1>3, <2>1, LoopMoves DEF WriteRecipient
    <2>7. QED
      BY <1>3, <2>5, <2>6 DEF WriteRecipient, TypeOK, history
  <1>4. CASE Throws(w)
    <2>1. worker' \in [Workers -> WorkerRec]
      BY <1>4, WriteMoves DEF Throws, Outcomes
    <2>2. slot' \in [Recipients -> Workers \cup {None}]
      BY <1>4, ReleasedTyped DEF Throws, TypeOK
    <2>3. QED
      BY <1>4, <2>1, <2>2 DEF Throws, TypeOK, history
  <1>5. QED
    BY <1>1, <1>2, <1>3, <1>4

LEMMA SendTypes ==
  ASSUME CampaignRunnerAssumption, TypeOK, NEW w \in Workers, send(w)
  PROVE  TypeOK'
  <1>0. Busy(w) /\ worker[w].pc \in Steps
    BY DEF send, Lookup, QuotaExceeded, CreateMessage, LinkMessage, Refused, Unavailable,
           HandOver, Answered, NoAnswer, At, Busy, Steps
  <1>1. Key(w) \in Keys /\ Contact(w) \in Recipients /\ Key(w)[2] \in Attempts
    BY <1>0, BusyWorker
  <1>2. worker' \in [Workers -> WorkerRec]
    <2>1. CASE Lookup(w)
      BY <1>0, <2>1, GotoMoves, OutcomeMoves, WriteMoves, OutcomesTyped DEF Lookup, Steps, Outcomes
    <2>2. CASE QuotaExceeded(w) \/ Unavailable(w)
      BY <1>0, <2>2, OutcomeMoves DEF QuotaExceeded, Unavailable, Outcomes
    <2>3. CASE CreateMessage(w) \/ LinkMessage(w) \/ HandOver(w)
      BY <1>0, <2>3, GotoMoves, WriteMoves DEF CreateMessage, LinkMessage, HandOver, Steps, Outcomes
    <2>4. CASE Refused(w) \/ NoAnswer(w)
      BY <1>0, <2>4, WriteMoves DEF Refused, NoAnswer, Outcomes
    <2>5. CASE Answered(w)
      BY <1>0, <2>5, WriteMoves, OutcomesTyped DEF Answered
    <2>6. QED
      BY <2>1, <2>2, <2>3, <2>4, <2>5 DEF send
  <1>3. slot' \in [Recipients -> Workers \cup {None}]
    BY <1>1, ReleasedTyped DEF send, Lookup, QuotaExceeded, CreateMessage, LinkMessage, Refused,
       Unavailable, HandOver, Answered, NoAnswer, rows, TypeOK
  <1>4. message' \in [Keys -> MessageStatus]
    BY <1>1 DEF send, Lookup, QuotaExceeded, CreateMessage, LinkMessage, Refused,
       Unavailable, HandOver, Answered, NoAnswer, AnswerStatus, rows, TypeOK, MessageStatus
  <1>5. recipient' \in [Recipients -> RecipientRec]
    <2>1. \A x \in Attempts \cup {None} :
            [recipient[Contact(w)] EXCEPT !.message = x] \in RecipientRec
      BY <1>1 DEF TypeOK, RecipientRec
    <2>2. recipient[Contact(w)].message \in Attempts \cup {None}
      BY <1>1 DEF TypeOK, RecipientRec
    <2>3. CASE LinkMessage(w) \/ Unavailable(w)
      <3>1. PICK x \in Attempts \cup {None} :
              recipient' = [recipient EXCEPT ![Contact(w)].message = x]
        BY <1>1, <2>2, <2>3 DEF LinkMessage, Unavailable, TypeOK
      <3>2. recipient' = [recipient EXCEPT ![Contact(w)] =
                             [recipient[Contact(w)] EXCEPT !.message = x]]
        BY <3>1 DEF TypeOK
      <3>3. QED
        BY <2>1, <3>2 DEF TypeOK
    <2>4. CASE UNCHANGED recipient
      BY <2>4 DEF TypeOK
    <2>5. QED
      BY <2>3, <2>4 DEF send, Lookup, QuotaExceeded, CreateMessage, Refused, HandOver, Answered,
         NoAnswer, rows
  <1>6. handed' \in [Keys -> Nat] /\ delivered' \subseteq Keys
    BY <1>1 DEF send, Lookup, QuotaExceeded, CreateMessage, LinkMessage, Refused,
       Unavailable, HandOver, Answered, NoAnswer, history, TypeOK
  <1>7. UNCHANGED <<campaign, retry, attested>>
    BY DEF send, Lookup, QuotaExceeded, CreateMessage, LinkMessage, Refused,
       Unavailable, HandOver, Answered, NoAnswer, history, rows
  <1>8. QED
    BY <1>2, <1>3, <1>4, <1>5, <1>6, <1>7 DEF TypeOK

LEMMA OutsideTypes ==
  ASSUME CampaignRunnerAssumption, TypeOK,
         \/ StartScheduled \/ PausePackage \/ changeCampaignStatus \/ cancel \/ retryRecipient
         \/ \E r \in Recipients :
               MarkStuck(r) \/ BackoffEnds(r) \/ WindowEnds(r) \/ stopPendingMarketing(r)
  PROVE  TypeOK'
  <1>1. CASE StartScheduled \/ PausePackage \/ changeCampaignStatus
    <2>1. campaign' \in [status : CampaignStatus, whatsapp : BOOLEAN, marketing : BOOLEAN]
      BY <1>1, SetStatusTyped DEF StartScheduled, PausePackage, changeCampaignStatus, start,
         unschedule, pause, resume, CampaignStatus
    <2>2. QED
      BY <1>1, <2>1 DEF StartScheduled, PausePackage, changeCampaignStatus, TypeOK, history
  <1>2. CASE cancel
    <2>1. campaign' \in [status : CampaignStatus, whatsapp : BOOLEAN, marketing : BOOLEAN]
      BY <1>2, SetStatusTyped DEF cancel, CampaignStatus
    <2>2. QED
      BY <1>2, <2>1, SkipTyped, CancelTyped DEF cancel, TypeOK, history
  <1>3. CASE retryRecipient
    <2>1. CASE WriteRetry
      <3>1. retry \in RetryRec
        BY <2>1 DEF WriteRetry, TypeOK
      <3>2. retry.recipient \in Recipients /\ retry.attempts + 1 \in 0 .. MaxAttempts + 1
        BY <3>1 DEF RetryRec, CampaignRunnerAssumption
      <3>3. [recipient[retry.recipient] EXCEPT !.status = "QUEUED",
               !.attempts = retry.attempts + 1, !.due = TRUE] \in RecipientRec
        <4>1. recipient[retry.recipient] \in RecipientRec
          BY <3>2 DEF TypeOK
        <4>2. QED
          BY <3>2, <4>1 DEF RecipientRec
      <3>4. recipient' \in [Recipients -> RecipientRec]
        BY <2>1, <3>3 DEF WriteRetry, TypeOK
      <3>5. QED
        BY <2>1, <3>4 DEF WriteRetry, TypeOK, CampaignStatus, history
    <2>2. ASSUME NEW r \in Recipients, ReadRetry(r) PROVE TypeOK'
      <3>1. recipient[r].attempts \in 0 .. MaxAttempts
        BY <2>2 DEF ReadRetry, TypeOK, RecipientRec, CampaignRunnerAssumption
      <3>2. retry' \in RetryRec /\ attested' \in [Recipients -> Nat]
        BY <2>2, <3>1 DEF ReadRetry, RetryRec, TypeOK
      <3>3. QED
        BY <2>2, <3>2 DEF ReadRetry, TypeOK, rows
    <2>3. QED
      BY <1>3, <2>1, <2>2 DEF retryRecipient
  <1>4. ASSUME NEW r \in Recipients,
               MarkStuck(r) \/ BackoffEnds(r) \/ WindowEnds(r) \/ stopPendingMarketing(r)
        PROVE  TypeOK'
    <2>1. CASE MarkStuck(r)
      BY <2>1, StatusTyped DEF MarkStuck, Stuck, TypeOK, history
    <2>2. CASE BackoffEnds(r)
      <3>1. recipient[r] \in RecipientRec
        BY DEF TypeOK
      <3>2. [recipient[r] EXCEPT !.due = TRUE] \in RecipientRec
        BY <3>1 DEF RecipientRec
      <3>3. QED
        BY <2>2, <3>2 DEF BackoffEnds, TypeOK, history
    <2>3. CASE WindowEnds(r)
      BY <2>3 DEF WindowEnds, TypeOK, history
    <2>4. CASE stopPendingMarketing(r)
      BY <2>4, SkipTyped, CancelTyped DEF stopPendingMarketing, TypeOK, history
    <2>5. QED
      BY <1>4, <2>1, <2>2, <2>3, <2>4
  <1>5. QED
    BY <1>1, <1>2, <1>3, <1>4

LEMMA TypeStep == ASSUME CampaignRunnerAssumption, TypeOK, [Next]_vars PROVE TypeOK'
  <1>1. CASE UNCHANGED vars
    BY <1>1 DEF vars, rows, history, TypeOK
  <1>2. CASE Next
    BY <1>2, RunTypes, HandleTypes, SendTypes, OutsideTypes
       DEF Next, processDueCampaigns, handle
  <1>3. QED
    BY <1>1, <1>2

-----------------------------------------------------------------------------
(* Ownership.  A step that creates no owner, hands nothing over and leaves  *)
(* the owned rows as they are keeps the invariant; each action is such a    *)
(* step except the four that create, hand over, answer or remove.           *)
LEMMA QuietStep ==
  ASSUME KeyInv,
         \A k \in Keys, v \in Workers : Owns(v, k)' => Owns(v, k),
         \A k \in Keys, v \in Workers :
             Owns(v, k) => (worker[v].pc = "answer" <=> worker'[v].pc = "answer") \/ ~Owns(v, k)',
         \A k \in Keys : message'[k] = message[k] \/ (message[k] = "QUEUED" /\ message'[k] = "CANCELLED"),
         UNCHANGED handed
  PROVE  KeyInv'
  BY DEF KeyInv, OneOwner, OwnedIsQueued, UnhandedBefore, FreeIsUnhanded, KeyHandedOnce

LEMMA SameWorkers ==
  ASSUME KeyInv, UNCHANGED worker, UNCHANGED handed,
         \A k \in Keys : message'[k] = message[k] \/ (message[k] = "QUEUED" /\ message'[k] = "CANCELLED")
  PROVE  KeyInv'
  BY QuietStep DEF Owns

LEMMA OneMoves ==
  ASSUME KeyInv, UNCHANGED handed, NEW w \in Workers,
         \A k \in Keys : message'[k] = message[k] \/ (message[k] = "QUEUED" /\ message'[k] = "CANCELLED"),
         \A v \in Workers \ {w} : worker'[v] = worker[v],
         worker'[w].pc \notin OwnerSteps
  PROVE  KeyInv'
  BY QuietStep DEF Owns

LEMMA CancelKeeps ==
  ASSUME TypeOK, NEW set, CancelQueued(set)
  PROVE  \A k \in Keys :
            message'[k] = message[k] \/ (message[k] = "QUEUED" /\ message'[k] = "CANCELLED")
  BY DEF CancelQueued, TypeOK

(* An owner gives up its key: it writes the row's last status, or, having   *)
(* handed nothing over, removes the row.                                    *)
LEMMA OwnerLeaves ==
  ASSUME TypeOK, KeyInv, UNCHANGED handed, NEW w \in Workers, Owns(w, Key(w)), Key(w) \in Keys,
         NEW status \in MessageStatus, message' = [message EXCEPT ![Key(w)] = status],
         status = "none" => worker[w].pc # "answer",
         \A v \in Workers \ {w} : worker'[v] = worker[v],
         worker'[w].pc \notin OwnerSteps
  PROVE  KeyInv'
  <1>1. \A k \in Keys : k # Key(w) => message'[k] = message[k]
    BY DEF TypeOK
  <1>2. message'[Key(w)] = status
    BY DEF TypeOK
  <1>3. ASSUME NEW k \in Keys, NEW v \in Workers, Owns(v, k)'
        PROVE  Owns(v, k) /\ worker'[v] = worker[v] /\ k # Key(w)
    <2>1. v # w /\ worker'[v] = worker[v]
      BY <1>3 DEF Owns
    <2>2. Owns(v, k)
      BY <1>3, <2>1 DEF Owns
    <2>3. QED
      BY <2>1, <2>2 DEF KeyInv, OneOwner
  <1>4. \A k \in Keys, v \in Workers :
           Owns(v, k)' => Owns(v, k) /\ worker'[v] = worker[v] /\ k # Key(w)
    BY <1>3
  <1>5. OneOwner' /\ KeyHandedOnce'
    BY <1>4 DEF KeyInv, OneOwner, KeyHandedOnce
  <1>6. OwnedIsQueued' /\ UnhandedBefore'
    BY <1>1, <1>4 DEF KeyInv, OwnedIsQueued, UnhandedBefore
  <1>7. status = "none" => handed[Key(w)] = 0
    BY DEF KeyInv, UnhandedBefore
  <1>8. FreeIsUnhanded'
    BY <1>1, <1>2, <1>7 DEF KeyInv, FreeIsUnhanded
  <1>9. QED
    BY <1>5, <1>6, <1>8 DEF KeyInv

LEMMA KeyStepOfSend ==
  ASSUME CampaignRunnerAssumption, TypeOK, KeyInv, NEW w \in Workers, send(w)
  PROVE  KeyInv'
  <1>0. Busy(w) /\ worker[w].pc \in Steps
    BY DEF send, Lookup, QuotaExceeded, CreateMessage, LinkMessage, Refused, Unavailable,
           HandOver, Answered, NoAnswer, At, Busy, Steps
  <1>1. Key(w) \in Keys
    BY <1>0, BusyWorker
  <1>2. CASE Lookup(w)
    <2>1. /\ worker'[w].pc \notin OwnerSteps
          /\ \A v \in Workers \ {w} : worker'[v] = worker[v]
      BY <1>0, <1>2, GotoMoves, OutcomeMoves, WriteMoves, OutcomesTyped
         DEF Lookup, Steps, OwnerSteps, Outcomes
    <2>2. QED
      BY <1>2, <2>1, OneMoves DEF Lookup, history
  <1>3. CASE QuotaExceeded(w)
    <2>1. /\ worker'[w].pc \notin OwnerSteps
          /\ \A v \in Workers \ {w} : worker'[v] = worker[v]
      BY <1>0, <1>3, OutcomeMoves DEF QuotaExceeded, OwnerSteps, Outcomes
    <2>2. QED
      BY <1>3, <2>1, OneMoves DEF QuotaExceeded, history
  <1>4. CASE CreateMessage(w) /\ KeyFree(Key(w))
    <2>1. /\ worker'[w].pc = "link" /\ worker'[w].key = Key(w)
          /\ \A v \in Workers \ {w} : worker'[v] = worker[v]
      BY <1>0, <1>4, GotoMoves DEF CreateMessage, Steps, Key
    <2>2. /\ message'[Key(w)] = "QUEUED"
          /\ \A k \in Keys : k # Key(w) => message'[k] = message[k]
          /\ UNCHANGED handed
      BY <1>1, <1>4 DEF CreateMessage, TypeOK, history
    <2>3. handed[Key(w)] = 0 /\ \A v \in Workers : ~Owns(v, Key(w))
      BY <1>1, <1>4 DEF KeyFree, KeyInv, FreeIsUnhanded, OwnedIsQueued
    <2>4. \A k \in Keys, v \in Workers \ {w} : Owns(v, k)' <=> Owns(v, k)
      BY <2>1 DEF Owns
    <2>5. \A k \in Keys : Owns(w, k)' <=> k = Key(w)
      BY <2>1 DEF Owns, OwnerSteps
    <2>6. OneOwner'
      BY <2>3, <2>4, <2>5 DEF KeyInv, OneOwner
    <2>7. OwnedIsQueued' /\ UnhandedBefore'
      BY <2>1, <2>2, <2>3, <2>4, <2>5 DEF KeyInv, OwnedIsQueued, UnhandedBefore
    <2>8. FreeIsUnhanded' /\ KeyHandedOnce'
      BY <2>2 DEF KeyInv, FreeIsUnhanded, KeyHandedOnce
    <2>9. QED
      BY <2>6, <2>7, <2>8 DEF KeyInv
  <1>5. CASE CreateMessage(w) /\ ~KeyFree(Key(w))
    <2>1. /\ worker'[w].pc \notin OwnerSteps
          /\ \A v \in Workers \ {w} : worker'[v] = worker[v]
      BY <1>0, <1>5, WriteMoves DEF CreateMessage, OwnerSteps, Outcomes
    <2>2. QED
      BY <1>5, <2>1, OneMoves DEF CreateMessage, history
  <1>6. CASE LinkMessage(w)
    <2>1. /\ worker'[w].pc = "check" /\ worker'[w].key = worker[w].key
          /\ \A v \in Workers \ {w} : worker'[v] = worker[v]
      BY <1>0, <1>6, GotoMoves DEF LinkMessage, Steps
    <2>2. QED
      BY <1>6, <2>1, QuietStep DEF LinkMessage, At, Owns, OwnerSteps, history
  <1>7. CASE Refused(w)
    <2>1. /\ worker'[w].pc \notin OwnerSteps
          /\ \A v \in Workers \ {w} : worker'[v] = worker[v]
      BY <1>0, <1>7, WriteMoves DEF Refused, OwnerSteps, Outcomes
    <2>2. PICK status \in {"FAILED", "CANCELLED"} :
             message' = [message EXCEPT ![Key(w)] = status]
      BY <1>7 DEF Refused
    <2>3. status \in MessageStatus /\ status # "none"
      BY <2>2 DEF MessageStatus
    <2>4. Owns(w, Key(w)) /\ UNCHANGED handed
      BY <1>7 DEF Refused, At, Owns, OwnerSteps, Key, history
    <2>5. QED
      BY <1>1, <2>1, <2>2, <2>3, <2>4, OwnerLeaves
  <1>8. CASE Unavailable(w)
    <2>1. /\ worker'[w].pc \notin OwnerSteps
          /\ \A v \in Workers \ {w} : worker'[v] = worker[v]
      BY <1>0, <1>8, OutcomeMoves DEF Unavailable, OwnerSteps, Outcomes
    <2>2. /\ "none" \in MessageStatus /\ worker[w].pc # "answer"
          /\ message' = [message EXCEPT ![Key(w)] = "none"]
          /\ Owns(w, Key(w)) /\ UNCHANGED handed
      BY <1>8 DEF Unavailable, At, Owns, OwnerSteps, Key, history, MessageStatus
    <2>3. QED
      BY <1>1, <2>1, <2>2, OwnerLeaves
  <1>9. CASE HandOver(w)
    <2>1. /\ worker'[w].pc = "answer" /\ worker'[w].key = worker[w].key
          /\ \A v \in Workers \ {w} : worker'[v] = worker[v]
      BY <1>0, <1>9, GotoMoves DEF HandOver, Steps
    <2>2. Owns(w, Key(w)) /\ worker[w].pc # "answer" /\ UNCHANGED message
      BY <1>9 DEF HandOver, At, Owns, OwnerSteps, Key, rows
    <2>3. handed[Key(w)] = 0 /\ message[Key(w)] # "none"
      BY <1>1, <2>2 DEF KeyInv, UnhandedBefore, OwnedIsQueued
    <2>4. /\ handed'[Key(w)] = 1
          /\ \A k \in Keys : k # Key(w) => handed'[k] = handed[k]
      BY <1>1, <1>9, <2>3 DEF HandOver, TypeOK
    <2>5. \A k \in Keys, v \in Workers : Owns(v, k)' <=> Owns(v, k)
      BY <2>1, <2>2 DEF Owns, OwnerSteps
    <2>6. \A v \in Workers : Owns(v, Key(w)) => v = w
      BY <1>1, <2>2 DEF KeyInv, OneOwner
    <2>7. OneOwner' /\ OwnedIsQueued'
      BY <2>2, <2>5 DEF KeyInv, OneOwner, OwnedIsQueued
    <2>8. UnhandedBefore'
      BY <2>1, <2>4, <2>5, <2>6 DEF KeyInv, UnhandedBefore
    <2>9. FreeIsUnhanded' /\ KeyHandedOnce'
      BY <2>2, <2>3, <2>4 DEF KeyInv, FreeIsUnhanded, KeyHandedOnce
    <2>10. QED
      BY <2>7, <2>8, <2>9 DEF KeyInv
  <1>10. CASE Answered(w)
    <2>1. PICK status \in AnswerStatus(Key(w)) :
            /\ message' = [message EXCEPT ![Key(w)] = status]
            /\ GotoWrite(w, OutcomeOf(status, Key(w)[2]))
      BY <1>10 DEF Answered
    <2>2. status \in MessageStatus /\ status # "none"
      BY <2>1 DEF AnswerStatus, MessageStatus
    <2>3. /\ worker'[w].pc \notin OwnerSteps
          /\ \A v \in Workers \ {w} : worker'[v] = worker[v]
      BY <1>0, <2>1, WriteMoves, OutcomesTyped DEF OwnerSteps
    <2>4. Owns(w, Key(w)) /\ UNCHANGED handed
      BY <1>10 DEF Answered, At, Owns, OwnerSteps, Key, history
    <2>5. QED
      BY <1>1, <2>1, <2>2, <2>3, <2>4, OwnerLeaves
  <1>11. CASE NoAnswer(w)
    <2>1. /\ worker'[w].pc \notin OwnerSteps
          /\ \A v \in Workers \ {w} : worker'[v] = worker[v]
      BY <1>0, <1>11, WriteMoves DEF NoAnswer, OwnerSteps, Outcomes
    <2>2. /\ "UNKNOWN" \in MessageStatus /\ message' = [message EXCEPT ![Key(w)] = "UNKNOWN"]
          /\ Owns(w, Key(w)) /\ UNCHANGED handed
      BY <1>11 DEF NoAnswer, At, Owns, OwnerSteps, Key, history, MessageStatus
    <2>3. QED
      BY <1>1, <2>1, <2>2, OwnerLeaves
  <1>12. QED
    BY <1>2, <1>3, <1>4, <1>5, <1>6, <1>7, <1>8, <1>9, <1>10, <1>11 DEF send

LEMMA KeyStepOfRun ==
  ASSUME CampaignRunnerAssumption, TypeOK, KeyInv, NEW w \in Workers,
         \/ Scan(w) \/ Claim(w) \/ Finish(w) \/ WorkerDies(w)
         \/ ReadCampaign(w) \/ Pause(w) \/ WriteRecipient(w) \/ Throws(w)
  PROVE  KeyInv'
  <1>1. UNCHANGED <<message, handed>>
    BY DEF Scan, Claim, Finish, WorkerDies, ReadCampaign, Pause, WriteRecipient, Throws,
           rows, history
  <1>2. \A v \in Workers \ {w} : worker'[v] = worker[v]
    BY DEF Scan, Claim, Finish, WorkerDies, ReadCampaign, Pause, WriteRecipient, Throws,
           Goto, GotoOutcome, GotoWrite, BackToLoop, TypeOK
  <1>3. worker'[w].pc \notin OwnerSteps
    <2>1. CASE Scan(w) \/ Finish(w) \/ WorkerDies(w)
      BY <2>1 DEF Scan, Finish, WorkerDies, Idle, OwnerSteps, TypeOK
    <2>2. CASE Claim(w)
      <3>1. worker[w] \in [pc : {"loop"}, batch : SUBSET Keys]
        BY <2>2 DEF Claim, At, TypeOK, WorkerRec, Idle
      <3>2. worker'[w].pc \in {"loop", "claimed"}
        BY <2>2, <3>1 DEF Claim, TypeOK
      <3>3. QED
        BY <3>2 DEF OwnerSteps
    <2>3. CASE ReadCampaign(w)
      <3>1. Busy(w) /\ worker[w].pc \in Steps
        BY <2>3 DEF ReadCampaign, At, Busy, Steps
      <3>2. QED
        BY <2>3, <3>1, GotoMoves, OutcomeMoves, WriteMoves
           DEF ReadCampaign, Steps, OwnerSteps, Outcomes
    <2>4. CASE Pause(w)
      <3>1. worker[w] \in [pc : {"pause", "write"}, batch : SUBSET Keys, key : Keys,
                           outcome : Outcomes]
        BY <2>4 DEF Pause, At, TypeOK, WorkerRec, Idle
      <3>2. worker'[w].pc = "write"
        BY <2>4, <3>1 DEF Pause, TypeOK
      <3>3. QED
        BY <3>2 DEF OwnerSteps
    <2>5. CASE WriteRecipient(w)
      BY <2>5, LoopMoves DEF WriteRecipient, At, Busy, OwnerSteps
    <2>6. CASE Throws(w)
      BY <2>6, WriteMoves DEF Throws, OwnerSteps, Outcomes
    <2>7. QED
      BY <2>1, <2>2, <2>3, <2>4, <2>5, <2>6
  <1>4. QED
    BY <1>1, <1>2, <1>3, OneMoves

LEMMA KeyStepOutside ==
  ASSUME TypeOK, KeyInv,
         \/ StartScheduled \/ PausePackage \/ changeCampaignStatus \/ cancel \/ retryRecipient
         \/ \E r \in Recipients :
               MarkStuck(r) \/ BackoffEnds(r) \/ WindowEnds(r) \/ stopPendingMarketing(r)
  PROVE  KeyInv'
  <1>1. UNCHANGED <<worker, handed>>
    BY DEF StartScheduled, PausePackage, changeCampaignStatus, cancel, retryRecipient, ReadRetry,
           WriteRetry, MarkStuck, BackoffEnds, WindowEnds, stopPendingMarketing, history
  <1>2. UNCHANGED message \/ \E set : CancelQueued(set)
    BY DEF StartScheduled, PausePackage, changeCampaignStatus, cancel, retryRecipient, ReadRetry,
           WriteRetry, MarkStuck, BackoffEnds, WindowEnds, stopPendingMarketing, rows
  <1>3. QED
    BY <1>1, <1>2, CancelKeeps, SameWorkers

LEMMA KeyStep ==
  ASSUME CampaignRunnerAssumption, TypeOK, KeyInv, [Next]_vars PROVE KeyInv'
  <1>1. CASE UNCHANGED vars
    BY <1>1, SameWorkers DEF vars, rows, history
  <1>2. CASE Next
    BY <1>2, KeyStepOfSend, KeyStepOfRun, KeyStepOutside DEF Next, processDueCampaigns, handle
  <1>3. QED
    BY <1>1, <1>2

(* The rows of a step that touches an accepted message: there is none.      *)
LEMMA AcceptedStep ==
  ASSUME CampaignRunnerAssumption, TypeOK, KeyInv, [Next]_vars, NEW k \in Keys,
         message[k] = "ACCEPTED"
  PROVE  message'[k] = "ACCEPTED"
  <1>1. ASSUME NEW w \in Workers, send(w) PROVE message'[k] = "ACCEPTED"
    <2>1. CASE UNCHANGED message
      BY <2>1
    <2>2. CASE CreateMessage(w) /\ KeyFree(Key(w))
      BY <2>2 DEF CreateMessage, KeyFree, TypeOK
    <2>3. CASE Refused(w) \/ Unavailable(w) \/ Answered(w) \/ NoAnswer(w)
      <3>1. Owns(w, Key(w)) /\ Busy(w)
        BY <2>3 DEF Refused, Unavailable, Answered, NoAnswer, At, Owns, OwnerSteps, Key, Busy
      <3>2. k # Key(w)
        BY <3>1, BusyWorker DEF KeyInv, OwnedIsQueued
      <3>3. QED
        BY <2>3, <3>2 DEF Refused, Unavailable, Answered, NoAnswer, TypeOK
    <2>4. QED
      BY <1>1, <2>1, <2>2, <2>3 DEF send, Lookup, QuotaExceeded, CreateMessage, LinkMessage,
         HandOver, rows
  <1>2. CASE \E set : CancelQueued(set)
    BY <1>2 DEF CancelQueued, TypeOK
  <1>3. CASE UNCHANGED message
    BY <1>3
  <1>4. QED
    BY <1>1, <1>2, <1>3 DEF Next, processDueCampaigns, handle, Scan, Claim, Finish, ReadCampaign,
       Pause, WriteRecipient, Throws, WorkerDies, StartScheduled, PausePackage, MarkStuck,
       BackoffEnds, WindowEnds, stopPendingMarketing, changeCampaignStatus, cancel,
       retryRecipient, ReadRetry, WriteRetry, rows, vars

(* A recipient comes into a worker's hands only while the campaign runs.    *)
LEMMA QuietInit == ASSUME Init PROVE CompletedIsQuiet
  BY DEF Init, CompletedIsQuiet

LEMMA TakenWhileRunning ==
  ASSUME CampaignRunnerAssumption, TypeOK, [Next]_vars, NEW r \in Recipients,
         recipient'[r].status = "PROCESSING"
  PROVE  recipient[r].status = "PROCESSING" \/ campaign'.status = "RUNNING"
  <1>1. CASE UNCHANGED recipient
    BY <1>1
  <1>2. ASSUME NEW w \in Workers, Claim(w)
        PROVE  recipient[r].status = "PROCESSING" \/ campaign'.status = "RUNNING"
    BY <1>2 DEF Claim, Claimable
  <1>3. ASSUME NEW w \in Workers, WriteRecipient(w) PROVE recipient[r].status = "PROCESSING"
    <2>1. Busy(w) /\ worker[w].outcome \in Outcomes
      BY <1>3 DEF WriteRecipient, At, Busy, TypeOK, WorkerRec, Idle
    <2>2. Contact(w) \in Recipients /\ recipient[Contact(w)] \in RecipientRec
      BY <2>1, BusyWorker DEF TypeOK
    <2>3. Written(recipient[Contact(w)], worker[w].outcome, Key(w)[2]).status # "PROCESSING"
      BY <2>1, <2>2 DEF Written, Outcomes, RecipientRec
    <2>4. QED
      BY <1>3, <2>2, <2>3 DEF WriteRecipient, TypeOK
  <1>4. ASSUME NEW w \in Workers, LinkMessage(w) \/ Unavailable(w)
        PROVE  recipient[r].status = "PROCESSING"
    <2>1. recipient[r] \in RecipientRec
      BY DEF TypeOK
    <2>2. recipient'[r].status = recipient[r].status
      BY <1>4, <2>1 DEF LinkMessage, Unavailable, TypeOK, RecipientRec
    <2>3. QED
      BY <2>2
  <1>5. ASSUME NEW q \in Recipients, MarkStuck(q) \/ BackoffEnds(q)
        PROVE  recipient[r].status = "PROCESSING"
    <2>1. recipient[r] \in RecipientRec
      BY DEF TypeOK
    <2>2. QED
      BY <1>5, <2>1 DEF MarkStuck, Stuck, BackoffEnds, TypeOK, RecipientRec
  <1>6. CASE \E set : SkipQueued(set)
    BY <1>6, StatusTyped DEF SkipQueued, RecipientRec
  <1>7. CASE WriteRetry
    <2>1. recipient[r] \in RecipientRec
      BY DEF TypeOK
    <2>2. QED
      BY <1>7, <2>1 DEF WriteRetry, TypeOK, RecipientRec
  <1>8. QED
    BY <1>1, <1>2, <1>3, <1>4, <1>5, <1>6, <1>7 DEF Next, processDueCampaigns, handle, send, Scan,
       Finish, ReadCampaign, Pause, Lookup, QuotaExceeded, CreateMessage, Refused, HandOver,
       Answered, NoAnswer, Throws, WorkerDies, StartScheduled, PausePackage, WindowEnds,
       stopPendingMarketing, changeCampaignStatus, cancel, retryRecipient, ReadRetry, rows, vars

LEMMA CompletedWhenDone ==
  ASSUME CampaignRunnerAssumption, TypeOK, [Next]_vars, campaign'.status = "COMPLETED"
  PROVE  campaign.status = "COMPLETED" \/ (NothingLeft /\ UNCHANGED recipient)
  <1>1. CASE UNCHANGED campaign
    BY <1>1
  <1>2. ASSUME NEW w \in Workers, Finish(w) \/ Pause(w)
        PROVE  campaign.status = "COMPLETED" \/ (NothingLeft /\ UNCHANGED recipient)
    BY <1>2 DEF Finish, Pause, TypeOK
  <1>3. CASE \E from : \E to \in CampaignStatus \ {"COMPLETED"} : SetStatus(from, to)
    BY <1>3 DEF SetStatus, TypeOK
  <1>4. CASE WriteRetry
    BY <1>4 DEF WriteRetry, TypeOK
  <1>5. StartScheduled \/ PausePackage \/ changeCampaignStatus \/ cancel =>
           \E from : \E to \in CampaignStatus \ {"COMPLETED"} : SetStatus(from, to)
    BY DEF StartScheduled, PausePackage, changeCampaignStatus, cancel, start, unschedule, pause,
       resume, CampaignStatus
  <1>6. QED
    BY <1>1, <1>2, <1>3, <1>4, <1>5 DEF Next, processDueCampaigns, handle, send, Scan, Claim,
       ReadCampaign, Lookup, QuotaExceeded, CreateMessage, LinkMessage, Refused, Unavailable,
       HandOver, Answered, NoAnswer, WriteRecipient, Throws, WorkerDies, MarkStuck, BackoffEnds,
       WindowEnds, stopPendingMarketing, retryRecipient, ReadRetry, rows, vars

LEMMA QuietStatus ==
  ASSUME CampaignRunnerAssumption, TypeOK, CompletedIsQuiet, [Next]_vars
  PROVE  CompletedIsQuiet'
  <1> SUFFICES ASSUME campaign'.status = "COMPLETED", NEW r \in Recipients,
                      recipient'[r].status = "PROCESSING"
               PROVE  FALSE
    BY DEF CompletedIsQuiet
  <1>1. recipient[r].status = "PROCESSING"
    BY TakenWhileRunning
  <1>2. CASE campaign.status = "COMPLETED"
    BY <1>1, <1>2 DEF CompletedIsQuiet
  <1>3. CASE NothingLeft
    BY <1>1, <1>3 DEF NothingLeft
  <1>4. QED
    BY <1>2, <1>3, CompletedWhenDone

-----------------------------------------------------------------------------
(* One holder.  A run of a worker that claims nothing and writes nothing    *)
(* leaves every recipient's status and its own recipient as they are.       *)
LEMMA HoldInit == ASSUME Init PROVE HoldInv
  BY DEF Init, HoldInv, OneHolder, HeldIsProcessing, RetryWaits, Busy, Idle

LEMMA SameStatus ==
  ASSUME TypeOK, NEW w \in Workers, send(w), NEW r \in Recipients
  PROVE  recipient'[r].status = recipient[r].status
  <1>1. recipient[r] \in RecipientRec
    BY DEF TypeOK
  <1>2. CASE LinkMessage(w) \/ Unavailable(w)
    <2>1. PICK x : recipient' = [recipient EXCEPT ![Contact(w)].message = x]
      BY <1>2 DEF LinkMessage, Unavailable
    <2>2. recipient' = [recipient EXCEPT ![Contact(w)] =
                           [recipient[Contact(w)] EXCEPT !.message = x]]
      BY <2>1 DEF TypeOK
    <2>3. QED
      BY <1>1, <2>2 DEF TypeOK, RecipientRec
  <1>3. QED
    BY <1>2 DEF send, Lookup, QuotaExceeded, CreateMessage, Refused, HandOver, Answered,
       NoAnswer, rows

LEMMA OnlyThisWorker ==
  ASSUME TypeOK, NEW w \in Workers, processDueCampaigns(w) \/ Throws(w) \/ WorkerDies(w)
  PROVE  \A v \in Workers \ {w} : worker'[v] = worker[v]
  BY DEF processDueCampaigns, handle, send, Scan, Claim, Finish, WorkerDies, ReadCampaign, Pause,
     WriteRecipient, Throws, Lookup, QuotaExceeded, CreateMessage, LinkMessage, Refused,
     Unavailable, HandOver, Answered, NoAnswer, Goto, GotoOutcome, GotoWrite, BackToLoop, TypeOK

(* What a worker concludes from what it has seen.                           *)
LEMMA SentOnlyIf ==
  ASSUME CampaignRunnerAssumption, NEW status \in MessageStatus \ {"none"}, NEW attempt \in Attempts
  PROVE  /\ status \in {"FAILED", "TRANSIENT"} =>
               OutcomeOf(status, attempt) \in {"failed", "retry"}
         /\ status = "ACCEPTED" => OutcomeOf(status, attempt) = "sent"
         /\ OutcomeOfExisting(status, attempt) = "sent" =>
               status = "ACCEPTED" \/ (status = "CANCELLED" /\ campaign.whatsapp)
  <1>1. attempt + 1 < MaxAuto \/ attempt + 1 >= MaxAuto
    BY DEF Attempts, CampaignRunnerAssumption
  <1>2. QED
    BY <1>1 DEF OutcomeOf, OutcomeOfExisting, MessageStatus

(* The worker stays where it is or goes on with the recipient it holds.     *)
LEMMA HoldsOn ==
  ASSUME CampaignRunnerAssumption, TypeOK, NEW w \in Workers,
         \/ Scan(w) \/ Finish(w) \/ WorkerDies(w) \/ ReadCampaign(w) \/ Pause(w)
         \/ WriteRecipient(w) \/ Throws(w) \/ send(w),
         Busy(w)'
  PROVE  Busy(w) /\ worker'[w].key = worker[w].key
  <1>1. CASE Scan(w) \/ Finish(w) \/ WorkerDies(w)
    BY <1>1 DEF Scan, Finish, WorkerDies, Busy, Idle, TypeOK
  <1>2. CASE ReadCampaign(w)
    <2>1. Busy(w) /\ worker[w].pc \in Steps
      BY <1>2 DEF ReadCampaign, At, Busy, Steps
    <2>2. QED
      BY <1>2, <2>1, GotoMoves, OutcomeMoves, WriteMoves DEF ReadCampaign, Steps, Outcomes
  <1>3. CASE Pause(w)
    <2>1. worker[w] \in [pc : {"pause", "write"}, batch : SUBSET Keys, key : Keys,
                         outcome : Outcomes]
      BY <1>3 DEF Pause, At, TypeOK, WorkerRec, Idle
    <2>2. QED
      BY <1>3, <2>1 DEF Pause, TypeOK, Busy
  <1>4. CASE WriteRecipient(w)
    BY <1>4, LoopMoves DEF WriteRecipient, At, Busy
  <1>5. CASE Throws(w)
    BY <1>5, WriteMoves DEF Throws, Outcomes
  <1>6. CASE send(w)
    <2>1. Busy(w) /\ worker[w].pc \in Steps
      BY <1>6 DEF send, Lookup, QuotaExceeded, CreateMessage, LinkMessage, Refused, Unavailable,
         HandOver, Answered, NoAnswer, At, Busy, Steps
    <2>2. CASE Lookup(w) \/ CreateMessage(w) \/ LinkMessage(w) \/ HandOver(w)
      BY <2>1, <2>2, GotoMoves, OutcomeMoves, WriteMoves, OutcomesTyped
         DEF Lookup, CreateMessage, LinkMessage, HandOver, Steps, Outcomes
    <2>3. CASE QuotaExceeded(w) \/ Refused(w) \/ Unavailable(w)
      BY <2>1, <2>3, OutcomeMoves, WriteMoves DEF QuotaExceeded, Refused, Unavailable, Outcomes
    <2>4. CASE Answered(w) \/ NoAnswer(w)
      BY <2>1, <2>4, WriteMoves, OutcomesTyped DEF Answered, NoAnswer, Outcomes
    <2>5. QED
      BY <1>6, <2>2, <2>3, <2>4 DEF send
  <1>7. QED
    BY <1>1, <1>2, <1>3, <1>4, <1>5, <1>6

LEMMA HoldKept ==
  ASSUME TypeOK, HoldInv, NEW w \in Workers,
         \A v \in Workers \ {w} : worker'[v] = worker[v],
         Busy(w)' => Busy(w) /\ worker'[w].key = worker[w].key,
         \A r \in Recipients : recipient'[r].status = recipient[r].status,
         UNCHANGED retry
  PROVE  HoldInv'
  <1>1. \A v \in Workers : Busy(v)' => Busy(v) /\ Contact(v)' = Contact(v) /\ Contact(v) \in Recipients
    BY BusyWorker DEF Busy, Contact, Key
  <1>2. OneHolder' /\ HeldIsProcessing'
    BY <1>1 DEF HoldInv, OneHolder, HeldIsProcessing
  <1>3. RetryWaits'
    BY DEF HoldInv, RetryWaits, TypeOK, RetryRec
  <1>4. QED
    BY <1>2, <1>3 DEF HoldInv

LEMMA HoldStepOfClaim ==
  ASSUME CampaignRunnerAssumption, TypeOK, HoldInv, NEW w \in Workers, Claim(w)
  PROVE  HoldInv'
  <1>1. PICK k \in worker[w].batch :
          LET rest == worker[w].batch \ {k} IN
          IF Claimable(k[1])
          THEN /\ worker' = [worker EXCEPT ![w] =
                                [pc |-> "claimed", batch |-> rest, key |-> k]]
               /\ recipient' = [recipient EXCEPT ![k[1]].status = "PROCESSING"]
          ELSE /\ worker' = [worker EXCEPT ![w].batch = rest]
               /\ UNCHANGED recipient
    BY DEF Claim
  <1>2. worker[w] \in [pc : {"loop"}, batch : SUBSET Keys] /\ ~Busy(w) /\ UNCHANGED retry
    BY DEF Claim, At, TypeOK, WorkerRec, Idle, Busy
  <1>3. k \in Keys /\ k[1] \in Recipients
    BY <1>2 DEF Keys
  <1>4. \A v \in Workers \ {w} : worker'[v] = worker[v]
    BY OnlyThisWorker DEF processDueCampaigns
  <1>5. CASE ~Claimable(k[1])
    <2>1. ~Busy(w)'
      BY <1>1, <1>2, <1>5 DEF Busy, TypeOK
    <2>2. QED
      BY <1>1, <1>2, <1>4, <1>5, <2>1, HoldKept
  <1>6. CASE Claimable(k[1])
    <2>1. recipient[k[1]].status = "QUEUED" /\ recipient[k[1]] \in RecipientRec
      BY <1>3, <1>6 DEF Claimable, TypeOK
    <2>2. /\ Contact(w)' = k[1]
          /\ recipient'[k[1]].status = "PROCESSING"
          /\ \A r \in Recipients \ {k[1]} : recipient'[r] = recipient[r]
      BY <1>1, <1>3, <1>6, <2>1 DEF Contact, Key, TypeOK, RecipientRec
    <2>3. \A v \in Workers \ {w} :
             Busy(v)' => Busy(v) /\ Contact(v)' = Contact(v) /\ Contact(v) \in Recipients \ {k[1]}
      BY <1>4, <2>1, BusyWorker DEF Busy, Contact, Key, HoldInv, HeldIsProcessing
    <2>4. OneHolder' /\ HeldIsProcessing'
      BY <2>2, <2>3 DEF HoldInv, OneHolder, HeldIsProcessing
    <2>5. RetryWaits'
      BY <1>2, <2>1, <2>2 DEF HoldInv, RetryWaits, TypeOK, RetryRec
    <2>6. QED
      BY <2>4, <2>5 DEF HoldInv
  <1>7. QED
    BY <1>5, <1>6

(* The holder writes its recipient's row and lets go of it.                 *)
LEMMA HoldStepOfWrite ==
  ASSUME TypeOK, HoldInv, NEW w \in Workers, WriteRecipient(w)
  PROVE  HoldInv'
  <1>1. Busy(w) /\ ~Busy(w)' /\ \A v \in Workers \ {w} : worker'[v] = worker[v]
    BY LoopMoves DEF WriteRecipient, At, Busy
  <1>2. Contact(w) \in Recipients /\ recipient[Contact(w)].status = "PROCESSING"
    BY <1>1, BusyWorker DEF HoldInv, HeldIsProcessing
  <1>3. \A r \in Recipients \ {Contact(w)} : recipient'[r] = recipient[r]
    BY <1>2 DEF WriteRecipient, TypeOK
  <1>4. \A v \in Workers :
           Busy(v)' => Busy(v) /\ Contact(v)' = Contact(v) /\ Contact(v) \in Recipients \ {Contact(w)}
    BY <1>1, BusyWorker DEF Busy, Contact, Key, HoldInv, OneHolder
  <1>5. OneHolder' /\ HeldIsProcessing'
    BY <1>3, <1>4 DEF HoldInv, OneHolder, HeldIsProcessing
  <1>6. RetryWaits'
    BY <1>2, <1>3 DEF HoldInv, RetryWaits, WriteRecipient, TypeOK, RetryRec
  <1>7. QED
    BY <1>5, <1>6 DEF HoldInv

LEMMA HoldStepOutside ==
  ASSUME ~LongRuns, TypeOK, HoldInv,
         \/ StartScheduled \/ PausePackage \/ changeCampaignStatus \/ cancel \/ retryRecipient
         \/ \E r \in Recipients :
               MarkStuck(r) \/ BackoffEnds(r) \/ WindowEnds(r) \/ stopPendingMarketing(r)
  PROVE  HoldInv'
  <1>0. /\ UNCHANGED worker
        /\ \A r \in Recipients : recipient[r] \in RecipientRec
        /\ retry # None => retry.recipient \in Recipients
    BY DEF StartScheduled, PausePackage, changeCampaignStatus, cancel, retryRecipient, ReadRetry,
           WriteRetry, MarkStuck, BackoffEnds, WindowEnds, stopPendingMarketing, history, TypeOK,
           RetryRec
  <1>1. \A w \in Workers : Busy(w) => Contact(w) \in Recipients
    BY BusyWorker
  <1>2. ASSUME \A r \in Recipients : \/ recipient'[r].status = recipient[r].status
                                     \/ recipient[r].status # "PROCESSING"
                                     \/ ~\E w \in Workers : Busy(w) /\ Contact(w) = r
        PROVE  OneHolder' /\ HeldIsProcessing'
    BY <1>0, <1>1, <1>2 DEF HoldInv, OneHolder, HeldIsProcessing, Busy, Contact, Key
  <1>3. CASE UNCHANGED recipient /\ UNCHANGED retry
    BY <1>2, <1>3 DEF HoldInv, RetryWaits
  <1>4. CASE (\E set : SkipQueued(set)) /\ UNCHANGED retry
    <2>1. \A r \in Recipients :
             recipient'[r].status = recipient[r].status \/ recipient[r].status = "QUEUED"
      BY <1>4 DEF SkipQueued
    <2>2. QED
      BY <1>0, <1>2, <1>4, <2>1 DEF HoldInv, RetryWaits
  <1>5. ASSUME NEW r \in Recipients, MarkStuck(r) PROVE HoldInv'
    <2>1. recipient[r].status = "PROCESSING" /\ ~\E w \in Workers : Busy(w) /\ Contact(w) = r
      BY <1>5 DEF MarkStuck, Overdue, Concerns
    <2>2. /\ \A q \in Recipients \ {r} : recipient'[q] = recipient[q]
          /\ UNCHANGED retry
      BY <1>5 DEF MarkStuck, TypeOK
    <2>3. QED
      BY <1>0, <1>2, <2>1, <2>2 DEF HoldInv, RetryWaits
  <1>6. ASSUME NEW r \in Recipients, BackoffEnds(r) PROVE HoldInv'
    <2>1. \A q \in Recipients : recipient'[q].status = recipient[q].status
      BY <1>0, <1>6 DEF BackoffEnds, TypeOK, RecipientRec
    <2>2. QED
      BY <1>0, <1>2, <1>6, <2>1 DEF BackoffEnds, HoldInv, RetryWaits
  <1>7. CASE WriteRetry
    <2>1. recipient[retry.recipient].status # "PROCESSING" /\ retry' = None
      BY <1>7 DEF WriteRetry, HoldInv, RetryWaits
    <2>2. \A q \in Recipients : q # retry.recipient => recipient'[q] = recipient[q]
      BY <1>0, <1>7 DEF WriteRetry, TypeOK
    <2>3. QED
      BY <1>2, <2>1, <2>2 DEF HoldInv, RetryWaits
  <1>8. ASSUME NEW r \in Recipients, ReadRetry(r) PROVE HoldInv'
    <2>1. UNCHANGED recipient /\ retry'.recipient = r
      BY <1>8 DEF ReadRetry, rows
    <2>2. QED
      BY <1>2, <1>8, <2>1 DEF ReadRetry, HoldInv, RetryWaits
  <1>9. QED
    BY <1>3, <1>4, <1>5, <1>6, <1>7, <1>8 DEF StartScheduled, PausePackage, changeCampaignStatus,
       cancel, retryRecipient, WindowEnds, stopPendingMarketing

LEMMA HoldStep ==
  ASSUME CampaignRunnerAssumption, ~LongRuns, TypeOK, HoldInv, [Next]_vars PROVE HoldInv'
  <1>1. CASE UNCHANGED vars
    BY <1>1 DEF vars, rows, HoldInv, OneHolder, HeldIsProcessing, RetryWaits, Busy, Contact, Key
  <1>2. ASSUME NEW w \in Workers,
               \/ Scan(w) \/ Finish(w) \/ WorkerDies(w) \/ ReadCampaign(w) \/ Pause(w)
               \/ Throws(w) \/ send(w)
        PROVE  HoldInv'
    <2>1. \A v \in Workers \ {w} : worker'[v] = worker[v]
      BY <1>2, OnlyThisWorker DEF processDueCampaigns, handle
    <2>2. \A r \in Recipients : recipient'[r].status = recipient[r].status
      BY <1>2, SameStatus DEF Scan, Finish, WorkerDies, ReadCampaign, Pause, Throws, rows
    <2>3. UNCHANGED retry
      BY <1>2 DEF Scan, Finish, WorkerDies, ReadCampaign, Pause, Throws, send, Lookup,
         QuotaExceeded, CreateMessage, LinkMessage, Refused, Unavailable, HandOver, Answered,
         NoAnswer
    <2>4. QED
      BY <1>2, <2>1, <2>2, <2>3, HoldsOn, HoldKept
  <1>3. CASE Next
    BY <1>2, <1>3, HoldStepOfClaim, HoldStepOfWrite, HoldStepOutside
       DEF Next, processDueCampaigns, handle
  <1>4. QED
    BY <1>1, <1>3

-----------------------------------------------------------------------------
(* Deliveries.  What has been received is finite, and a request more or     *)
(* less counts as one.                                                      *)
LEMMA ReceivedFinite ==
  ASSUME CampaignRunnerAssumption, TypeOK, NEW r \in Recipients
  PROVE  IsFiniteSet(Received(r)) /\ Cardinality(Received(r)) \in Nat
  <1> DEFINE keys == {r} \X Attempts
             key == [a \in Attempts |-> <<r, a>>]
  <1>1. IsFiniteSet(Attempts)
    BY FS_Interval DEF Attempts, CampaignRunnerAssumption
  <1>2. key \in Surjection(Attempts, keys)
    <2>1. key \in [Attempts -> keys]
      OBVIOUS
    <2>2. \A t \in keys : \E a \in Attempts : key[a] = t
      OBVIOUS
    <2>3. QED
      BY <2>1, <2>2 DEF Surjection
  <1> HIDE DEF key
  <1>3. IsFiniteSet(keys)
    BY <1>1, <1>2, FS_Surjection
  <1>4. Received(r) \subseteq keys
    BY DEF Received, TypeOK, Keys
  <1> HIDE DEF keys
  <1>5. QED
    BY <1>3, <1>4, FS_Subset, FS_CardinalityType

LEMMA OneMoreReceived ==
  ASSUME CampaignRunnerAssumption, TypeOK, NEW k \in Keys, delivered' = delivered \cup {k}
  PROVE  /\ \A r \in Recipients \ {k[1]} : Received(r)' = Received(r)
         /\ Cardinality(Received(k[1])') \in Nat
         /\ Cardinality(Received(k[1])') <= Cardinality(Received(k[1])) + 1
  <1>1. k[1] \in Recipients
    BY DEF Keys
  <1>2. IsFiniteSet(Received(k[1])) /\ Cardinality(Received(k[1])) \in Nat
    BY <1>1, ReceivedFinite
  <1>3. /\ Received(k[1])' = Received(k[1]) \cup {k}
        /\ \A r \in Recipients \ {k[1]} : Received(r)' = Received(r)
    BY DEF Received
  <1>4. LET more == Received(k[1]) \cup {k}
        IN  Cardinality(more) \in Nat /\ Cardinality(more) <= Cardinality(Received(k[1])) + 1
    <2> HIDE DEF Received
    <2>1. Cardinality(Received(k[1]) \cup {k}) =
             IF k \in Received(k[1]) THEN Cardinality(Received(k[1]))
                                     ELSE Cardinality(Received(k[1])) + 1
      BY <1>2, FS_AddElement
    <2>2. QED
      BY <1>2, <2>1
  <1>5. QED
    BY <1>3, <1>4

LEMMA VerdictInit == ASSUME CampaignRunnerAssumption, Init PROVE VerdictInv
  <1>1. delivered = {} /\ \A r \in Recipients : attested[r] = 0
    BY DEF Init
  <1>2. \A r \in Recipients : Accounted(r) /\ Cardinality({k \in delivered : k[1] = r}) <= 1 + attested[r]
    BY <1>1, FS_EmptySet DEF Accounted, Received
  <1>3. QED
    BY <1>1, <1>2 DEF Init, VerdictInv, DeliveredWasHanded, AcceptedIsDelivered, NoBlindResend,
       RowsAccounted, RetryAccounted, WorkersAccounted, SentIsVouched, Clear, ConcludedSent,
       Busy, Idle

(* What a step that delivers nothing has to keep.                           *)
LEMMA VerdictKept ==
  ASSUME CampaignRunnerAssumption, TypeOK, TypeOK', VerdictInv,
         UNCHANGED <<delivered, handed, attested>>,
         retry' = retry \/ retry' = None,
         \A k \in Keys : message'[k] = "ACCEPTED" => k \in delivered,
         \A r \in Recipients :
             /\ recipient'[r].status \in {"QUEUED", "SKIPPED", "FAILED"} => Accounted(r)
             /\ recipient'[r].status = "SENT" => Vouched(r)',
         \A w \in Workers :
             /\ Clear(w)' => Contact(w)' \in Recipients /\ Accounted(Contact(w)')
             /\ ConcludedSent(w)' => Vouched(Contact(w))'
  PROVE  VerdictInv'
  <1>1. \A r \in Recipients : Accounted(r)' <=> Accounted(r)
    BY DEF Accounted, Received
  <1>2. DeliveredWasHanded' /\ AcceptedIsDelivered' /\ NoBlindResend'
    BY DEF VerdictInv, DeliveredWasHanded, AcceptedIsDelivered, NoBlindResend
  <1>3. RowsAccounted' /\ SentIsVouched'
    BY <1>1 DEF RowsAccounted, SentIsVouched
  <1>4. WorkersAccounted'
    BY <1>1 DEF WorkersAccounted
  <1>5. RetryAccounted'
    BY <1>1 DEF VerdictInv, RetryAccounted, TypeOK, RetryRec
  <1>6. QED
    BY <1>2, <1>3, <1>4, <1>5 DEF VerdictInv

(* A cancelled or a delivered message of a recipient stays one as long as   *)
(* nobody who holds the recipient touches it.                               *)
LEMMA VouchedKept ==
  ASSUME TypeOK, delivered \subseteq delivered', campaign'.whatsapp = campaign.whatsapp,
         NEW r \in Recipients, Vouched(r),
         \A k \in {r} \X Attempts : message[k] = "CANCELLED" => message'[k] = "CANCELLED"
  PROVE  Vouched(r)'
  BY DEF Vouched

(* A step of a worker that delivers nothing and leaves the rows alone.      *)
LEMMA VerdictOfWorker ==
  ASSUME CampaignRunnerAssumption, TypeOK, TypeOK', HoldInv, VerdictInv, NEW w \in Workers,
         UNCHANGED <<delivered, handed, attested, retry>>,
         campaign'.whatsapp = campaign.whatsapp,
         \A v \in Workers \ {w} : worker'[v] = worker[v],
         Busy(w)' => Busy(w) /\ worker'[w].key = worker[w].key,
         \A r \in Recipients : recipient'[r].status = recipient[r].status,
         \A k \in Keys : message'[k] = message[k] \/ (Busy(w) /\ k = Key(w)),
         \A k \in Keys : message'[k] = "ACCEPTED" => k \in delivered,
         Clear(w)' => Clear(w),
         ConcludedSent(w)' => Vouched(Contact(w))'
  PROVE  VerdictInv'
  <1>1. \A v \in Workers : Busy(v) =>
           Contact(v) \in Recipients /\ recipient[Contact(v)].status = "PROCESSING"
    BY BusyWorker DEF HoldInv, HeldIsProcessing
  <1>2. ASSUME NEW r \in Recipients, Vouched(r), ~(Busy(w) /\ Contact(w) = r) PROVE Vouched(r)'
    <2>1. \A k \in {r} \X Attempts : message'[k] = message[k]
      BY <1>2 DEF Keys, Contact
    <2>2. QED
      BY <1>2, <2>1, VouchedKept
  <1>3. \A r \in Recipients :
            /\ recipient'[r].status \in {"QUEUED", "SKIPPED", "FAILED"} => Accounted(r)
            /\ recipient'[r].status = "SENT" => Vouched(r)'
    BY <1>1, <1>2 DEF VerdictInv, RowsAccounted, SentIsVouched
  <1>4. ASSUME NEW v \in Workers
        PROVE  /\ Clear(v)' => Contact(v)' \in Recipients /\ Accounted(Contact(v)')
               /\ ConcludedSent(v)' => Vouched(Contact(v))'
    <2>1. Clear(v)' => Clear(v) /\ Contact(v)' = Contact(v)
      <3>1. CASE v = w
        BY <3>1 DEF Clear, Contact, Key
      <3>2. CASE v # w
        BY <3>2 DEF Clear, Contact, Key, Busy, At
      <3>3. QED
        BY <3>1, <3>2
    <2>2. Clear(v)' => Contact(v)' \in Recipients /\ Accounted(Contact(v)')
      BY <1>1, <2>1 DEF VerdictInv, WorkersAccounted, Clear
    <2>3. ConcludedSent(v)' => Vouched(Contact(v))'
      <3>1. CASE v # w /\ ConcludedSent(v)'
        <4>1. ConcludedSent(v) /\ Busy(v) /\ worker'[v] = worker[v]
          BY <3>1 DEF ConcludedSent, Busy
        <4>2. Vouched(Contact(v)) /\ ~(Busy(w) /\ Contact(w) = Contact(v)) /\ Contact(v) \in Recipients
          BY <1>1, <3>1, <4>1 DEF VerdictInv, SentIsVouched, HoldInv, OneHolder
        <4>3. Contact(v)' = Contact(v)
          BY <4>1 DEF Contact, Key
        <4>4. Vouched(Contact(v))'
          BY <1>2, <4>2, <4>3 DEF Vouched
        <4>5. QED
          BY <4>4
      <3>2. QED
        BY <3>1
    <2>4. QED
      BY <2>2, <2>3
  <1>5. QED
    BY <1>3, <1>4, VerdictKept

LEMMA VerdictStepOfSend ==
  ASSUME CampaignRunnerAssumption, TypeOK, TypeOK', KeyInv, HoldInv, VerdictInv,
         NEW w \in Workers, send(w), ~HandOver(w)
  PROVE  VerdictInv'
  <1>1. Busy(w) /\ worker[w].pc \in Steps
    BY DEF send, Lookup, QuotaExceeded, CreateMessage, LinkMessage, Refused, Unavailable,
           HandOver, Answered, NoAnswer, At, Busy, Steps
  <1>2. Key(w) \in Keys /\ Contact(w) \in Recipients /\ Key(w)[2] \in Attempts
        /\ Key(w) = <<Contact(w), Key(w)[2]>>
    BY <1>1, BusyWorker
  <1>3. /\ UNCHANGED <<delivered, handed, attested, retry>>
        /\ campaign'.whatsapp = campaign.whatsapp
    BY DEF send, Lookup, QuotaExceeded, CreateMessage, LinkMessage, Refused, Unavailable,
           Answered, NoAnswer, history
  <1>4. \A v \in Workers \ {w} : worker'[v] = worker[v]
    BY OnlyThisWorker DEF processDueCampaigns, handle
  <1>5. Busy(w)' => Busy(w) /\ worker'[w].key = worker[w].key
    BY HoldsOn
  <1>6. \A r \in Recipients : recipient'[r].status = recipient[r].status
    BY SameStatus
  <1>7. \A k \in Keys : message'[k] = message[k] \/ (Busy(w) /\ k = Key(w))
    BY <1>1, <1>2 DEF send, Lookup, QuotaExceeded, CreateMessage, LinkMessage, Refused,
       Unavailable, Answered, NoAnswer, TypeOK, rows
  <1>8. message'[Key(w)] = "ACCEPTED" => Key(w) \in delivered
    BY <1>2 DEF send, Lookup, QuotaExceeded, CreateMessage, LinkMessage, Refused, Unavailable,
       Answered, AnswerStatus, NoAnswer, TypeOK, VerdictInv, AcceptedIsDelivered
  <1>9. \A k \in Keys : message'[k] = "ACCEPTED" => k \in delivered
    BY <1>7, <1>8 DEF VerdictInv, AcceptedIsDelivered
  <1>10. (Clear(w)' => Clear(w)) /\ (ConcludedSent(w)' => Vouched(Contact(w))')
    <2>1. CASE Lookup(w)
      <3>1. Clear(w)
        BY <1>1, <2>1 DEF Lookup, At, Clear
      <3>2. CASE message[Key(w)] # "none" /\ GotoWrite(w, OutcomeOfExisting(message[Key(w)], Key(w)[2]))
        <4>1. /\ worker'[w].key = worker[w].key
              /\ worker'[w].outcome = OutcomeOfExisting(message[Key(w)], Key(w)[2])
          BY <1>1, <3>2, WriteMoves, OutcomesTyped
        <4>2. message[Key(w)] \in MessageStatus \ {"none"} /\ UNCHANGED message
          BY <1>2, <2>1, <3>2 DEF TypeOK, Lookup
        <4>3. ConcludedSent(w)' =>
                 message[Key(w)] = "ACCEPTED" \/ (message[Key(w)] = "CANCELLED" /\ campaign.whatsapp)
          BY <1>2, <4>1, <4>2, SentOnlyIf DEF ConcludedSent
        <4>4. ConcludedSent(w)' => Vouched(Contact(w))'
          BY <1>2, <1>3, <4>1, <4>2, <4>3 DEF Vouched, Contact, Key, VerdictInv, AcceptedIsDelivered
        <4>5. QED
          BY <3>1, <4>4
      <3>3. CASE GotoWrite(w, "skip") \/ GotoOutcome(w, "pause", "drop") \/ Goto(w, "create")
        <4>1. ~ConcludedSent(w)'
          BY <1>1, <3>3, GotoMoves, OutcomeMoves, WriteMoves DEF ConcludedSent, Outcomes, Steps
        <4>2. QED
          BY <3>1, <4>1
      <3>4. QED
        BY <2>1, <3>2, <3>3 DEF Lookup
    <2>2. CASE QuotaExceeded(w) \/ CreateMessage(w) \/ LinkMessage(w) \/ Refused(w) \/ Unavailable(w)
      <3>1. Clear(w)
        BY <1>1, <2>2 DEF QuotaExceeded, CreateMessage, LinkMessage, Refused, Unavailable, At, Clear
      <3>2. ~ConcludedSent(w)'
        BY <1>1, <2>2, GotoMoves, OutcomeMoves, WriteMoves DEF QuotaExceeded, CreateMessage,
           LinkMessage, Refused, Unavailable, ConcludedSent, Outcomes, Steps
      <3>3. QED
        BY <3>1, <3>2
    <2>3. CASE Answered(w)
      <3>1. PICK status \in AnswerStatus(Key(w)) : GotoWrite(w, OutcomeOf(status, Key(w)[2]))
        BY <2>3 DEF Answered
      <3>2. /\ worker'[w].pc = "write" /\ worker'[w].key = worker[w].key
            /\ worker'[w].outcome = OutcomeOf(status, Key(w)[2])
        BY <1>1, <3>1, WriteMoves, OutcomesTyped
      <3>3. CASE Key(w) \in delivered
        <4>1. OutcomeOf(status, Key(w)[2]) = "sent"
          BY <1>2, <3>1, <3>3, SentOnlyIf DEF AnswerStatus, MessageStatus
        <4>2. Vouched(Contact(w))'
          BY <1>2, <1>3, <3>2, <3>3 DEF Vouched, Contact, Key
        <4>3. QED
          BY <3>2, <4>1, <4>2 DEF Clear, At
      <3>4. CASE Key(w) \notin delivered
        <4>1. OutcomeOf(status, Key(w)[2]) \in {"failed", "retry"}
          BY <1>2, <3>1, <3>4, SentOnlyIf DEF AnswerStatus, MessageStatus
        <4>2. Clear(w)
          BY <1>1, <2>3, <3>4 DEF Answered, At, Clear
        <4>3. QED
          BY <3>2, <4>1, <4>2 DEF ConcludedSent
      <3>5. QED
        BY <3>3, <3>4
    <2>4. CASE NoAnswer(w)
      <3>1. worker'[w].pc = "write" /\ worker'[w].outcome = "unknown"
        BY <1>1, <2>4, WriteMoves DEF NoAnswer, Outcomes
      <3>2. QED
        BY <3>1 DEF Clear, At, ConcludedSent
    <2>5. QED
      BY <2>1, <2>2, <2>3, <2>4 DEF send
  <1>11. QED
    BY <1>3, <1>4, <1>5, <1>6, <1>7, <1>9, <1>10, VerdictOfWorker

(* A request goes out: nobody else holds the recipient, no row and no retry *)
(* speaks for it, and what was received before is accounted for.            *)
LEMMA VerdictStepOfHandOver ==
  ASSUME CampaignRunnerAssumption, TypeOK, KeyInv, HoldInv, VerdictInv,
         NEW w \in Workers, HandOver(w)
  PROVE  VerdictInv'
  <1>1. Busy(w) /\ worker[w].pc = "check"
    BY DEF HandOver, At, Busy
  <1>2. Key(w) \in Keys /\ Contact(w) \in Recipients /\ Key(w)[1] = Contact(w)
    BY <1>1, BusyWorker DEF Contact
  <1>3. /\ worker'[w].pc = "answer" /\ worker'[w].key = worker[w].key
        /\ \A v \in Workers \ {w} : worker'[v] = worker[v]
    BY <1>1, GotoMoves DEF HandOver, Steps
  <1>4. /\ UNCHANGED <<campaign, recipient, message, retry, attested>>
        /\ \A r \in Recipients : attested[r] \in Nat
    BY DEF HandOver, rows, TypeOK
  <1>5. Accounted(Contact(w)) /\ recipient[Contact(w)].status = "PROCESSING"
    BY <1>1 DEF VerdictInv, WorkersAccounted, Clear, At, HoldInv, HeldIsProcessing
  <1>6. /\ handed'[Key(w)] >= 1
        /\ \A k \in Keys \ {Key(w)} : handed'[k] = handed[k]
        /\ delivered' = delivered \/ delivered' = delivered \cup {Key(w)}
    BY <1>2 DEF HandOver, TypeOK
  <1>7. \A r \in Recipients \ {Contact(w)} : Received(r)' = Received(r)
    BY <1>2, <1>6, OneMoreReceived DEF Received
  <1>8. Cardinality(Received(Contact(w))') <= attested[Contact(w)] + 1
    <2>1. CASE delivered' = delivered
      <3>1. Received(Contact(w))' = Received(Contact(w)) /\ Cardinality(Received(Contact(w))) \in Nat
        BY <1>2, <1>3, <2>1, ReceivedFinite DEF Received, Contact, Key
      <3>2. QED
        BY <1>2, <1>4, <1>5, <3>1 DEF Accounted
    <2>2. CASE delivered' = delivered \cup {Key(w)}
      <3>1. PICK k \in Keys : k = Key(w)
        BY <1>2
      <3>2. /\ Cardinality(Received(k[1])') <= Cardinality(Received(k[1])) + 1
            /\ Cardinality(Received(k[1])') \in Nat
            /\ Cardinality(Received(k[1])) \in Nat
        BY <1>2, <2>2, <3>1, OneMoreReceived, ReceivedFinite
      <3>3. k[1] = Contact(w) /\ Received(Contact(w))' = Received(k[1])'
        BY <1>2, <1>3, <3>1 DEF Received, Contact, Key
      <3>4. QED
        BY <1>2, <1>4, <1>5, <3>2, <3>3 DEF Accounted
    <2>3. QED
      BY <1>6, <2>1, <2>2
  <1>9. \A r \in Recipients : r # Contact(w) => (Accounted(r)' <=> Accounted(r))
    BY <1>4, <1>7 DEF Accounted
  <1>10. NoBlindResend'
    <2>1. ASSUME NEW r \in Recipients
          PROVE  Cardinality(Received(r)') <= 1 + attested'[r]
      <3>1. CASE r # Contact(w)
        BY <1>4, <1>7, <3>1 DEF VerdictInv, NoBlindResend, Received
      <3>2. CASE r = Contact(w)
        <4>1. Received(r)' = Received(Contact(w))'
          BY <1>3, <3>2 DEF Received, Contact, Key
        <4>2. QED
          BY <1>4, <1>8, <3>2, <4>1
      <3>3. QED
        BY <3>1, <3>2
    <2>2. QED
      BY <2>1 DEF NoBlindResend, Received
  <1>11. DeliveredWasHanded' /\ AcceptedIsDelivered'
    BY <1>4, <1>6 DEF VerdictInv, DeliveredWasHanded, AcceptedIsDelivered, TypeOK
  <1>12. RowsAccounted'
    BY <1>4, <1>5, <1>9 DEF VerdictInv, RowsAccounted
  <1>13. RetryAccounted'
    <2>1. retry # None => retry.recipient \in Recipients \ {Contact(w)}
      BY <1>5 DEF HoldInv, RetryWaits, TypeOK, RetryRec
    <2>2. QED
      BY <1>4, <1>9, <2>1 DEF VerdictInv, RetryAccounted
  <1>14. \A v \in Workers \ {w} : Busy(v) => Contact(v) \in Recipients \ {Contact(w)}
    BY <1>1, BusyWorker DEF HoldInv, OneHolder
  <1>15. WorkersAccounted'
    <2>1. ASSUME NEW v \in Workers, Clear(v)' PROVE Accounted(Contact(v))'
      <3>1. CASE v # w
        <4>1. Clear(v) /\ Contact(v)' = Contact(v) /\ Contact(v) \in Recipients \ {Contact(w)}
          BY <1>3, <1>6, <1>14, <2>1, <3>1 DEF Clear, Contact, Key, Busy, At
        <4>2. Accounted(Contact(v)) /\ attested[Contact(v)]' = attested[Contact(v)]
          BY <1>4, <4>1 DEF VerdictInv, WorkersAccounted
        <4>3. Received(Contact(v))' = Received(Contact(v))
          BY <1>7, <4>1 DEF Received
        <4>4. QED
          BY <4>2, <4>3 DEF Accounted
      <3>2. CASE v = w
        <4>1. Key(w) \notin delivered' /\ delivered' = delivered /\ Contact(w)' = Contact(w)
          BY <1>3, <1>6, <2>1, <3>2 DEF Clear, At, Key, Contact
        <4>2. QED
          BY <1>4, <1>5, <3>2, <4>1 DEF Accounted, Received
      <3>3. QED
        BY <3>1, <3>2
    <2>2. QED
      BY <2>1 DEF WorkersAccounted
  <1>16. SentIsVouched'
    <2>1. \A r \in Recipients : Vouched(r) => Vouched(r)'
      BY <1>4, <1>6, VouchedKept
    <2>2. \A v \in Workers : ConcludedSent(v)' =>
             ConcludedSent(v) /\ Contact(v)' = Contact(v) /\ Contact(v) \in Recipients
      BY <1>3, <1>14 DEF ConcludedSent, Contact, Key, Busy
    <2>3. \A v \in Workers : ConcludedSent(v)' => Vouched(Contact(v))'
      BY <2>1, <2>2 DEF VerdictInv, SentIsVouched, Vouched
    <2>4. QED
      BY <1>4, <2>1, <2>3 DEF VerdictInv, SentIsVouched
  <1>17. QED
    BY <1>10, <1>11, <1>12, <1>13, <1>15, <1>16 DEF VerdictInv

LEMMA VerdictStepOfRun ==
  ASSUME CampaignRunnerAssumption, TypeOK, TypeOK', HoldInv, VerdictInv, NEW w \in Workers,
         \/ Scan(w) \/ Finish(w) \/ WorkerDies(w) \/ ReadCampaign(w) \/ Pause(w) \/ Throws(w)
  PROVE  VerdictInv'
  <1>1. /\ UNCHANGED <<message, delivered, handed, attested, retry, recipient>>
        /\ campaign'.whatsapp = campaign.whatsapp
    BY DEF Scan, Finish, WorkerDies, ReadCampaign, Pause, Throws, rows, history, TypeOK
  <1>2. \A v \in Workers \ {w} : worker'[v] = worker[v]
    BY OnlyThisWorker DEF processDueCampaigns, handle
  <1>3. Busy(w)' => Busy(w) /\ worker'[w].key = worker[w].key
    BY HoldsOn
  <1>4. (Clear(w)' => Clear(w)) /\ (ConcludedSent(w)' => ConcludedSent(w))
    <2>1. CASE Scan(w) \/ Finish(w) \/ WorkerDies(w)
      BY <2>1 DEF Scan, Finish, WorkerDies, Idle, TypeOK, Clear, Busy, ConcludedSent
    <2>2. CASE ReadCampaign(w)
      <3>1. Busy(w) /\ worker[w].pc = "claimed"
        BY <2>2 DEF ReadCampaign, At, Busy
      <3>2. ~ConcludedSent(w)'
        BY <2>2, <3>1, GotoMoves, OutcomeMoves, WriteMoves
           DEF ReadCampaign, ConcludedSent, Outcomes, Steps
      <3>3. QED
        BY <3>1, <3>2 DEF Clear, At
    <2>3. CASE Pause(w)
      <3>1. worker[w] \in [pc : {"pause", "write"}, batch : SUBSET Keys, key : Keys,
                           outcome : Outcomes] /\ worker[w].pc = "pause"
        BY <2>3 DEF Pause, At, TypeOK, WorkerRec, Idle
      <3>2. worker'[w].outcome = worker[w].outcome
        BY <2>3, <3>1 DEF Pause, TypeOK
      <3>3. QED
        BY <3>1, <3>2 DEF Clear, At, Busy, ConcludedSent
    <2>4. CASE Throws(w)
      <3>1. worker'[w].pc = "write" /\ worker'[w].outcome = "unknown"
        BY <2>4, WriteMoves DEF Throws, Outcomes
      <3>2. QED
        BY <3>1 DEF Clear, At, ConcludedSent
    <2>5. QED
      BY <2>1, <2>2, <2>3, <2>4
  <1>5. ConcludedSent(w)' => Vouched(Contact(w))'
    <2>1. ConcludedSent(w)' => Vouched(Contact(w)) /\ Contact(w)' = Contact(w)
      BY <1>3, <1>4 DEF VerdictInv, SentIsVouched, ConcludedSent, Busy, Contact, Key
    <2>2. QED
      BY <1>1, <2>1 DEF Vouched
  <1>6. QED
    BY <1>1, <1>2, <1>3, <1>4, <1>5, VerdictOfWorker DEF VerdictInv, AcceptedIsDelivered

LEMMA VerdictStepOfClaim ==
  ASSUME CampaignRunnerAssumption, TypeOK, TypeOK', HoldInv, VerdictInv, NEW w \in Workers, Claim(w)
  PROVE  VerdictInv'
  <1>1. PICK k \in worker[w].batch :
          LET rest == worker[w].batch \ {k} IN
          IF Claimable(k[1])
          THEN /\ worker' = [worker EXCEPT ![w] =
                                [pc |-> "claimed", batch |-> rest, key |-> k]]
               /\ recipient' = [recipient EXCEPT ![k[1]].status = "PROCESSING"]
          ELSE /\ worker' = [worker EXCEPT ![w].batch = rest]
               /\ UNCHANGED recipient
    BY DEF Claim
  <1>2. worker[w] \in [pc : {"loop"}, batch : SUBSET Keys]
    BY DEF Claim, At, TypeOK, WorkerRec, Idle
  <1>3. k[1] \in Recipients /\ recipient[k[1]] \in RecipientRec
    BY <1>2 DEF Keys, TypeOK
  <1>4. UNCHANGED <<campaign, message, retry, delivered, handed, attested>>
    BY DEF Claim, history
  <1>5. \A r \in Recipients : recipient'[r].status \in {recipient[r].status, "PROCESSING"}
    BY <1>1, <1>3 DEF TypeOK, RecipientRec
  <1>6. ~ConcludedSent(w)' /\ (Clear(w)' => Contact(w)' \in Recipients /\ Accounted(Contact(w)'))
    <2>1. CASE Claimable(k[1])
      BY <1>1, <1>3, <2>1 DEF TypeOK, ConcludedSent, Contact, Key, Claimable, VerdictInv, RowsAccounted
    <2>2. CASE ~Claimable(k[1])
      BY <1>1, <1>2, <2>2 DEF TypeOK, ConcludedSent, Clear, Busy
    <2>3. QED
      BY <2>1, <2>2
  <1>7. \A v \in Workers \ {w} : worker'[v] = worker[v]
    BY OnlyThisWorker DEF processDueCampaigns
  <1>8. \A v \in Workers \ {w} :
            /\ Clear(v)' => Contact(v)' \in Recipients /\ Accounted(Contact(v)')
            /\ ConcludedSent(v)' => Vouched(Contact(v))'
    BY <1>4, <1>7, BusyWorker DEF VerdictInv, WorkersAccounted, SentIsVouched, Clear, ConcludedSent,
       Contact, Key, Busy, At, Vouched
  <1>9. \A r \in Recipients : Vouched(r)' <=> Vouched(r)
    BY <1>4 DEF Vouched
  <1>10. QED
    BY <1>4, <1>5, <1>6, <1>8, <1>9, VerdictKept DEF VerdictInv, AcceptedIsDelivered, RowsAccounted,
       SentIsVouched

(* The row says what the worker has concluded, and the worker lets go.      *)
LEMMA VerdictStepOfWrite ==
  ASSUME CampaignRunnerAssumption, TypeOK, TypeOK', HoldInv, VerdictInv, NEW w \in Workers,
         WriteRecipient(w)
  PROVE  VerdictInv'
  <1>1. Busy(w) /\ worker[w].outcome \in Outcomes /\ worker[w].pc = "write"
    BY DEF WriteRecipient, At, Busy, TypeOK, WorkerRec, Idle
  <1>2. Contact(w) \in Recipients /\ recipient[Contact(w)] \in RecipientRec
    BY <1>1, BusyWorker DEF TypeOK
  <1>3. ~Busy(w)' /\ \A v \in Workers \ {w} : worker'[v] = worker[v]
    BY <1>1, LoopMoves DEF WriteRecipient, Busy
  <1>4. UNCHANGED <<campaign, message, retry, delivered, handed, attested>>
    BY DEF WriteRecipient, history
  <1>5. /\ \A r \in Recipients \ {Contact(w)} : recipient'[r] = recipient[r]
        /\ recipient'[Contact(w)] = Written(recipient[Contact(w)], worker[w].outcome, Key(w)[2])
    BY <1>2 DEF WriteRecipient, TypeOK
  <1>6. /\ recipient'[Contact(w)].status \in {"QUEUED", "SKIPPED", "FAILED"} =>
               worker[w].outcome \notin {"sent", "unknown"}
        /\ recipient'[Contact(w)].status = "SENT" => worker[w].outcome = "sent"
    BY <1>1, <1>2, <1>5 DEF Written, Outcomes, RecipientRec
  <1>7. /\ recipient'[Contact(w)].status \in {"QUEUED", "SKIPPED", "FAILED"} => Accounted(Contact(w))
        /\ recipient'[Contact(w)].status = "SENT" => Vouched(Contact(w))
    BY <1>1, <1>6 DEF VerdictInv, WorkersAccounted, SentIsVouched, Clear, At, ConcludedSent
  <1>8. \A r \in Recipients : Vouched(r)' <=> Vouched(r)
    BY <1>4 DEF Vouched
  <1>9. \A r \in Recipients :
            /\ recipient'[r].status \in {"QUEUED", "SKIPPED", "FAILED"} => Accounted(r)
            /\ recipient'[r].status = "SENT" => Vouched(r)'
    BY <1>5, <1>7, <1>8 DEF VerdictInv, RowsAccounted, SentIsVouched
  <1>10. \A v \in Workers :
            /\ Clear(v)' => Contact(v)' \in Recipients /\ Accounted(Contact(v)')
            /\ ConcludedSent(v)' => Vouched(Contact(v))'
    BY <1>3, <1>4, BusyWorker DEF VerdictInv, WorkersAccounted, SentIsVouched, Clear, ConcludedSent,
       Contact, Key, Busy, At, Vouched
  <1>11. QED
    BY <1>4, <1>9, <1>10, VerdictKept DEF VerdictInv, AcceptedIsDelivered

LEMMA VerdictStepOutside ==
  ASSUME CampaignRunnerAssumption, TypeOK, TypeOK', HoldInv, VerdictInv,
         \/ StartScheduled \/ PausePackage \/ changeCampaignStatus \/ cancel \/ WriteRetry
         \/ \E r \in Recipients :
               MarkStuck(r) \/ BackoffEnds(r) \/ WindowEnds(r) \/ stopPendingMarketing(r)
  PROVE  VerdictInv'
  <1>1. /\ UNCHANGED <<worker, delivered, handed, attested>>
        /\ retry' = retry \/ retry' = None
        /\ \A r \in Recipients : recipient[r] \in RecipientRec
    BY DEF StartScheduled, PausePackage, changeCampaignStatus, cancel, WriteRetry, MarkStuck,
           BackoffEnds, WindowEnds, stopPendingMarketing, history, TypeOK
  <1>2. campaign'.whatsapp = campaign.whatsapp
    BY DEF StartScheduled, PausePackage, changeCampaignStatus, cancel, WriteRetry, MarkStuck,
           BackoffEnds, WindowEnds, stopPendingMarketing, SetStatus, start, unschedule, pause,
           resume, TypeOK
  <1>3. \A k \in Keys : message'[k] = message[k] \/ message'[k] = "CANCELLED"
    BY CancelKeeps DEF StartScheduled, PausePackage, changeCampaignStatus, cancel, WriteRetry,
           MarkStuck, BackoffEnds, WindowEnds, stopPendingMarketing
  <1>4. \A r \in Recipients : Vouched(r) => Vouched(r)'
    BY <1>1, <1>2, <1>3, VouchedKept DEF Keys
  <1>5. \A r \in Recipients :
            /\ recipient'[r].status \in {"QUEUED", "SKIPPED", "FAILED"} => Accounted(r)
            /\ recipient'[r].status = "SENT" => recipient[r].status = "SENT"
    <2>1. CASE UNCHANGED recipient
      BY <2>1 DEF VerdictInv, RowsAccounted
    <2>2. CASE \E set : SkipQueued(set)
      BY <1>1, <2>2 DEF SkipQueued, RecipientRec, VerdictInv, RowsAccounted
    <2>3. ASSUME NEW q \in Recipients, MarkStuck(q) \/ BackoffEnds(q), NEW r \in Recipients
          PROVE  recipient'[r].status = recipient[r].status \/ recipient'[r].status = "UNKNOWN"
      BY <1>1, <2>3 DEF MarkStuck, Stuck, BackoffEnds, TypeOK, RecipientRec
    <2>4. CASE WriteRetry
      <3>1. retry # None /\ retry.recipient \in Recipients /\ Accounted(retry.recipient)
        BY <2>4 DEF WriteRetry, TypeOK, RetryRec, VerdictInv, RetryAccounted
      <3>2. /\ recipient'[retry.recipient].status = "QUEUED"
            /\ \A r \in Recipients \ {retry.recipient} : recipient'[r] = recipient[r]
        BY <1>1, <2>4, <3>1 DEF WriteRetry, TypeOK, RecipientRec
      <3>3. QED
        BY <3>1, <3>2 DEF VerdictInv, RowsAccounted
    <2>5. ASSUME NEW q \in Recipients, MarkStuck(q) \/ BackoffEnds(q)
          PROVE  \A r \in Recipients :
                    /\ recipient'[r].status \in {"QUEUED", "SKIPPED", "FAILED"} => Accounted(r)
                    /\ recipient'[r].status = "SENT" => recipient[r].status = "SENT"
      BY <2>3, <2>5 DEF VerdictInv, RowsAccounted
    <2>6. QED
      BY <2>1, <2>2, <2>4, <2>5 DEF StartScheduled, PausePackage, changeCampaignStatus, cancel,
         WindowEnds, stopPendingMarketing
  <1>6. \A v \in Workers :
            /\ Clear(v)' => Contact(v)' \in Recipients /\ Accounted(Contact(v)')
            /\ ConcludedSent(v)' => Contact(v) \in Recipients /\ Vouched(Contact(v)) /\ Contact(v)' = Contact(v)
    BY <1>1, BusyWorker DEF VerdictInv, WorkersAccounted, SentIsVouched, Clear, ConcludedSent,
       Contact, Key, Busy, At
  <1>7. \A v \in Workers : ConcludedSent(v)' => Vouched(Contact(v))'
    BY <1>4, <1>6 DEF Vouched
  <1>8. QED
    BY <1>1, <1>3, <1>4, <1>5, <1>6, <1>7, VerdictKept DEF VerdictInv, AcceptedIsDelivered, SentIsVouched

(* A manager's word accounts for the attempt in doubt.                      *)
LEMMA VerdictStepOfWord ==
  ASSUME CampaignRunnerAssumption, TypeOK, VerdictInv, NEW r \in Recipients, ReadRetry(r)
  PROVE  VerdictInv'
  <1>1. UNCHANGED <<campaign, recipient, message, worker, handed, delivered>> /\ retry'.recipient = r
    BY DEF ReadRetry, rows
  <1>2. \A q \in Recipients : attested[q] \in Nat /\ Cardinality(Received(q)) \in Nat
    BY ReceivedFinite DEF TypeOK
  <1>3. /\ \A q \in Recipients \ {r} : attested'[q] = attested[q]
        /\ attested'[r] = IF recipient[r].status = "UNKNOWN" THEN attested[r] + 1 ELSE attested[r]
    BY DEF ReadRetry, TypeOK
  <1>4. \A q \in Recipients : attested'[q] >= attested[q]
    BY <1>2, <1>3
  <1>5. \A q \in Recipients : Received(q)' = Received(q)
    BY <1>1 DEF Received
  <1>6. \A q \in Recipients : Accounted(q) => Accounted(q)'
    BY <1>2, <1>3, <1>5 DEF Accounted
  <1>7. NoBlindResend'
    BY <1>2, <1>3, <1>5 DEF VerdictInv, NoBlindResend, Received
  <1>8. Accounted(r)'
    <2>1. CASE recipient[r].status = "UNKNOWN"
      BY <1>2, <1>3, <1>5, <2>1 DEF VerdictInv, NoBlindResend, Accounted, Received
    <2>2. CASE recipient[r].status = "FAILED"
      BY <1>6, <2>2 DEF VerdictInv, RowsAccounted
    <2>3. QED
      BY <2>1, <2>2 DEF ReadRetry
  <1>9. RetryAccounted'
    BY <1>1, <1>8 DEF RetryAccounted, Accounted, Received
  <1>10. DeliveredWasHanded' /\ AcceptedIsDelivered' /\ SentIsVouched'
    BY <1>1 DEF VerdictInv, DeliveredWasHanded, AcceptedIsDelivered, SentIsVouched, Vouched,
       ConcludedSent, Contact, Key
  <1>11. RowsAccounted'
    BY <1>1, <1>6 DEF VerdictInv, RowsAccounted
  <1>12. WorkersAccounted'
    <2>1. \A w \in Workers : Clear(w)' =>
             Clear(w) /\ Contact(w)' = Contact(w) /\ Contact(w) \in Recipients
      BY <1>1, BusyWorker DEF Clear, Busy, At, Key, Contact
    <2>2. QED
      BY <1>6, <2>1 DEF VerdictInv, WorkersAccounted, Accounted, Received
  <1>13. QED
    BY <1>7, <1>9, <1>10, <1>11, <1>12 DEF VerdictInv

LEMMA VerdictStep ==
  ASSUME CampaignRunnerAssumption, TypeOK, TypeOK', KeyInv, HoldInv, VerdictInv, [Next]_vars
  PROVE  VerdictInv'
  <1>1. CASE UNCHANGED vars
    BY <1>1 DEF vars, rows, history, VerdictInv, DeliveredWasHanded, AcceptedIsDelivered,
       NoBlindResend, RowsAccounted, RetryAccounted, WorkersAccounted, SentIsVouched, Accounted,
       Received, Vouched, Clear, ConcludedSent, Busy, At, Contact, Key
  <1>2. CASE Next
    BY <1>2, VerdictStepOfSend, VerdictStepOfHandOver, VerdictStepOfRun, VerdictStepOfClaim,
       VerdictStepOfWrite, VerdictStepOutside, VerdictStepOfWord
       DEF Next, processDueCampaigns, handle, retryRecipient
  <1>3. QED
    BY <1>1, <1>2

LEMMA VerdictIsTrue ==
  ASSUME CampaignRunnerAssumption, TypeOK, VerdictInv PROVE RecipientIsVerdict
  <1>1. ASSUME NEW r \in Recipients, attested[r] = 0, Accounted(r) PROVE \A k \in delivered : k[1] # r
    <2>1. IsFiniteSet(Received(r)) /\ Cardinality(Received(r)) = 0
      BY <1>1, ReceivedFinite DEF Accounted
    <2>2. Received(r) = {}
      BY <2>1, FS_EmptySet
    <2>3. QED
      BY <2>2 DEF Received
  <1>2. QED
    BY <1>1 DEF RecipientIsVerdict, VerdictInv, RowsAccounted, SentIsVouched, Vouched

-----------------------------------------------------------------------------
(* The types of every row and worker hold in every behaviour.               *)
THEOREM TypeCorrect == ASSUME CampaignRunnerAssumption PROVE Spec => []TypeOK
  <1>1. Init => TypeOK
    BY TypeInit
  <1>2. TypeOK /\ [Next]_vars => TypeOK'
    BY TypeStep
  <1>3. QED
    BY <1>1, <1>2, PTL DEF Spec

(* Every request key has one owner at most, and its message row while owned.*)
THEOREM KeysAreOwned == ASSUME CampaignRunnerAssumption PROVE Spec => []KeyInv
  <1>1. Init => KeyInv
    BY KeyInit
  <1>2. TypeOK /\ KeyInv /\ [Next]_vars => KeyInv'
    BY KeyStep
  <1>3. QED
    BY <1>1, <1>2, TypeCorrect, PTL DEF Spec

(* No request is handed to the provider twice, whatever workers overlap,    *)
(* die or are taken over, however long their runs are.                      *)
THEOREM NeverHandedTwice == ASSUME CampaignRunnerAssumption PROVE Spec => []KeyHandedOnce
  <1>1. KeyInv => KeyHandedOnce
    BY DEF KeyInv
  <1>2. QED
    BY <1>1, KeysAreOwned, PTL

(* An accepted message is never relabelled, by a cancel, a removal request  *)
(* or a late answer.                                                        *)
THEOREM AcceptedStays == ASSUME CampaignRunnerAssumption PROVE Spec => AcceptedIsFinal
  <1>1. TypeOK /\ KeyInv /\ [Next]_vars =>
           [\A k \in Keys : message[k] = "ACCEPTED" => message'[k] = "ACCEPTED"]_vars
    BY AcceptedStep
  <1>2. QED
    BY <1>1, TypeCorrect, KeysAreOwned, PTL DEF Spec, AcceptedIsFinal

(* A completed campaign has no recipient in a worker's hands.               *)
THEOREM CompletedStaysQuiet == ASSUME CampaignRunnerAssumption PROVE Spec => []CompletedIsQuiet
  <1>1. Init => CompletedIsQuiet
    BY QuietInit
  <1>2. TypeOK /\ CompletedIsQuiet /\ [Next]_vars => CompletedIsQuiet'
    BY QuietStatus
  <1>3. QED
    BY <1>1, <1>2, TypeCorrect, PTL DEF Spec

(* A recipient is in the hands of one worker at most and PROCESSING there,  *)
(* and no worker takes one that a manager is about to queue again: claims,  *)
(* takeovers of dead runs and retries exclude one another, as long as a run *)
(* ends (deadline: 45 seconds) before it counts as stuck (ten minutes).     *)
THEOREM RecipientsAreHeldOnce ==
  ASSUME CampaignRunnerAssumption, ~LongRuns PROVE Spec => []HoldInv
  <1>1. Init => HoldInv
    BY HoldInit
  <1>2. TypeOK /\ HoldInv /\ [Next]_vars => HoldInv'
    BY HoldStep
  <1>3. QED
    BY <1>1, <1>2, TypeCorrect, PTL DEF Spec

(* What is known of the deliveries: every row and every worker from which   *)
(* an attempt may start has all earlier deliveries attested to.             *)
THEOREM DeliveriesAreAccounted ==
  ASSUME CampaignRunnerAssumption, ~LongRuns PROVE Spec => []VerdictInv
  <1>1. Init => VerdictInv
    BY VerdictInit
  <1>2. TypeOK /\ TypeOK' /\ KeyInv /\ HoldInv /\ VerdictInv /\ [Next]_vars => VerdictInv'
    BY VerdictStep
  <1>3. QED
    BY <1>1, <1>2, TypeCorrect, KeysAreOwned, RecipientsAreHeldOnce, PTL DEF Spec

(* A contact is delivered to again only after a manager's word, each time,  *)
(* that an uncertain attempt was not delivered.                             *)
THEOREM NeverSentBlind ==
  ASSUME CampaignRunnerAssumption, ~LongRuns PROVE Spec => []NoBlindResend
  <1>1. VerdictInv => NoBlindResend
    BY DEF VerdictInv
  <1>2. QED
    BY <1>1, DeliveriesAreAccounted, PTL

(* Without such a word, queued, skipped and failed recipients have not      *)
(* received the message; a recipient that counts as sent has, or a          *)
(* cancelled WhatsApp message stands for it.                                *)
THEOREM RowsTellTheVerdict ==
  ASSUME CampaignRunnerAssumption, ~LongRuns PROVE Spec => []RecipientIsVerdict
  <1>1. TypeOK /\ VerdictInv => RecipientIsVerdict
    BY VerdictIsTrue
  <1>2. QED
    BY <1>1, TypeCorrect, DeliveriesAreAccounted, PTL
-----------------------------------------------------------------------------
(* The promise.  Named first: what it sees of a state.                      *)
Stages == [r \in Recipients |-> Stage(recipient[r].status)]
Receipts == [r \in Recipients |-> Cardinality(Received(r))]
Withdrawn(r) == campaign.whatsapp /\ \E k \in {r} \X Attempts : message[k] = "CANCELLED"
Excused == {r \in Recipients : Withdrawn(r)}

Seen == <<Stages, Receipts, attested, Excused>>

LEMMA SeenByPromise == UNCHANGED Seen => UNCHANGED Promise!promiseVars
  BY DEF Promise!promiseVars, Seen, Stages, Receipts, Received, Excused, Withdrawn

LEMMA ChannelStays == ASSUME TypeOK, [Next]_vars PROVE campaign'.whatsapp = campaign.whatsapp
  <1>0. campaign \in [status : CampaignStatus, whatsapp : BOOLEAN, marketing : BOOLEAN]
    BY DEF TypeOK
  <1>1. ASSUME NEW status, campaign' = [campaign EXCEPT !.status = status]
        PROVE  campaign'.whatsapp = campaign.whatsapp
    BY <1>0, <1>1
  <1>2. ASSUME NEW w \in Workers, processDueCampaigns(w) \/ Throws(w) \/ WorkerDies(w)
        PROVE  campaign'.whatsapp = campaign.whatsapp
    BY <1>1, <1>2 DEF processDueCampaigns, handle, send, Scan, Claim, Finish, WorkerDies,
       ReadCampaign, Pause, WriteRecipient, Throws, Lookup, QuotaExceeded, CreateMessage,
       LinkMessage, Refused, Unavailable, HandOver, Answered, NoAnswer, rows
  <1>3. CASE StartScheduled \/ PausePackage \/ changeCampaignStatus \/ cancel \/ retryRecipient
    BY <1>1, <1>3 DEF StartScheduled, PausePackage, changeCampaignStatus, cancel, retryRecipient,
       ReadRetry, WriteRetry, SetStatus, start, unschedule, pause, resume, rows
  <1>4. CASE \E r \in Recipients :
                MarkStuck(r) \/ BackoffEnds(r) \/ WindowEnds(r) \/ stopPendingMarketing(r)
    BY <1>4 DEF MarkStuck, BackoffEnds, WindowEnds, stopPendingMarketing
  <1>5. QED
    BY <1>2, <1>3, <1>4 DEF Next, vars, rows

LEMMA KeysOf == \A r \in Recipients : {r} \X Attempts \subseteq Keys
  BY DEF Keys

LEMMA SameExcused ==
  ASSUME campaign'.whatsapp = campaign.whatsapp, UNCHANGED message
  PROVE  UNCHANGED Excused
  BY DEF Excused, Withdrawn

LEMMA SameSeen ==
  ASSUME campaign'.whatsapp = campaign.whatsapp, UNCHANGED <<message, delivered, attested>>,
         \A r \in Recipients : recipient'[r].status = recipient[r].status
  PROVE  UNCHANGED Seen
  BY SameExcused DEF Seen, Stages, Receipts, Received

LEMMA OneStage ==
  ASSUME NEW r \in Recipients, NEW status, recipient'[r].status = status,
         \A q \in Recipients \ {r} : recipient'[q].status = recipient[q].status
  PROVE  Stages' = [Stages EXCEPT ![r] = Stage(status)]
  BY DEF Stages

\* The steps of the promise on one recipient, in these terms.
LEMMA StageSteps ==
  ASSUME NEW r \in Recipients, NEW to, Stages' = [Stages EXCEPT ![r] = to],
         UNCHANGED <<Receipts, attested, Excused>>
  PROVE  /\ Stages[r] = "waiting" /\ Accounted(r) /\ to = "inhand" => Promise!Take(r)
         /\ Stages[r] = "inhand" /\ Accounted(r) /\ to \in {"waiting", "skipped", "failed"}
               => Promise!PutBack(r)
         /\ Stages[r] = "inhand" /\ to = "sent" /\ (Cardinality(Received(r)) > 0 \/ r \in Excused)
               => Promise!CountAsSent(r)
         /\ Stages[r] = "inhand" /\ to = "unknown" => Promise!LoseTrack(r)
         /\ Stages[r] \in {"failed", "unknown"} /\ Accounted(r) /\ to = "waiting"
               => Promise!Retry(r)
  <1>1. Receipts[r] = Cardinality(Received(r))
    BY DEF Receipts
  <1>2. Promise!Becomes(r, to)
    BY DEF Promise!Becomes, Stages
  <1>3. /\ UNCHANGED [q \in Recipients |-> Cardinality({k \in delivered : k[1] = q})]
        /\ UNCHANGED {q \in Recipients : campaign.whatsapp
                        /\ \E k \in {q} \X Attempts : message[k] = "CANCELLED"}
    BY DEF Receipts, Received, Excused, Withdrawn
  <1>4. Accounted(r) => Promise!Clear(r)
    BY DEF Accounted, Promise!Clear, Received
  <1>5. Stages[r] = "waiting" /\ Accounted(r) /\ to = "inhand" => Promise!Take(r)
    BY <1>2, <1>3, <1>4 DEF Promise!Take, Stages
  <1>6. Stages[r] = "inhand" /\ Accounted(r) /\ to \in {"waiting", "skipped", "failed"}
               => Promise!PutBack(r)
    BY <1>2, <1>3, <1>4 DEF Promise!PutBack, Stages
  <1>7. Stages[r] = "inhand" /\ to = "sent" /\ (Cardinality(Received(r)) > 0 \/ r \in Excused)
               => Promise!CountAsSent(r)
    BY <1>2, <1>3 DEF Promise!CountAsSent, Stages, Received, Excused, Withdrawn
  <1>8. Stages[r] = "inhand" /\ to = "unknown" => Promise!LoseTrack(r)
    BY <1>2, <1>3 DEF Promise!LoseTrack, Stages
  <1>9. Stages[r] \in {"failed", "unknown"} /\ Accounted(r) /\ to = "waiting" => Promise!Retry(r)
    BY <1>2, <1>3, <1>4 DEF Promise!Retry, Stages
  <1>10. QED
    BY <1>5, <1>6, <1>7, <1>8, <1>9

LEMMA StageOf ==
  ASSUME NEW r \in Recipients
  PROVE  /\ recipient[r].status = "QUEUED" => Stages[r] = "waiting"
         /\ recipient[r].status = "PROCESSING" => Stages[r] = "inhand"
         /\ recipient[r].status = "FAILED" => Stages[r] = "failed"
         /\ recipient[r].status = "UNKNOWN" => Stages[r] = "unknown"
  BY DEF Stages, Stage

\* A worker's steps, the send and the write of its outcome aside.
LEMMA PromiseOfRun ==
  ASSUME CampaignRunnerAssumption, TypeOK, HoldInv, VerdictInv, NEW w \in Workers,
         campaign'.whatsapp = campaign.whatsapp,
         \/ Scan(w) \/ Claim(w) \/ Finish(w) \/ WorkerDies(w)
         \/ ReadCampaign(w) \/ Pause(w) \/ Throws(w)
  PROVE  Promise!PromiseNext \/ UNCHANGED Seen
  <1>1. UNCHANGED <<message, delivered, attested>>
    BY DEF Scan, Claim, Finish, WorkerDies, ReadCampaign, Pause, Throws, rows, history
  <1>2. CASE UNCHANGED recipient
    BY <1>1, <1>2, SameSeen
  <1>3. CASE Claim(w) /\ ~UNCHANGED recipient
    <2>1. PICK k \in worker[w].batch :
            /\ Claimable(k[1])
            /\ recipient' = [recipient EXCEPT ![k[1]].status = "PROCESSING"]
      BY <1>3 DEF Claim
    <2>2. worker[w].batch \subseteq Keys
      BY <1>3 DEF Claim, At, TypeOK, WorkerRec, Idle
    <2>3. k[1] \in Recipients
      BY <2>2 DEF Keys
    <2>4. /\ recipient[k[1]] \in RecipientRec
          /\ recipient'[k[1]].status = "PROCESSING"
          /\ \A q \in Recipients \ {k[1]} : recipient'[q].status = recipient[q].status
      BY <2>1, <2>3 DEF TypeOK, RecipientRec
    <2>5. Stages' = [Stages EXCEPT ![k[1]] = "inhand"]
      BY <2>3, <2>4, OneStage DEF Stage
    <2>6. Stages[k[1]] = "waiting" /\ Accounted(k[1])
      BY <2>1, <2>3, StageOf DEF Claimable, VerdictInv, RowsAccounted
    <2>7. UNCHANGED <<Receipts, attested, Excused>>
      BY <1>1, SameExcused DEF Receipts, Received
    <2>8. Promise!Take(k[1])
      BY <2>3, <2>5, <2>6, <2>7, StageSteps
    <2>9. QED
      BY <2>3, <2>8 DEF Promise!PromiseNext
  <1>4. QED
    BY <1>2, <1>3 DEF Scan, Finish, WorkerDies, ReadCampaign, Pause, Throws, rows

LEMMA PromiseOfWrite ==
  ASSUME CampaignRunnerAssumption, TypeOK, HoldInv, VerdictInv, VerdictInv', NEW w \in Workers,
         campaign'.whatsapp = campaign.whatsapp, WriteRecipient(w)
  PROVE  Promise!PromiseNext \/ UNCHANGED Seen
  <1> DEFINE r == Contact(w)
             outcome == worker[w].outcome
             status == Written(recipient[r], outcome, Key(w)[2]).status
  <1>1. Busy(w) /\ r \in Recipients /\ Stages[r] = "inhand" /\ outcome \in Outcomes
    <2>1. Busy(w) /\ worker[w] \in WorkerRec
      BY DEF WriteRecipient, At, Busy, TypeOK
    <2>2. worker[w].outcome \in Outcomes
      BY <2>1 DEF WriteRecipient, At, WorkerRec, Idle
    <2>3. QED
      BY <2>1, <2>2, BusyWorker, StageOf DEF HoldInv, HeldIsProcessing
  <1>2. UNCHANGED <<message, delivered, attested>>
    BY DEF WriteRecipient, history
  <1>3. /\ recipient'[r].status = status
        /\ \A q \in Recipients \ {r} : recipient'[q].status = recipient[q].status
    BY <1>1 DEF WriteRecipient, TypeOK
  <1>4. UNCHANGED <<Receipts, attested, Excused>>
    BY <1>2, SameExcused DEF Receipts, Received
  <1>5. Stages' = [Stages EXCEPT ![r] = Stage(status)]
    <2> HIDE DEF r, status
    <2> QED
      BY <1>1, <1>3, OneStage
  <1>6. /\ outcome = "sent" => status = "SENT"
        /\ outcome = "failed" => status = "FAILED"
        /\ outcome = "skip" => status = "SKIPPED"
        /\ outcome = "unknown" => status = "UNKNOWN"
        /\ outcome \in {"retry", "requeue", "drop"} => status = "QUEUED"
    BY <1>1 DEF Written, TypeOK, RecipientRec
  <1>7. CASE outcome = "sent"
    <2>1. Vouched(r)
      BY <1>1, <1>7 DEF VerdictInv, SentIsVouched, ConcludedSent, WriteRecipient, At
    <2>2. Cardinality(Received(r)) > 0 \/ r \in Excused
      <3>1. CASE \E k \in delivered : k[1] = r
        <4>1. IsFiniteSet(Received(r)) /\ Cardinality(Received(r)) \in Nat /\ Received(r) # {}
          BY <1>1, <3>1, ReceivedFinite DEF Received
        <4>2. QED
          BY <4>1, FS_EmptySet
      <3>2. QED
        BY <1>1, <2>1, <3>1 DEF Vouched, Excused, Withdrawn
    <2>3. Stages' = [Stages EXCEPT ![r] = "sent"]
      BY <1>5, <1>6, <1>7 DEF Stage
    <2>4. Promise!CountAsSent(r)
      BY <1>1, <1>4, <2>2, <2>3, StageSteps
    <2>5. QED
      BY <1>1, <2>4 DEF Promise!PromiseNext
  <1>8. CASE outcome = "unknown"
    <2>1. Stages' = [Stages EXCEPT ![r] = "unknown"]
      BY <1>5, <1>6, <1>8 DEF Stage
    <2>2. Promise!LoseTrack(r)
      BY <1>1, <1>4, <2>1, StageSteps
    <2>3. QED
      BY <1>1, <2>2 DEF Promise!PromiseNext
  <1>9. CASE outcome \notin {"sent", "unknown"}
    <2>1. Accounted(r)
      BY <1>1, <1>9 DEF VerdictInv, WorkersAccounted, Clear, WriteRecipient, At
    <2>2. Stage(status) \in {"waiting", "skipped", "failed"}
      BY <1>1, <1>6, <1>9 DEF Stage, Outcomes
    <2>3. Promise!PutBack(r)
      BY <1>1, <1>4, <1>5, <2>1, <2>2, StageSteps
    <2>4. QED
      BY <1>1, <2>3 DEF Promise!PromiseNext
  <1>10. QED
    BY <1>7, <1>8, <1>9

-----------------------------------------------------------------------------
(* The other steps of the promise.                                          *)
LEMMA AnswerStep ==
  ASSUME NEW r \in Recipients, Stages[r] = "inhand",
         UNCHANGED <<Stages, Receipts, attested>>, Excused' = Excused \ {r}
  PROVE  Promise!AnswerAfterAll(r)
  BY DEF Promise!AnswerAfterAll, Stages, Receipts, Received, Excused, Withdrawn

LEMMA DeliverStep ==
  ASSUME NEW r \in Recipients, Stages[r] = "inhand", Accounted(r),
         UNCHANGED <<Stages, attested, Excused>>,
         Receipts' = [Receipts EXCEPT ![r] = @ + 1]
  PROVE  Promise!Deliver(r)
  <1>1. Promise!Clear(r)
    BY DEF Accounted, Promise!Clear, Received
  <1>2. QED
    BY <1>1 DEF Promise!Deliver, Stages, Receipts, Received, Excused, Withdrawn

LEMMA WithdrawStep ==
  ASSUME NEW waiting \in SUBSET Recipients, NEW withdrawn \in SUBSET Recipients,
         \A r \in waiting : Stages[r] = "waiting" /\ Accounted(r),
         Stages' = [r \in Recipients |-> IF r \in waiting THEN "skipped" ELSE Stages[r]],
         Excused' = Excused \cup withdrawn, UNCHANGED <<Receipts, attested>>
  PROVE  Promise!PromiseNext
  <1>1. \A r \in waiting : Promise!Clear(r)
    BY DEF Accounted, Promise!Clear, Received
  <1>2. Promise!Withdraw(waiting, withdrawn)
    BY <1>1 DEF Promise!Withdraw, Stages, Receipts, Received, Excused, Withdrawn
  <1>3. QED
    BY <1>2 DEF Promise!PromiseNext

LEMMA WordStep ==
  ASSUME NEW r \in Recipients, Stages[r] = "unknown",
         UNCHANGED <<Stages, Receipts, Excused>>, attested' = [attested EXCEPT ![r] = @ + 1]
  PROVE  Promise!GiveWord(r)
  BY DEF Promise!GiveWord, Stages, Receipts, Received, Excused, Withdrawn

LEMMA PromiseOfSend ==
  ASSUME TypeOK, HoldInv, NEW w \in Workers, send(w), ~HandOver(w)
  PROVE  Promise!PromiseNext \/ UNCHANGED Seen
  <1>1. Busy(w)
    BY DEF send, Lookup, QuotaExceeded, CreateMessage, LinkMessage, Refused, Unavailable,
           HandOver, Answered, NoAnswer, At, Busy
  <1>2. /\ Key(w) \in Keys /\ Contact(w) \in Recipients /\ Key(w)[1] = Contact(w)
        /\ Stages[Contact(w)] = "inhand"
    BY <1>1, BusyWorker, StageOf DEF HoldInv, HeldIsProcessing, Contact
  <1>3. /\ UNCHANGED <<delivered, attested>>
        /\ campaign'.whatsapp = campaign.whatsapp
    BY DEF send, Lookup, QuotaExceeded, CreateMessage, LinkMessage, Refused, Unavailable,
           Answered, NoAnswer, history
  <1>4. UNCHANGED <<Stages, Receipts, attested>>
    BY <1>3, SameStatus DEF Stages, Receipts, Received
  <1>5. \A k \in Keys : message'[k] = message[k] \/ k = Key(w)
    BY <1>2 DEF send, Lookup, QuotaExceeded, CreateMessage, LinkMessage, Refused,
       Unavailable, Answered, NoAnswer, TypeOK, rows
  <1>6. campaign.whatsapp /\ message'[Key(w)] = "CANCELLED" => message[Key(w)] = "CANCELLED"
    BY <1>2 DEF send, Lookup, QuotaExceeded, CreateMessage, LinkMessage, Refused, Unavailable,
       Answered, AnswerStatus, NoAnswer, TypeOK
  <1>7. PICK r \in Recipients : r = Contact(w)
    BY <1>2
  <1>8. \A q \in Recipients \ {r} : Withdrawn(q)' <=> Withdrawn(q)
    BY <1>2, <1>3, <1>5, <1>7 DEF Withdrawn, Keys
  <1>9. Withdrawn(r)' => Withdrawn(r)
    BY <1>2, <1>3, <1>5, <1>6, <1>7 DEF Withdrawn, Keys
  <1>10. CASE Withdrawn(r)' <=> Withdrawn(r)
    <2>1. UNCHANGED Excused
      BY <1>8, <1>10 DEF Excused
    <2>2. QED
      BY <1>4, <2>1 DEF Seen
  <1>11. CASE ~Withdrawn(r)' /\ Withdrawn(r)
    <2>1. Excused' = Excused \ {r}
      BY <1>8, <1>11 DEF Excused
    <2>2. Promise!AnswerAfterAll(r)
      BY <1>2, <1>4, <1>7, <2>1, AnswerStep
    <2>3. QED
      BY <2>2 DEF Promise!PromiseNext
  <1>12. QED
    BY <1>9, <1>10, <1>11

\* A delivery: a request that was not delivered before, for one in hand.
LEMMA PromiseOfHandOver ==
  ASSUME CampaignRunnerAssumption, TypeOK, HoldInv, VerdictInv, NEW w \in Workers, HandOver(w)
  PROVE  Promise!PromiseNext \/ UNCHANGED Seen
  <1>1. Busy(w) /\ worker[w].pc = "check"
    BY DEF HandOver, At, Busy
  <1>2. /\ Key(w) \in Keys /\ Contact(w) \in Recipients /\ Key(w)[1] = Contact(w)
        /\ Stages[Contact(w)] = "inhand" /\ Accounted(Contact(w))
    BY <1>1, BusyWorker, StageOf DEF HoldInv, HeldIsProcessing, VerdictInv, WorkersAccounted,
       Clear, Contact, At
  <1>3. UNCHANGED <<campaign, recipient, message, attested>>
    BY DEF HandOver, rows
  <1>4. UNCHANGED <<Stages, attested, Excused>>
    BY <1>3 DEF Stages, Excused, Withdrawn
  <1>5. CASE UNCHANGED delivered
    BY <1>4, <1>5 DEF Seen, Receipts, Received
  <1>6. CASE delivered' = delivered \cup {Key(w)} /\ Key(w) \notin delivered
    <2>1. PICK k \in Keys : k = Key(w)
      BY <1>2
    <2>2. k[1] \in Recipients /\ delivered' = delivered \cup {k} /\ k \notin delivered
      BY <1>2, <1>6, <2>1
    <2>3. \A q \in Recipients \ {k[1]} : Received(q)' = Received(q)
      BY <2>2, OneMoreReceived
    <2>4. Cardinality(Received(k[1])') = Cardinality(Received(k[1])) + 1
      <3>1. Received(k[1])' = Received(k[1]) \cup {k} /\ k \notin Received(k[1])
        BY <2>2 DEF Received
      <3>2. IsFiniteSet(Received(k[1]))
        BY <2>2, ReceivedFinite
      <3>3. Cardinality(Received(k[1]) \cup {k}) = Cardinality(Received(k[1])) + 1
        BY <3>1, <3>2, FS_AddElement
      <3>4. QED
        BY <3>1, <3>3
    <2>5. Receipts' = [Receipts EXCEPT ![k[1]] = @ + 1]
      BY <2>2, <2>3, <2>4 DEF Receipts
    <2>6. Promise!Deliver(k[1])
      BY <1>2, <1>4, <2>1, <2>2, <2>5, DeliverStep
    <2>7. QED
      BY <2>2, <2>6 DEF Promise!PromiseNext
  <1>7. QED
    BY <1>5, <1>6 DEF HandOver

\* The commands, and what time does.
LEMMA PromiseOfCancel ==
  ASSUME TypeOK, VerdictInv, campaign'.whatsapp = campaign.whatsapp,
         UNCHANGED <<delivered, attested>>,
         NEW set \in SUBSET Recipients, SkipQueued(set), NEW keys, CancelQueued(keys)
  PROVE  Promise!PromiseNext
  <1> DEFINE waiting == {r \in set : recipient[r].status = "QUEUED"}
             withdrawn == Excused'
  <1>1. waiting \in SUBSET Recipients /\ withdrawn \in SUBSET Recipients
    BY DEF Excused
  <1>2. \A r \in waiting : Stages[r] = "waiting" /\ Accounted(r)
    BY StageOf DEF VerdictInv, RowsAccounted
  <1>3. Stages' = [r \in Recipients |-> IF r \in waiting THEN "skipped" ELSE Stages[r]]
    <2>1. \A r \in Recipients : recipient'[r].status =
             IF r \in waiting THEN "SKIPPED" ELSE recipient[r].status
      BY DEF SkipQueued, TypeOK, RecipientRec
    <2>2. Stage("SKIPPED") = "skipped"
      BY DEF Stage
    <2> HIDE DEF waiting
    <2>3. QED
      BY <2>1, <2>2 DEF Stages
  <1>4. \A r \in Recipients : Withdrawn(r) => Withdrawn(r)'
    BY DEF Withdrawn, CancelQueued, Keys
  <1>5. Excused' = Excused \cup withdrawn
    BY <1>4 DEF Excused
  <1>6. UNCHANGED <<Receipts, attested>>
    BY DEF Receipts, Received
  <1> HIDE DEF waiting, withdrawn
  <1>7. QED
    BY <1>1, <1>2, <1>3, <1>5, <1>6, WithdrawStep

LEMMA PromiseOutside ==
  ASSUME CampaignRunnerAssumption, TypeOK, HoldInv, VerdictInv,
         campaign'.whatsapp = campaign.whatsapp,
         \/ StartScheduled \/ PausePackage \/ changeCampaignStatus \/ cancel \/ retryRecipient
         \/ \E r \in Recipients :
               MarkStuck(r) \/ BackoffEnds(r) \/ WindowEnds(r) \/ stopPendingMarketing(r)
  PROVE  Promise!PromiseNext \/ UNCHANGED Seen
  <1>0. \A r \in Recipients : recipient[r] \in RecipientRec
    BY DEF TypeOK
  <1>1. CASE StartScheduled \/ PausePackage \/ changeCampaignStatus
             \/ \E r \in Recipients : WindowEnds(r)
    <2>1. UNCHANGED <<recipient, message, delivered, attested>>
      BY <1>1 DEF StartScheduled, PausePackage, changeCampaignStatus, WindowEnds, history
    <2>2. QED
      BY <2>1, SameSeen
  <1>2. ASSUME NEW r \in Recipients, BackoffEnds(r) PROVE UNCHANGED Seen
    <2>1. /\ UNCHANGED <<message, delivered, attested>>
          /\ \A q \in Recipients : recipient'[q].status = recipient[q].status
      BY <1>0, <1>2 DEF BackoffEnds, history, TypeOK, RecipientRec
    <2>2. QED
      BY <2>1, SameSeen
  <1>3. CASE cancel
    <2>1. /\ SkipQueued(Recipients) /\ \E keys : CancelQueued(keys)
          /\ UNCHANGED <<delivered, attested>>
      BY <1>3 DEF cancel, history
    <2>2. QED
      BY <2>1, PromiseOfCancel
  <1>4. ASSUME NEW r \in Recipients, stopPendingMarketing(r) PROVE Promise!PromiseNext
    <2>1. /\ SkipQueued({r}) /\ \E keys : CancelQueued(keys)
          /\ UNCHANGED <<delivered, attested>>
      BY <1>4 DEF stopPendingMarketing, history
    <2>2. QED
      BY <2>1, PromiseOfCancel
  <1>5. ASSUME NEW r \in Recipients, MarkStuck(r) PROVE Promise!PromiseNext
    <2>1. /\ recipient'[r].status = "UNKNOWN" /\ Stages[r] = "inhand"
          /\ \A q \in Recipients \ {r} : recipient'[q].status = recipient[q].status
          /\ UNCHANGED <<message, delivered, attested>>
      BY <1>0, <1>5, StageOf DEF MarkStuck, Overdue, Stuck, history, TypeOK, RecipientRec
    <2>2. Stages' = [Stages EXCEPT ![r] = "unknown"]
      BY <2>1, OneStage DEF Stage
    <2>3. UNCHANGED <<Receipts, attested, Excused>>
      BY <2>1, SameExcused DEF Receipts, Received
    <2>4. Promise!LoseTrack(r)
      BY <2>1, <2>2, <2>3, StageSteps
    <2>5. QED
      BY <2>4 DEF Promise!PromiseNext
  <1>6. ASSUME NEW r \in Recipients, ReadRetry(r) PROVE Promise!PromiseNext \/ UNCHANGED Seen
    <2>1. UNCHANGED <<recipient, message, delivered>>
      BY <1>6 DEF ReadRetry, rows
    <2>2. UNCHANGED <<Stages, Receipts, Excused>>
      BY <2>1, SameExcused DEF Stages, Receipts, Received
    <2>3. CASE recipient[r].status = "UNKNOWN"
      <3>1. Stages[r] = "unknown" /\ attested' = [attested EXCEPT ![r] = @ + 1]
        BY <1>6, <2>3, StageOf DEF ReadRetry
      <3>2. Promise!GiveWord(r)
        BY <2>2, <3>1, WordStep
      <3>3. QED
        BY <3>2 DEF Promise!PromiseNext
    <2>4. CASE recipient[r].status # "UNKNOWN"
      <3>1. UNCHANGED attested
        BY <1>6, <2>4 DEF ReadRetry, TypeOK
      <3>2. QED
        BY <2>2, <3>1 DEF Seen
    <2>5. QED
      BY <2>3, <2>4
  <1>7. CASE WriteRetry
    <2>1. PICK r \in Recipients : r = retry.recipient
      BY <1>7 DEF WriteRetry, TypeOK, RetryRec
    <2>2. /\ Stages[r] \in {"failed", "unknown"} /\ Accounted(r)
          /\ recipient'[r].status = "QUEUED"
          /\ \A q \in Recipients \ {r} : recipient'[q].status = recipient[q].status
          /\ UNCHANGED <<message, delivered, attested>>
      BY <1>0, <1>7, <2>1, StageOf DEF WriteRetry, HoldInv, RetryWaits, VerdictInv,
         RetryAccounted, history, TypeOK, RecipientRec
    <2>3. Stages' = [Stages EXCEPT ![r] = "waiting"]
      BY <2>2, OneStage DEF Stage
    <2>4. UNCHANGED <<Receipts, attested, Excused>>
      BY <2>2, SameExcused DEF Receipts, Received
    <2>5. Promise!Retry(r)
      BY <2>2, <2>3, <2>4, StageSteps
    <2>6. QED
      BY <2>5 DEF Promise!PromiseNext
  <1>8. QED
    BY <1>1, <1>2, <1>3, <1>4, <1>5, <1>6, <1>7 DEF retryRecipient

LEMMA PromiseStarts == ASSUME Init PROVE Promise!PromiseInit
  <1>1. /\ \A r \in Recipients : recipient[r].status \in {"QUEUED", "SKIPPED"}
        /\ delivered = {} /\ attested = [r \in Recipients |-> 0]
        /\ \A k \in Keys : message[k] = "none"
    BY DEF Init
  <1>2. Stages \in [Recipients -> {"waiting", "skipped"}]
    BY <1>1 DEF Stages, Stage
  <1>3. Receipts = [r \in Recipients |-> 0]
    <2>1. \A r \in Recipients : Received(r) = {}
      BY <1>1 DEF Received
    <2>2. QED
      BY <2>1, FS_EmptySet DEF Receipts
  <1>4. Excused = {}
    BY <1>1 DEF Excused, Withdrawn, Keys
  <1>5. QED
    BY <1>1, <1>2, <1>3, <1>4 DEF Promise!PromiseInit, Stages, Receipts, Received, Excused, Withdrawn

LEMMA PromiseStep ==
  ASSUME CampaignRunnerAssumption, TypeOK, HoldInv, VerdictInv, VerdictInv', [Next]_vars
  PROVE  [Promise!PromiseNext]_Promise!promiseVars
  <1>1. campaign'.whatsapp = campaign.whatsapp
    BY ChannelStays
  <1>2. CASE UNCHANGED vars
    <2>1. UNCHANGED <<recipient, message, delivered, attested>>
      BY <1>2 DEF vars, rows, history
    <2>2. UNCHANGED Seen
      BY <1>1, <2>1, SameSeen
    <2>3. QED
      BY <2>2, SeenByPromise
  <1>3. CASE Next
    <2>1. Promise!PromiseNext \/ UNCHANGED Seen
      BY <1>1, <1>3, PromiseOfRun, PromiseOfWrite, PromiseOfSend, PromiseOfHandOver, PromiseOutside
         DEF Next, processDueCampaigns, handle
    <2>2. QED
      BY <2>1, SeenByPromise
  <1>4. QED
    BY <1>2, <1>3

(* A campaign keeps the promise of SendingPromise, contact by contact:       *)
(* workers, batches, request keys and retries are one way of keeping it.    *)
THEOREM KeepsSendingPromiseHolds ==
  ASSUME CampaignRunnerAssumption, ~LongRuns PROVE Spec => KeepsSendingPromise
  <1>1. Init => Promise!PromiseInit
    BY PromiseStarts
  <1>2. TypeOK /\ HoldInv /\ VerdictInv /\ VerdictInv' /\ [Next]_vars
           => [Promise!PromiseNext]_Promise!promiseVars
    BY PromiseStep
  <1>3. QED
    BY <1>1, <1>2, TypeCorrect, RecipientsAreHeldOnce, DeliveriesAreAccounted, PTL
       DEF Spec, KeepsSendingPromise, Promise!PromiseSpec
=============================================================================
