--------------------------- MODULE MarketingProofs ---------------------------
(* Proofs about marketing: SequenceRuns and DeliveryStatus.                  *)
EXTENDS SequenceRuns, DeliveryStatus, TLAPS

-----------------------------------------------------------------------------
(* Sequences.                                                               *)

\* Whoever has created a step's message is the only one to have created it.
OneQueues ==
    \A w \in SeqWorkers : seqWorker[w].pc = "queued" =>
        /\ note[seqWorker[w].at] # "none" /\ posted[seqWorker[w].at] = 0
        /\ \A v \in SeqWorkers :
               seqWorker[v].pc = "queued" /\ seqWorker[v].at = seqWorker[w].at => v = w

UnwrittenIsUnsent == \A i \in Positions : note[i] = "none" => posted[i] = 0

SeqInv == SeqTypeOK /\ OneQueues /\ UnwrittenIsUnsent /\ StepPostedOnce

LEMMA FirstStep == 1 \in Positions /\ Len(Steps) \in Nat
<1>1. Steps \in Seq({"send", "act", "gate"}) /\ Steps # << >>
    BY SeqAssumption
<1>2. Len(Steps) \in Nat /\ Len(Steps) # 0
    BY <1>1
<1> QED
    BY <1>2 DEF Positions

LEMMA SeqStart == SeqInit => SeqInv
<1> SUFFICES ASSUME SeqInit PROVE SeqInv
    OBVIOUS
<1>1. SeqTypeOK
    BY FirstStep DEF SeqInit, SeqTypeOK, RunStatus, NoteStatus, Hand, NoHand
<1>2. \A w \in SeqWorkers : seqWorker[w].pc = "idle"
    BY DEF SeqInit, NoHand
<1>3. StepPostedOnce /\ UnwrittenIsUnsent
    BY DEF SeqInit, StepPostedOnce, UnwrittenIsUnsent
<1> QED
    BY <1>1, <1>2, <1>3 DEF SeqInv, OneQueues

\* A worker's step that neither creates nor sends a message.
LEMMA QuietStep ==
    ASSUME SeqInv, NEW w \in SeqWorkers, NEW hand \in Hand, hand.pc # "queued",
           seqWorker' = [seqWorker EXCEPT ![w] = hand],
           run' \in [status : RunStatus, step : Positions],
           UNCHANGED <<note, optedOut, retrying, posted>>
    PROVE  SeqInv'
BY DEF SeqInv, SeqTypeOK, OneQueues, UnwrittenIsUnsent, StepPostedOnce

LEMMA FinishIsQuiet ==
    ASSUME SeqInv, NEW w \in SeqWorkers, NEW status \in RunStatus, NEW step \in Positions,
           Finish(w, status, step), UNCHANGED <<note, optedOut, retrying, posted>>
    PROVE  SeqInv'
<1>1. NoHand \in Hand /\ NoHand.pc = "idle"
    BY FirstStep DEF NoHand, Hand
<1>2. run' \in [status : RunStatus, step : Positions]
    BY DEF Finish
<1> QED
    BY <1>1, <1>2, QuietStep DEF Finish

LEMMA MoveIsQuiet ==
    ASSUME SeqInv, NEW w \in SeqWorkers, NEW pc \in {"idle", "listed"} \cup Busy, pc # "queued",
           Moves(w, pc), run' \in [status : RunStatus, step : Positions],
           UNCHANGED <<note, optedOut, retrying, posted>>
    PROVE  SeqInv'
<1>1. seqWorker[w] \in Hand
    BY DEF SeqInv, SeqTypeOK
<1>2. [seqWorker[w] EXCEPT !.pc = pc] \in Hand /\ [seqWorker[w] EXCEPT !.pc = pc].pc = pc
    BY <1>1 DEF Hand
<1>3. seqWorker' = [seqWorker EXCEPT ![w] = [seqWorker[w] EXCEPT !.pc = pc]]
    BY DEF Moves
<1> HIDE DEF Hand
<1> QED
    BY <1>2, <1>3, QuietStep

LEMMA NextStepIsQuiet ==
    ASSUME SeqInv, NEW w \in SeqWorkers, NextStep(w), UNCHANGED <<note, optedOut, retrying, posted>>
    PROVE  SeqInv'
<1>1. seqWorker[w].at \in Positions /\ run.step \in Positions
    BY DEF SeqInv, SeqTypeOK, Hand
<1>2. seqWorker[w].at # Len(Steps) => seqWorker[w].at + 1 \in Positions
    BY <1>1, FirstStep DEF Positions
<1> QED
    BY <1>1, <1>2, FinishIsQuiet DEF NextStep, RunStatus

\* A step of someone else, who may cancel messages but writes no new one.
LEMMA OthersKeep ==
    ASSUME SeqInv, UNCHANGED <<seqWorker, posted>>,
           run' \in [status : RunStatus, step : Positions],
           optedOut' \in BOOLEAN, retrying' \in BOOLEAN,
           note' = [i \in Positions |-> IF note[i] = "QUEUED" THEN "CANCELLED" ELSE note[i]]
           \/ note' = note
    PROVE  SeqInv'
BY DEF SeqInv, SeqTypeOK, OneQueues, UnwrittenIsUnsent, StepPostedOnce, NoteStatus, Hand

LEMMA SeqKept == SeqInv /\ [SeqNext]_seqVars => SeqInv'
<1> SUFFICES ASSUME SeqInv, [SeqNext]_seqVars PROVE SeqInv'
    OBVIOUS
<1>0. /\ run \in [status : RunStatus, step : Positions] /\ run.step \in Positions
      /\ seqWorker \in [SeqWorkers -> Hand]
      /\ \A w \in SeqWorkers : seqWorker[w] \in Hand /\ seqWorker[w].at \in Positions
    BY DEF SeqInv, SeqTypeOK, Hand
<1>1. ASSUME NEW w \in SeqWorkers, ListDue(w) PROVE SeqInv'
    <2>1. GiveBack \in [status : RunStatus, step : Positions]
        BY <1>0 DEF GiveBack, RunStatus
    <2>2. [NoHand EXCEPT !.pc = "listed", !.at = run.step] \in Hand
          /\ [NoHand EXCEPT !.pc = "listed", !.at = run.step].pc = "listed"
        <3>1. NoHand \in Hand
            BY FirstStep DEF NoHand, Hand
        <3> QED
            BY <1>0, <3>1 DEF Hand
    <2> HIDE DEF Hand
    <2> QED
        BY <1>1, <2>1, <2>2, QuietStep DEF ListDue
<1>2. ASSUME NEW w \in SeqWorkers, ClaimRun(w) PROVE SeqInv'
    <2>1. CASE run.status = "PENDING"
        <3> DEFINE hand == [seqWorker[w] EXCEPT !.pc = "claimed", !.late = optedOut]
        <3>1. seqWorker' = [seqWorker EXCEPT ![w] = hand] /\ UNCHANGED <<note, optedOut, retrying, posted>>
            BY <1>0, <1>2, <2>1 DEF ClaimRun
        <3>2. hand \in Hand /\ hand.pc = "claimed"
            BY <1>0 DEF Hand, Busy, SeqInv, SeqTypeOK
        <3>3. run' \in [status : RunStatus, step : Positions]
            BY <1>0, <1>2, <2>1 DEF ClaimRun, RunStatus
        <3> HIDE DEF hand
        <3> QED
            BY <3>1, <3>2, <3>3, QuietStep
    <2>2. CASE run.status # "PENDING"
        BY <1>0, <1>2, <2>2, MoveIsQuiet DEF ClaimRun
    <2> QED
        BY <2>1, <2>2
<1>3. ASSUME NEW w \in SeqWorkers, CheckStep(w) PROVE SeqInv'
    BY <1>0, <1>3, FinishIsQuiet, MoveIsQuiet DEF CheckStep, RunStatus, Busy
<1>3a. ASSUME NEW w \in SeqWorkers, DecideStep(w) PROVE SeqInv'
    <2>1. Kind(w) \in {"send", "act", "gate"}
        BY <1>0, SeqAssumption, FirstStep DEF Kind, Positions
    <2> QED
        BY <1>0, <1>3a, <2>1, FinishIsQuiet, NextStepIsQuiet, MoveIsQuiet
           DEF DecideStep, RunStatus, Busy
<1>4. ASSUME NEW w \in SeqWorkers, Act(w) PROVE SeqInv'
    BY <1>0, <1>4, MoveIsQuiet DEF Act, Busy
<1>5. ASSUME NEW w \in SeqWorkers, LookUpNote(w) PROVE SeqInv'
    BY <1>0, <1>5, FinishIsQuiet, MoveIsQuiet DEF LookUpNote, RunStatus, Busy
<1>5a. ASSUME NEW w \in SeqWorkers, ClearNote(w) PROVE SeqInv'
    BY <1>0, <1>5a, MoveIsQuiet DEF ClearNote, Busy
<1>6. ASSUME NEW w \in SeqWorkers, RefuseNote(w) PROVE SeqInv'
    BY <1>0, <1>6, FinishIsQuiet, MoveIsQuiet DEF RefuseNote, RunStatus, Busy
<1>7. ASSUME NEW w \in SeqWorkers, QueueNote(w) PROVE SeqInv'
    <2> DEFINE at == seqWorker[w].at
    <2>1. CASE ~IsNew(note[at])
        BY <1>0, <1>7, <2>1, FinishIsQuiet DEF QueueNote, RunStatus
    <2>2. CASE IsNew(note[at])
        <3>1. /\ note' = [note EXCEPT ![at] = "QUEUED"] /\ note[at] = "none" /\ at \in Positions
              /\ seqWorker' = [seqWorker EXCEPT ![w] = [seqWorker[w] EXCEPT !.pc = "queued"]]
              /\ UNCHANGED <<run, optedOut, retrying, posted>>
            BY <1>0, <1>7, <2>2 DEF QueueNote, Moves, IsNew
        <3>2. [seqWorker[w] EXCEPT !.pc = "queued"] \in Hand
              /\ [seqWorker[w] EXCEPT !.pc = "queued"].at = at
            BY <1>0 DEF Hand, Busy
        <3>3. posted[at] = 0 /\ \A v \in SeqWorkers : seqWorker[v].pc = "queued" => seqWorker[v].at # at
            BY <3>1 DEF SeqInv, UnwrittenIsUnsent, OneQueues
        <3>4. SeqTypeOK'
            BY <3>1, <3>2 DEF SeqInv, SeqTypeOK, NoteStatus
        <3>5. (UnwrittenIsUnsent /\ StepPostedOnce)'
            BY <3>1 DEF SeqInv, SeqTypeOK, UnwrittenIsUnsent, StepPostedOnce
        <3>6. OneQueues'
            BY <1>0, <3>1, <3>2, <3>3 DEF SeqInv, SeqTypeOK, OneQueues
        <3> QED
            BY <3>4, <3>5, <3>6 DEF SeqInv
    <2> QED
        BY <2>1, <2>2
<1>7a. ASSUME NEW w \in SeqWorkers, DropNote(w) PROVE SeqInv'
    <2> DEFINE hand == [seqWorker[w] EXCEPT !.pc = "performed"]
    <2>1. hand \in Hand /\ hand.pc = "performed"
        BY <1>0 DEF Hand, Busy
    <2>2. /\ note' = [note EXCEPT ![seqWorker[w].at] = "CANCELLED"]
          /\ seqWorker' = [seqWorker EXCEPT ![w] = hand]
          /\ UNCHANGED <<run, optedOut, retrying, posted>>
        BY <1>7a DEF DropNote, Moves
    <2> HIDE DEF hand
    <2>3. SeqTypeOK'
        BY <1>0, <2>1, <2>2 DEF SeqInv, SeqTypeOK, NoteStatus
    <2>4. (UnwrittenIsUnsent /\ StepPostedOnce)'
        BY <1>0, <2>2 DEF SeqInv, SeqTypeOK, UnwrittenIsUnsent, StepPostedOnce
    <2>5. OneQueues'
        BY <1>0, <2>1, <2>2 DEF SeqInv, SeqTypeOK, OneQueues
    <2> QED
        BY <2>3, <2>4, <2>5 DEF SeqInv
<1>8. ASSUME NEW w \in SeqWorkers, PostNote(w) PROVE SeqInv'
    <2> DEFINE at == seqWorker[w].at
    <2>1. seqWorker[w].pc = "queued" /\ note[at] # "none" /\ posted[at] = 0 /\ at \in Positions
          /\ UNCHANGED <<optedOut, retrying>>
        BY <1>0, <1>8 DEF PostNote, SeqInv, OneQueues
    <2>2. CASE optedOut
        <3>1. /\ note' = [note EXCEPT ![at] = "CANCELLED"] /\ UNCHANGED posted
              /\ run' = [status |-> "STOPPED", step |-> run.step]
              /\ seqWorker' = [seqWorker EXCEPT ![w] = NoHand]
            BY <1>8, <2>2 DEF PostNote, Finish
        <3>2. NoHand \in Hand /\ NoHand.pc = "idle"
            BY FirstStep DEF NoHand, Hand
        <3>3. SeqTypeOK'
            BY <1>0, <2>1, <3>1, <3>2 DEF SeqInv, SeqTypeOK, NoteStatus, RunStatus
        <3> QED
            BY <1>0, <2>1, <3>1, <3>2, <3>3
               DEF SeqInv, SeqTypeOK, OneQueues, UnwrittenIsUnsent, StepPostedOnce
    <2>3. CASE ~optedOut
        <3>1. /\ posted' = [posted EXCEPT ![at] = posted[at] + 1] /\ UNCHANGED <<run, note>>
              /\ seqWorker' = [seqWorker EXCEPT ![w] = [seqWorker[w] EXCEPT !.pc = "asked"]]
            BY <1>8, <2>3 DEF PostNote, Moves
        <3>2. [seqWorker[w] EXCEPT !.pc = "asked"] \in Hand
              /\ [seqWorker[w] EXCEPT !.pc = "asked"].pc = "asked"
            BY <1>0 DEF Hand, Busy
        <3>3. SeqTypeOK'
            BY <1>0, <2>1, <3>1, <3>2 DEF SeqInv, SeqTypeOK
        <3>4. (UnwrittenIsUnsent /\ StepPostedOnce)'
            BY <2>1, <3>1 DEF SeqInv, SeqTypeOK, UnwrittenIsUnsent, StepPostedOnce
        <3>5. \A v \in SeqWorkers : seqWorker'[v].pc = "queued" =>
                  v # w /\ seqWorker'[v] = seqWorker[v] /\ seqWorker[v].at # at
            BY <1>0, <2>1, <3>1, <3>2 DEF SeqInv, OneQueues
        <3>6. OneQueues'
            BY <1>0, <3>1, <3>5 DEF SeqInv, SeqTypeOK, OneQueues
        <3> QED
            BY <3>3, <3>4, <3>6 DEF SeqInv
    <2> QED
        BY <2>2, <2>3
<1>9. ASSUME NEW w \in SeqWorkers, NEW result \in {"ACCEPTED", "UNKNOWN", "FAILED"},
             NoteAnswered(w, result)
      PROVE  SeqInv'
    <2> DEFINE at == seqWorker[w].at
    <2>1. PICK hand \in Hand :
              hand.pc # "queued" /\ seqWorker' = [seqWorker EXCEPT ![w] = hand]
        <3>1. NoHand \in Hand /\ NoHand.pc = "idle"
            BY FirstStep DEF NoHand, Hand
        <3>2. [seqWorker[w] EXCEPT !.pc = "performed"] \in Hand
              /\ [seqWorker[w] EXCEPT !.pc = "performed"].pc = "performed"
            BY <1>0 DEF Hand, Busy
        <3> HIDE DEF Hand
        <3> QED
            BY <1>9, <3>1, <3>2 DEF NoteAnswered, Finish, Moves
    <2>2. /\ note' = [note EXCEPT ![at] = result] /\ at \in Positions
          /\ run' \in [status : RunStatus, step : Positions]
          /\ UNCHANGED <<optedOut, retrying, posted>>
        BY <1>0, <1>9 DEF NoteAnswered, Finish, RunStatus
    <2>3. SeqTypeOK'
        BY <1>0, <2>1, <2>2 DEF SeqInv, SeqTypeOK, NoteStatus
    <2>4. (UnwrittenIsUnsent /\ StepPostedOnce)'
        BY <2>2 DEF SeqInv, SeqTypeOK, UnwrittenIsUnsent, StepPostedOnce
    <2>5. OneQueues'
        BY <1>0, <2>1, <2>2 DEF SeqInv, SeqTypeOK, OneQueues
    <2> QED
        BY <2>3, <2>4, <2>5 DEF SeqInv
<1>10. ASSUME NEW w \in SeqWorkers, CloseStep(w) PROVE SeqInv'
    BY <1>0, <1>10, FinishIsQuiet, NextStepIsQuiet DEF CloseStep, RunStatus
<1>10a. ASSUME NEW w \in SeqWorkers, StepThrows(w) PROVE SeqInv'
    BY <1>0, <1>10a, FinishIsQuiet DEF StepThrows, RunStatus
<1>11. ASSUME NEW w \in SeqWorkers, SeqKilled(w) PROVE SeqInv'
    <2>1. NoHand \in Hand /\ NoHand.pc = "idle"
        BY FirstStep DEF NoHand, Hand
    <2> HIDE DEF Hand
    <2> QED
        BY <1>0, <1>11, <2>1, QuietStep DEF SeqKilled
<1>12. CASE OptOut \/ StopRun \/ RetryCheck \/ RetryWrite
    <2>1. StoppedRun \in [status : RunStatus, step : Positions]
          /\ [run EXCEPT !.status = "PENDING"] \in [status : RunStatus, step : Positions]
        BY <1>0 DEF StoppedRun, RunStatus
    <2>2. optedOut \in BOOLEAN /\ retrying \in BOOLEAN
        BY DEF SeqInv, SeqTypeOK
    <2> QED
        BY <1>0, <1>12, <2>1, <2>2, OthersKeep DEF OptOut, StopRun, RetryCheck, RetryWrite
<1>13. CASE UNCHANGED seqVars
    BY <1>13 DEF seqVars, SeqInv, SeqTypeOK, OneQueues, UnwrittenIsUnsent, StepPostedOnce
<1> QED
    BY <1>1, <1>2, <1>3, <1>3a, <1>4, <1>5, <1>5a, <1>6, <1>7, <1>7a, <1>8, <1>9, <1>10, <1>10a,
       <1>11, <1>12, <1>13 DEF SeqNext, SeqStep

(* A step's message goes to the provider at most once, for any journey and  *)
(* any number of workers (the unique requestKey of sendChannelMessage).     *)
THEOREM StepPostedOnceHolds == SeqSpec => []StepPostedOnce
<1>1. SeqInv => StepPostedOnce
    BY DEF SeqInv
<1> QED
    BY <1>1, SeqStart, SeqKept, PTL DEF SeqSpec

-----------------------------------------------------------------------------
(* Delivery statuses.                                                       *)
Goods == {"ACCEPTED", "SENT", "DELIVERED", "READ"}

\* The furthest of the good reports, and what StatusIsVerdict says of a status.
Top(g) == IF "READ" \in g THEN "READ" ELSE IF "DELIVERED" \in g THEN "DELIVERED"
          ELSE IF "SENT" \in g THEN "SENT" ELSE "ACCEPTED"

GoodOf(reports) == (reports \ Failures) \cup {"ACCEPTED"}

Verdict(status, reports) ==
    \/ status \in reports \cap Failures
    \/ /\ reports \cap Failures = {} \/ GoodOf(reports) \cap {"DELIVERED", "READ"} # {}
       /\ status = Top(GoodOf(reports))

LEMMA FurthestIsTop ==
    ASSUME NEW g \in SUBSET Goods, "ACCEPTED" \in g
    PROVE  Furthest(g) = Top(g)
<1>1. Top(g) \in g /\ \A t \in g : Rank(t) <= Rank(Top(g))
    BY DEF Top, Rank, Goods
<1>2. ASSUME NEW s \in g, \A t \in g : Rank(t) <= Rank(s) PROVE s = Top(g)
    <2>1. Rank(Top(g)) = Rank(s)
        <3>1. Rank(s) \in Nat /\ Rank(Top(g)) \in Nat
            BY <1>2 DEF Rank, Goods, Top
        <3> QED
            BY <1>1, <1>2, <3>1
    <2>2. s \in Goods /\ Top(g) \in Goods
        BY <1>2 DEF Top, Goods
    <2> QED
        BY <2>1, <2>2 DEF Rank, Goods
<1> QED
    BY <1>1, <1>2 DEF Furthest

LEMMA GoodsOfReports ==
    ASSUME NEW reports \in SUBSET Reports
    PROVE  GoodOf(reports) \in SUBSET Goods /\ "ACCEPTED" \in GoodOf(reports)
BY DEF GoodOf, Reports, Failures, Goods

LEMMA VerdictSaid ==
    ASSUME DeliveryTypeOK
    PROVE  StatusIsVerdict <=> /\ letter.known => Verdict(letter.status, seen)
                               /\ announced => letter.status \in Failures
<1>1. seen \in SUBSET Reports
    BY DEF DeliveryTypeOK
<1>2. Furthest(GoodOf(seen)) = Top(GoodOf(seen))
    BY <1>1, GoodsOfReports, FurthestIsTop
<1> QED
    BY <1>2 DEF StatusIsVerdict, Verdict, GoodOf

\* Each way of applying a report keeps the verdict.
LEMMA TextKeepsVerdict ==
    ASSUME NEW reports \in SUBSET Reports, NEW status, Verdict(status, reports), NEW s \in Reports
    PROVE  Verdict(IF TooLate(s, status) THEN status ELSE s, reports \cup {s})
<1>1. status \in Goods \cup Failures
    BY DEF Verdict, Top, Goods
<1>2. CASE s \in Failures
    BY <1>1, <1>2 DEF Verdict, TooLate, Rank, GoodOf, Top, Reports, Failures, Goods
<1>3. CASE s \notin Failures
    BY <1>1, <1>3 DEF Verdict, TooLate, Rank, GoodOf, Top, Reports, Failures, Goods
<1> QED
    BY <1>2, <1>3

LEMMA WhatsAppKeepsVerdict ==
    ASSUME NEW reports \in SUBSET Reports, NEW status, Verdict(status, reports),
           NEW s \in Reports \ {"BOUNCED"}
    PROVE  Verdict(IF status \in previousStatuses(s) THEN s ELSE status, reports \cup {s})
<1>1. status \in Goods \cup Failures
    BY DEF Verdict, Top, Goods
<1>2. CASE s = "FAILED"
    BY <1>1, <1>2 DEF Verdict, previousStatuses, Undecided, GoodOf, Top, Reports, Failures, Goods
<1>3. CASE s # "FAILED"
    BY <1>1, <1>3 DEF Verdict, previousStatuses, Undecided, GoodOf, Top, Reports, Failures, Goods
<1> QED
    BY <1>2, <1>3

\* Reports are applied only to a message whose request has been answered.
KnownFirst ==
    /\ letter.known => request = "over"
    /\ ~letter.known => /\ seen = {} /\ ~announced
                        /\ \A h \in Handling : webhook[h].pc = "idle"

WebhooksHold ==
    /\ channel = "whatsapp" => "BOUNCED" \notin reported
    /\ \A h \in Handling :
        /\ webhook[h].pc # "idle" => webhook[h].report \in reported /\ channel = "whatsapp"
        /\ webhook[h].pc = "applied" => letter.status \in Failures

DeliveryInv ==
    /\ DeliveryTypeOK /\ KnownFirst /\ WebhooksHold
    /\ letter.known => Verdict(letter.status, seen)
    /\ announced => letter.status \in Failures

LEMMA DeliveryStart == DeliveryInit => DeliveryInv
<1> SUFFICES ASSUME DeliveryInit PROVE DeliveryInv
    OBVIOUS
<1>1. DeliveryTypeOK
    BY DEF DeliveryInit, DeliveryTypeOK, Statuses, Reports, NoWebhook
<1>2. KnownFirst /\ WebhooksHold /\ ~letter.known /\ ~announced
    BY DEF DeliveryInit, KnownFirst, WebhooksHold, NoWebhook
<1> QED
    BY <1>1, <1>2 DEF DeliveryInv

LEMMA DeliveryKept == DeliveryInv /\ [DeliveryNext]_deliveryVars => DeliveryInv'
<1> SUFFICES ASSUME DeliveryInv, [DeliveryNext]_deliveryVars PROVE DeliveryInv'
    OBVIOUS
<1> USE DEF DeliveryInv, DeliveryTypeOK, KnownFirst, WebhooksHold
<1>0. seen \in SUBSET Reports /\ NoWebhook.pc = "idle"
      /\ NoWebhook \in [pc : {"idle", "found", "applied"}, report : Reports]
    BY DEF NoWebhook, Reports
<1>1. ASSUME NEW s \in Reports, ProviderReports(s) PROVE DeliveryInv'
    BY <1>1 DEF ProviderReports
<1>2. ASSUME NEW s \in Reports, IngestEvent(s) PROVE DeliveryInv'
    <2>1. /\ receipts' = receipts \cup {s} /\ s \in reported
          /\ UNCHANGED <<channel, request, reported, webhook>>
          /\ channel = "text"
        BY <1>2 DEF IngestEvent
    <2>2. CASE ~letter.known
        BY <1>2, <2>1, <2>2 DEF IngestEvent
    <2>3. CASE letter.known
        <3>1. Verdict(IF TooLate(s, letter.status) THEN letter.status ELSE s, seen \cup {s})
            BY <1>0, <2>3, TextKeepsVerdict
        <3>2. seen' = seen \cup {s} /\ Applied(s)
            BY <1>2, <2>3 DEF IngestEvent
        <3>3. CASE TooLate(s, letter.status)
            BY <2>1, <2>3, <3>1, <3>2, <3>3 DEF Applied
        <3>4. CASE ~TooLate(s, letter.status)
            <4>1. /\ letter' = [letter EXCEPT !.status = s]
                  /\ announced' = (announced \/ s \in Failures)
                BY <3>2, <3>4 DEF Applied
            <4>2. letter.status \notin Failures
                BY <3>4 DEF TooLate, Rank, Failures
            <4>3. letter'.status = s /\ letter'.known = letter.known
                  /\ letter' \in [status : Statuses, known : BOOLEAN]
                BY <4>1 DEF Statuses
            <4> QED
                BY <1>0, <2>1, <2>3, <3>1, <3>2, <3>4, <4>1, <4>2, <4>3
        <3> QED
            BY <3>3, <3>4
    <2> QED
        BY <2>2, <2>3
<1>3. CASE SendAnswered
    <2>1. Verdict("ACCEPTED", {})
        BY DEF Verdict, Top, GoodOf
    <2> QED
        BY <1>3, <2>1 DEF SendAnswered, Statuses
<1>4. CASE SendTimedOut
    BY <1>4 DEF SendTimedOut, Statuses
<1>5. CASE CancelQueued
    <2>1. ~letter.known
        BY <1>5 DEF CancelQueued, Verdict, Top, Failures
    <2> QED
        BY <1>5, <2>1 DEF CancelQueued, Statuses
<1>6. ASSUME NEW h \in Handling, NEW s \in Reports, FindMessage(h, s) PROVE DeliveryInv'
    BY <1>6 DEF FindMessage
<1>7. ASSUME NEW h \in Handling, SetStatus(h) PROVE DeliveryInv'
    <2> DEFINE s == webhook[h].report
               counts == letter.status \in previousStatuses(s)
    <2>1. /\ s \in Reports \ {"BOUNCED"} /\ s \in reported /\ letter.known /\ seen' = seen \cup {s}
          /\ UNCHANGED <<channel, request, reported, receipts, announced>>
        BY <1>7 DEF SetStatus
    <2>2. Verdict(IF counts THEN s ELSE letter.status, seen')
        BY <1>0, <2>1, WhatsAppKeepsVerdict
    <2>3. /\ letter' = IF counts THEN [letter EXCEPT !.status = s] ELSE letter
          /\ webhook' = [webhook EXCEPT ![h] =
                 IF counts /\ s = "FAILED" THEN [webhook[h] EXCEPT !.pc = "applied"] ELSE NoWebhook]
        BY <1>7 DEF SetStatus
    <2>4. letter.status \in Failures => ~counts
        BY <2>1 DEF previousStatuses, Undecided, Failures, Reports
    <2> HIDE DEF s, counts
    <2>5. /\ letter'.status = (IF counts THEN s ELSE letter.status) /\ letter'.known
          /\ letter' \in [status : Statuses, known : BOOLEAN]
        BY <2>1, <2>3 DEF Statuses
    <2>6. counts /\ s = "FAILED" => letter'.status \in Failures
        BY <2>5 DEF Failures
    <2>7. /\ webhook' \in [Handling -> [pc : {"idle", "found", "applied"}, report : Reports]]
          /\ \A g \in Handling :
                /\ webhook'[g].pc # "idle" => webhook'[g].report \in reported /\ channel = "whatsapp"
                /\ webhook'[g].pc = "applied" => letter'.status \in Failures
        <3>1. [webhook[h] EXCEPT !.pc = "applied"] \in
                  [pc : {"idle", "found", "applied"}, report : Reports]
              /\ [webhook[h] EXCEPT !.pc = "applied"].report = s
            BY DEF s
        <3>2. channel = "whatsapp"
            BY <1>7 DEF SetStatus
        <3> QED
            BY <1>0, <2>1, <2>3, <2>4, <2>5, <2>6, <3>1, <3>2
    <2> QED
        BY <1>0, <2>1, <2>2, <2>4, <2>5, <2>7
<1>8. ASSUME NEW h \in Handling, AnnounceFailure(h) PROVE DeliveryInv'
    BY <1>0, <1>8 DEF AnnounceFailure
<1>9. ASSUME NEW h \in Handling, WebhookDies(h) PROVE DeliveryInv'
    BY <1>0, <1>9 DEF WebhookDies
<1>10. CASE UNCHANGED deliveryVars
    BY <1>10 DEF deliveryVars
<1> QED
    BY <1>1, <1>2, <1>3, <1>4, <1>5, <1>6, <1>7, <1>8, <1>9, <1>10 DEF DeliveryNext

(* The status is the verdict of the reports that were applied, in any order  *)
(* and number of overlapping webhooks (applyStatus, previousStatuses).      *)
THEOREM StatusIsVerdictHolds == DeliverySpec => []StatusIsVerdict
<1>1. DeliveryInv => StatusIsVerdict
    BY VerdictSaid DEF DeliveryInv
<1> QED
    BY <1>1, DeliveryStart, DeliveryKept, PTL DEF DeliverySpec
=============================================================================
