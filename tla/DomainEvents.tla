---------------------------- MODULE DomainEvents ----------------------------
(***************************************************************************)
(* The outbox worker of src/src/lib/events/index.ts.                       *)
(*                                                                         *)
(* Business transactions insert rows into domain_events.  Any number of    *)
(* workers (the minute cron, the "kick" after a response, the assistant)   *)
(* run processDomainEvents at the same time.  A worker reads a batch of    *)
(* due events, claims each one with a compare-and-set on its status, runs  *)
(* every handler that has no "done" AutomationJob, records a job per       *)
(* handler and at last writes the event's final status.  Each database     *)
(* round trip is a step of its own: workers interleave between any two.    *)
(*                                                                         *)
(* Time is abstracted to two flags per event: `due' (nextAttemptAt has     *)
(* passed) and `stale' (lockedAt is older than LOCK_TTL_MS).               *)
(***************************************************************************)
EXTENDS Naturals, FiniteSets

CONSTANTS
    Events,       \* dedupe keys of the events that may be emitted
    Handlers,     \* the handlers registered for these events (HANDLERS)
    Workers,      \* concurrent runs of processDomainEvents
    MaxAttempts,  \* MAX_ATTEMPTS
    MaxFaults,    \* bound on crashes, database errors and overlong passes
    LongPasses    \* TRUE: a handler pass may outlive LOCK_TTL_MS

ASSUME DomainEventsAssumption ==
    /\ MaxAttempts \in Nat \ {0}
    /\ MaxFaults \in Nat
    /\ LongPasses \in BOOLEAN

VARIABLES
    status,     \* domain_events.status ("none": not emitted yet)
    due,        \* nextAttemptAt is null or in the past
    stale,      \* lockedAt is older than LOCK_TTL_MS
    attempts,   \* domain_events.attempts
    job,        \* automation_jobs: the status of the (event, handler) row
    worker,     \* the local state of every worker
    completed,  \* history: how often a handler's run returned normally
    swallowed,  \* history: the run ended in a unique violation (P2002)
    faults      \* how many faults happened so far

rows == <<status, due, stale, attempts>>
vars == <<status, due, stale, attempts, job, worker, completed, swallowed, faults>>

EventStatus == {"pending", "processing", "done", "failed"}
Pairs == Events \X Handlers

\* A worker between two calls of processDomainEvents.
Idle == [pc |-> "idle", batch |-> [e \in {} |-> "pending"]]

Holding(w) == worker[w].pc \in {"jobs", "handlers", "ran", "threw"}
Holders(e) == {w \in Workers : Holding(w) /\ worker[w].event = e}

TypeOK ==
    /\ status \in [Events -> EventStatus \cup {"none"}]
    /\ due \in [Events -> BOOLEAN]
    /\ stale \in [Events -> BOOLEAN]
    /\ attempts \in [Events -> Nat]
    /\ job \in [Pairs -> {"none", "done", "failed"}]
    /\ completed \in [Pairs -> Nat]
    /\ swallowed \in SUBSET Pairs
    /\ faults \in 0..MaxFaults
    /\ DOMAIN worker = Workers
    /\ \A w \in Workers :
        /\ worker[w].pc \in {"idle", "batch", "claimed", "jobs", "handlers", "ran", "threw"}
        /\ DOMAIN worker[w].batch \subseteq Events
        /\ worker[w].pc \notin {"idle", "batch"} => worker[w].event \in Events
        /\ Holding(w) => worker[w].attempts \in Nat
        /\ Holding(w) /\ worker[w].pc # "jobs" =>
            worker[w].todo \subseteq Handlers /\ worker[w].anyFailed \in BOOLEAN
        /\ worker[w].pc \in {"ran", "threw"} => worker[w].handler \in Handlers

Init ==
    /\ status = [e \in Events |-> "none"]
    /\ due = [e \in Events |-> FALSE]
    /\ stale = [e \in Events |-> FALSE]
    /\ attempts = [e \in Events |-> 0]
    /\ job = [p \in Pairs |-> "none"]
    /\ worker = [w \in Workers |-> Idle]
    /\ completed = [p \in Pairs |-> 0]
    /\ swallowed = {}
    /\ faults = 0

-----------------------------------------------------------------------------
(* emitEvent commits the event with the business change.  A second emission *)
(* with the same dedupe key inserts nothing (skipDuplicates).               *)
emitEvent(e) ==
    /\ status[e] = "none"
    /\ status' = [status EXCEPT ![e] = "pending"]
    /\ due' = [due EXCEPT ![e] = TRUE]
    /\ UNCHANGED <<stale, attempts, job, worker, completed, swallowed, faults>>

DueUnlessLocked(e) == status[e] = "pending" /\ due[e]

Due(e) == \/ status[e] = "pending" /\ due[e]
          \/ status[e] = "processing" /\ stale[e]

(* The candidates query: the due events and the status each one had.  The   *)
(* limit may cut the batch short, so any non-empty part of them is read.    *)
Pick(w, read) ==
    /\ worker[w].pc = "idle"
    /\ read # {} /\ \A e \in read : Due(e)
    /\ worker' = [worker EXCEPT ![w] =
                    [pc |-> "batch", batch |-> [e \in read |-> status[e]]]]
    /\ UNCHANGED <<rows, job, completed, swallowed, faults>>

AlwaysClaimable(e, seen) == TRUE
ClaimableByStatus(e, seen) == status[e] = seen

\* The compare-and-set's condition.  The due date is not checked again.
Claimable(e, seen) ==
    /\ status[e] = seen
    /\ seen = "processing" => stale[e]

(* The claim of one candidate, on the status the batch read for it.         *)
Claim(w, e) ==
    /\ worker[w].pc = "batch"
    /\ e \in DOMAIN worker[w].batch
    /\ LET seen == worker[w].batch[e]
           rest == [x \in DOMAIN worker[w].batch \ {e} |-> worker[w].batch[x]]
       IN  \/ /\ Claimable(e, seen)
              /\ status' = [status EXCEPT ![e] = "processing"]
              /\ stale' = [stale EXCEPT ![e] = FALSE]
              /\ attempts' = [attempts EXCEPT ![e] = @ + 1]
              /\ worker' = [worker EXCEPT ![w] =
                             [pc |-> "claimed", batch |-> rest, event |-> e]]
              /\ UNCHANGED due
           \/ /\ ~Claimable(e, seen)
              /\ worker' = [worker EXCEPT ![w] = [pc |-> "batch", batch |-> rest]]
              /\ UNCHANGED rows
    /\ UNCHANGED <<job, completed, swallowed, faults>>

(* The batch is used up, or the deadline has passed before it is.           *)
Return(w) ==
    /\ worker[w].pc = "batch"
    /\ worker' = [worker EXCEPT ![w] = Idle]
    /\ UNCHANGED <<rows, job, completed, swallowed, faults>>

(* The event is read again after the claim: this is the attempts value the  *)
(* worker will judge exhaustion by.                                         *)
ReadEvent(w) ==
    /\ worker[w].pc = "claimed"
    /\ worker' = [worker EXCEPT ![w] =
                    [pc |-> "jobs", batch |-> @.batch, event |-> @.event,
                     attempts |-> attempts[@.event]]]
    /\ UNCHANGED <<rows, job, completed, swallowed, faults>>

NoJobs(e) == {}
AttemptedJobs(e) == {h \in Handlers : job[<<e, h>>] # "none"}

DoneJobs(e) == {h \in Handlers : job[<<e, h>>] = "done"}

(* runHandlers reads the done jobs once, before the loop over the handlers. *)
ReadJobs(w) ==
    /\ worker[w].pc = "jobs"
    /\ LET e == worker[w].event IN
        worker' = [worker EXCEPT ![w] =
                    [pc |-> "handlers", batch |-> @.batch, event |-> e,
                     attempts |-> @.attempts, anyFailed |-> FALSE,
                     todo |-> Handlers \ DoneJobs(e)]]
    /\ UNCHANGED <<rows, job, completed, swallowed, faults>>

Loop(w, pc, h, failed) ==
    [pc |-> pc, batch |-> worker[w].batch, event |-> worker[w].event,
     attempts |-> worker[w].attempts, anyFailed |-> failed,
     todo |-> worker[w].todo \ {h}, handler |-> h]

(* handler.run returns, throws, or throws a unique violation, which the     *)
(* loop takes to mean that another worker completed the handler.            *)
RunHandler(w) ==
    /\ worker[w].pc = "handlers"
    /\ \E h \in worker[w].todo :
        LET p == <<worker[w].event, h>> IN
        \/ /\ completed' = [completed EXCEPT ![p] = @ + 1]
           /\ worker' = [worker EXCEPT ![w] = Loop(w, "ran", h, @.anyFailed)]
           /\ UNCHANGED swallowed
        \/ /\ worker' = [worker EXCEPT ![w] = Loop(w, "threw", h, TRUE)]
           /\ UNCHANGED <<completed, swallowed>>
        \/ /\ swallowed' = swallowed \cup {p}
           /\ worker' = [worker EXCEPT ![w] = Loop(w, "handlers", h, @.anyFailed)]
           /\ UNCHANGED completed
    /\ UNCHANGED <<rows, job, faults>>

(* upsertJob(status done) after the handler returned.  A database error is  *)
(* caught like an error of the handler itself.                              *)
RecordDone(w) ==
    /\ worker[w].pc = "ran"
    /\ LET h == worker[w].handler IN
        \/ /\ job' = [job EXCEPT ![<<worker[w].event, h>>] = "done"]
           /\ worker' = [worker EXCEPT ![w] = Loop(w, "handlers", h, @.anyFailed)]
           /\ UNCHANGED faults
        \/ /\ faults < MaxFaults
           /\ faults' = faults + 1
           /\ worker' = [worker EXCEPT ![w] = Loop(w, "threw", h, TRUE)]
           /\ UNCHANGED job
    /\ UNCHANGED <<rows, completed, swallowed>>

(* upsertJob(status failed) in the catch block; its own error is swallowed. *)
(* It overwrites whatever the job row says, "done" included.                *)
RecordFailed(w) ==
    /\ worker[w].pc = "threw"
    /\ \/ /\ job' = [job EXCEPT ![<<worker[w].event, worker[w].handler>>] = "failed"]
          /\ UNCHANGED faults
       \/ /\ faults < MaxFaults
          /\ faults' = faults + 1
          /\ UNCHANGED job
    /\ worker' = [worker EXCEPT ![w] = Loop(w, "handlers", @.handler, @.anyFailed)]
    /\ UNCHANGED <<rows, completed, swallowed>>

FinalStatusEarly(anyFailed, attempt) ==
    IF ~anyFailed THEN "done" ELSE IF attempt + 1 >= MaxAttempts THEN "failed" ELSE "pending"
FinalStatusUnknown(anyFailed, attempt) ==
    IF ~anyFailed THEN "done" ELSE IF attempt >= MaxAttempts THEN "exhausted" ELSE "pending"
FinalStatusLate(anyFailed, attempt) ==
    IF ~anyFailed THEN "done" ELSE IF attempt > MaxAttempts THEN "failed" ELSE "pending"

FinalStatus(anyFailed, attempt) ==
    IF ~anyFailed THEN "done" ELSE IF attempt >= MaxAttempts THEN "failed" ELSE "pending"

(* The unconditional update at the end of runHandlers, by event id only.    *)
CloseEvent(w) ==
    /\ worker[w].pc = "handlers"
    /\ worker[w].todo = {}
    /\ LET e == worker[w].event
           final == FinalStatus(worker[w].anyFailed, worker[w].attempts)
       IN  /\ status' = [status EXCEPT ![e] = final]
           /\ due' = [due EXCEPT ![e] = IF final = "pending" THEN FALSE ELSE @]
           /\ stale' = [stale EXCEPT ![e] = FALSE]
    /\ worker' = [worker EXCEPT ![w] = [pc |-> "batch", batch |-> @.batch]]
    /\ UNCHANGED <<attempts, job, completed, swallowed, faults>>

(* The process dies, or a query outside the handler loop throws: the run is *)
(* gone, its claimed event stays "processing".                              *)
Crash(w) ==
    /\ worker[w].pc # "idle"
    /\ faults < MaxFaults
    /\ faults' = faults + 1
    /\ worker' = [worker EXCEPT ![w] = Idle]
    /\ UNCHANGED <<rows, job, completed, swallowed>>

-----------------------------------------------------------------------------
(* Time.  The retry backoff elapses; the lock of an event whose worker is   *)
(* gone grows old; and, where passes may be long, so does a live worker's.  *)
BackoffElapses(e) ==
    /\ status[e] = "pending" /\ ~due[e]
    /\ due' = [due EXCEPT ![e] = TRUE]
    /\ UNCHANGED <<status, stale, attempts, job, worker, completed, swallowed, faults>>

\* The workers that believe they own e: from the claim to the closing update.
Owners(e) == {w \in Workers : worker[w].pc \notin {"idle", "batch"} /\ worker[w].event = e}

LockExpires(e) ==
    /\ status[e] = "processing" /\ ~stale[e]
    /\ \/ Owners(e) = {} /\ UNCHANGED faults
       \/ Owners(e) # {} /\ LongPasses /\ faults < MaxFaults /\ faults' = faults + 1
    /\ stale' = [stale EXCEPT ![e] = TRUE]
    /\ UNCHANGED <<status, due, attempts, job, worker, completed, swallowed>>

-----------------------------------------------------------------------------
\* The steps of a worker that is inside a pass.
PassStep(w) ==
    \/ ReadEvent(w) \/ ReadJobs(w) \/ RunHandler(w)
    \/ RecordDone(w) \/ RecordFailed(w) \/ CloseEvent(w)

Next ==
    \/ \E e \in Events : emitEvent(e) \/ BackoffElapses(e) \/ LockExpires(e)
    \/ \E w \in Workers :
        \/ \E read \in SUBSET Events : Pick(w, read)
        \/ \E e \in Events : Claim(w, e)
        \/ Return(w) \/ PassStep(w) \/ Crash(w)

Spec == Init /\ [][Next]_vars

(***************************************************************************)
(* Fairness.  A pass that does not crash goes on; backoffs and the locks of *)
(* dead workers run out; the minute cron keeps calling processDomainEvents, *)
(* which reads the oldest due events first and gives every business a share *)
(* of the batch, so an event that stays due is read and tried again and     *)
(* again, however often a deadline cuts a batch short.                      *)
(***************************************************************************)
Fairness ==
    /\ \A w \in Workers : WF_vars(PassStep(w)) /\ WF_vars(Return(w))
    /\ \A e \in Events :
        /\ WF_vars(BackoffElapses(e))
        /\ WF_vars(Owners(e) = {} /\ LockExpires(e))
        /\ SF_vars(\E w \in Workers, read \in SUBSET Events : e \in read /\ Pick(w, read))
        /\ SF_vars(\E w \in Workers : Claim(w, e))

FairSpec == Spec /\ Fairness
=============================================================================
