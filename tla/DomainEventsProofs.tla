------------------------- MODULE DomainEventsProofs -------------------------
(***************************************************************************)
(* Proofs about the outbox worker, for any events, handlers and workers,   *)
(* any MaxAttempts and any number of faults.  Base holds however long the   *)
(* passes are: rows and workers are well-formed and every job recorded done  *)
(* has a completed run.  CountInv, on top of it, counts claims and runs.     *)
(* Inv needs passes that do not outlive LOCK_TTL_MS: an owner has the row    *)
(* locked, its todo list names only unrecorded jobs, and the history of      *)
(* completed runs agrees with the job rows.                                  *)
(***************************************************************************)
EXTENDS DomainEventsProperties, FiniteSetTheorems, TLAPS

Owning(w) == worker[w].pc \notin {"idle", "batch"}
Looping(w) == worker[w].pc \in {"handlers", "ran", "threw"}

\* The rows are well-formed, as far as the proofs need them.
RowsOK ==
    /\ status \in [Events -> EventStatus \cup {"none"}]
    /\ stale \in [Events -> BOOLEAN]
    /\ attempts \in [Events -> Nat]
    /\ job \in [Pairs -> {"none", "done", "failed"}]
    /\ completed \in [Pairs -> Nat]
    /\ faults \in 0..MaxFaults
    /\ due \in [Events -> BOOLEAN]
    /\ swallowed \subseteq Pairs

\* So is a worker: what it read from a batch, what it claimed, what is left.
WorkersOK ==
    /\ worker = [w \in Workers |-> worker[w]]
    /\ \A w \in Workers :
        /\ \A e \in DOMAIN worker[w].batch :
            e \in Events /\ worker[w].batch[e] \in {"pending", "processing"}
        /\ Owning(w) => worker[w].event \in Events
        /\ worker[w].pc \in {"idle", "batch", "claimed", "jobs", "handlers", "ran", "threw"}
        /\ Looping(w) =>
            /\ worker[w].todo \subseteq Handlers
            /\ worker[w].anyFailed \in BOOLEAN
        /\ worker[w].pc = "jobs" \/ Looping(w) => worker[w].attempts \in Nat
        /\ worker[w].pc \in {"ran", "threw"} => worker[w].handler \in Handlers \ worker[w].todo

\* An owner is alone and has the row locked.
Exclusive ==
    \A w \in Workers : Owning(w) =>
        /\ status[worker[w].event] = "processing"
        /\ ~stale[worker[w].event]
        /\ \A v \in Workers : Owning(v) /\ worker[v].event = worker[w].event => v = w

\* The attempts an owner read are the row's.
AttemptsRead ==
    \A w \in Workers : worker[w].pc = "jobs" \/ Looping(w) =>
        worker[w].attempts = attempts[worker[w].event]

\* What is left to do, or just ran, is not recorded done.
TodoUnrecorded ==
    \A w \in Workers : Looping(w) =>
        /\ \A h \in worker[w].todo : job[<<worker[w].event, h>>] # "done"
        /\ worker[w].pc \in {"ran", "threw"} =>
            job[<<worker[w].event, worker[w].handler>>] # "done"

\* A done job, a handler that just returned, and every handler a clean pass
\* has dealt with, completed.
JobsCovered ==
    /\ \A p \in Pairs : job[p] = "done" => completed[p] > 0
    /\ \A w \in Workers : Looping(w) =>
        /\ worker[w].pc = "ran" => completed[<<worker[w].event, worker[w].handler>>] > 0
        /\ worker[w].pc = "threw" => worker[w].anyFailed
        /\ ~worker[w].anyFailed =>
            \A h \in Handlers \ worker[w].todo :
                completed[<<worker[w].event, h>>] > 0 \/ <<worker[w].event, h>> \in swallowed

\* A pass that failed somewhere leaves a job that is not done.
FailureRemains ==
    \A w \in Workers : Looping(w) /\ worker[w].anyFailed =>
        \E h \in Handlers \ worker[w].todo :
            /\ job[<<worker[w].event, h>>] # "done"
            /\ worker[w].pc = "ran" => h # worker[w].handler

\* A completed run is recorded, is about to be, or is paid for by a fault.
JustRan(p) ==
    \E w \in Workers : worker[w].pc = "ran" /\ p = <<worker[w].event, worker[w].handler>>

RunsPaid ==
    \A p \in Pairs :
        completed[p] <= IF job[p] = "done" \/ JustRan(p) THEN 1 + faults ELSE faults

\* However long the passes are.
Base == RowsOK /\ WorkersOK /\ JobsCovered /\ DoneIsCovered

\* While none outlives its lock.
Inv ==
    /\ RowsOK /\ WorkersOK /\ Exclusive /\ AttemptsRead /\ TodoUnrecorded
    /\ JobsCovered /\ FailureRemains /\ RunsPaid /\ DoneIsCovered /\ GaveUpLast

LEMMA EmitStep ==
    ASSUME Base, NEW e \in Events, emitEvent(e)
    PROVE  Base' /\ (Inv => Inv')
<1>1. RowsOK'
  BY DEF Base, emitEvent, RowsOK, WorkersOK, Owning, EventStatus, Pairs, Looping
<1>2. WorkersOK'
  BY DEF Base, emitEvent, RowsOK, WorkersOK, Owning, Looping
<1>3. JobsCovered'
  BY DEF Base, emitEvent, RowsOK, WorkersOK, JobsCovered, Owning, Looping, Pairs
<1>4. DoneIsCovered'
  BY DEF Base, emitEvent, RowsOK, WorkersOK, JobsCovered, DoneIsCovered, Owning, Looping, Pairs
<1>5. Base'
  BY <1>1, <1>2, <1>3, <1>4 DEF Base
<1> SUFFICES ASSUME Inv PROVE Inv'
  BY <1>5
<1>6. Exclusive'
  BY DEF Inv, emitEvent, RowsOK, WorkersOK, Exclusive, Owning
<1>7. AttemptsRead'
  BY DEF Inv, emitEvent, RowsOK, WorkersOK, Exclusive, AttemptsRead, Owning, Looping
<1>8. TodoUnrecorded'
  BY DEF Inv, emitEvent, RowsOK, WorkersOK, Exclusive, TodoUnrecorded, Owning, Looping, Pairs
<1>9. FailureRemains'
  <2> SUFFICES ASSUME NEW v \in Workers, Looping(v)', worker'[v].anyFailed
               PROVE  \E h \in Handlers \ worker'[v].todo :
                        /\ job'[<<worker'[v].event, h>>] # "done"
                        /\ worker'[v].pc = "ran" => h # worker'[v].handler
    BY DEF FailureRemains
  <2>1. worker'[v] = worker[v]
    BY DEF emitEvent
  <2>2. PICK h \in Handlers \ worker[v].todo :
          /\ job[<<worker[v].event, h>>] # "done"
          /\ worker[v].pc = "ran" => h # worker[v].handler
    BY <2>1 DEF Inv, FailureRemains, Looping
  <2> QED
    BY <2>1, <2>2 DEF emitEvent
<1>10. RunsPaid'
  BY DEF Inv, emitEvent, RowsOK, WorkersOK, Exclusive, TodoUnrecorded, RunsPaid, JustRan, Owning, Looping, Pairs
<1>11. GaveUpLast'
  BY DEF Inv, emitEvent, RowsOK, WorkersOK, Exclusive, AttemptsRead, FailureRemains, GaveUpLast, Owning, Looping, Pairs
<1> QED
  BY <1>1, <1>2, <1>6, <1>7, <1>8, <1>3, <1>9, <1>10, <1>4, <1>11 DEF Inv

LEMMA PickStep ==
    ASSUME Base, NEW w \in Workers, NEW read \in SUBSET Events, Pick(w, read)
    PROVE  Base' /\ (Inv => Inv')
<1>1. \A v \in Workers : v # w => worker'[v] = worker[v]
  BY DEF Base, WorkersOK, Pick, Due, rows
<1>2. worker[w].pc = "idle" /\ worker'[w].pc = "batch"
  BY DEF Base, WorkersOK, Pick, Due, rows
<1>3. RowsOK'
  BY <1>1, <1>2 DEF Base, Pick, Due, rows, RowsOK, WorkersOK, Owning, EventStatus, Pairs, Looping
<1>4. WorkersOK'
  BY <1>1, <1>2 DEF Base, Pick, Due, rows, RowsOK, WorkersOK, Owning, Looping
<1>5. JobsCovered'
  BY <1>1, <1>2 DEF Base, Pick, Due, rows, RowsOK, WorkersOK, JobsCovered, Owning, Looping, Pairs
<1>6. DoneIsCovered'
  BY <1>1, <1>2 DEF Base, Pick, Due, rows, RowsOK, WorkersOK, JobsCovered, DoneIsCovered, Owning, Looping, Pairs
<1>7. Base'
  BY <1>3, <1>4, <1>5, <1>6 DEF Base
<1> SUFFICES ASSUME Inv PROVE Inv'
  BY <1>7
<1>8. Exclusive'
  BY <1>1, <1>2 DEF Inv, Pick, Due, rows, RowsOK, WorkersOK, Exclusive, Owning
<1>9. AttemptsRead'
  BY <1>1, <1>2 DEF Inv, Pick, Due, rows, RowsOK, WorkersOK, Exclusive, AttemptsRead, Owning, Looping
<1>10. TodoUnrecorded'
  BY <1>1, <1>2 DEF Inv, Pick, Due, rows, RowsOK, WorkersOK, Exclusive, TodoUnrecorded, Owning, Looping, Pairs
<1>11. FailureRemains'
  <2> SUFFICES ASSUME NEW v \in Workers, Looping(v)', worker'[v].anyFailed
               PROVE  \E h \in Handlers \ worker'[v].todo :
                        /\ job'[<<worker'[v].event, h>>] # "done"
                        /\ worker'[v].pc = "ran" => h # worker'[v].handler
    BY DEF FailureRemains
  <2>1. worker'[v] = worker[v]
    BY <1>1, <1>2 DEF Looping
  <2>2. PICK h \in Handlers \ worker[v].todo :
          /\ job[<<worker[v].event, h>>] # "done"
          /\ worker[v].pc = "ran" => h # worker[v].handler
    BY <2>1 DEF Inv, FailureRemains, Looping
  <2> QED
    BY <2>1, <2>2 DEF Pick, Due, rows
<1>12. RunsPaid'
  <2>1. \A p \in Pairs : JustRan(p) => JustRan(p)'
    BY <1>1, <1>2 DEF JustRan
  <2> QED
    BY <2>1 DEF Inv, RowsOK, RunsPaid, Pick, Due, rows
<1>13. GaveUpLast'
  BY DEF Inv, GaveUpLast, Pick, Due, rows
<1> QED
  BY <1>3, <1>4, <1>8, <1>9, <1>10, <1>5, <1>11, <1>12, <1>6, <1>13 DEF Inv

LEMMA ClaimStep ==
    ASSUME Base, NEW w \in Workers, NEW e \in Events, Claim(w, e)
    PROVE  Base' /\ (Inv => Inv')
<1>1. \A v \in Workers : v # w => worker'[v] = worker[v]
  BY DEF Base, WorkersOK, Claim, Claimable, rows
<1>2. worker[w].pc = "batch" /\ worker'[w].pc \in {"claimed", "batch"}
  BY DEF Base, WorkersOK, Claim, Claimable, rows
<1>3. RowsOK'
  <2>1. CASE Claimable(e, worker[w].batch[e])
    <3>1. /\ status' = [status EXCEPT ![e] = "processing"]
          /\ stale' = [stale EXCEPT ![e] = FALSE]
          /\ attempts' = [attempts EXCEPT ![e] = @ + 1]
          /\ UNCHANGED <<due, job, completed, swallowed, faults>>
      BY <2>1 DEF Claim
    <3> QED
      BY <3>1 DEF Base, RowsOK, EventStatus
  <2>2. CASE ~Claimable(e, worker[w].batch[e])
    BY <2>2 DEF Base, RowsOK, EventStatus, Claim, rows
  <2> QED
    BY <2>1, <2>2
<1>4. WorkersOK'
  BY <1>1, <1>2 DEF Base, Claim, Claimable, rows, RowsOK, WorkersOK, Owning, Looping
<1>5. JobsCovered'
  BY <1>1, <1>2 DEF Base, Claim, Claimable, rows, RowsOK, WorkersOK, JobsCovered, Owning, Looping, Pairs
<1>6. DoneIsCovered'
  BY <1>1, <1>2 DEF Base, Claim, Claimable, rows, RowsOK, WorkersOK, JobsCovered, DoneIsCovered, Owning, Looping, Pairs
<1>7. Base'
  BY <1>3, <1>4, <1>5, <1>6 DEF Base
<1> SUFFICES ASSUME Inv PROVE Inv'
  BY <1>7
<1>8. Exclusive'
  <2> DEFINE seen == worker[w].batch[e]
  <2>1. CASE Claimable(e, seen)
    <3>1. \A v \in Workers : Owning(v) => worker[v].event # e
      BY <2>1 DEF Inv, WorkersOK, Exclusive, Claim, Claimable
    <3>2. /\ status' = [status EXCEPT ![e] = "processing"] /\ stale' = [stale EXCEPT ![e] = FALSE]
          /\ worker'[w].event = e
      BY <2>1 DEF Inv, WorkersOK, Claim
    <3> QED
      BY <1>1, <3>1, <3>2 DEF Inv, RowsOK, WorkersOK, Exclusive, Owning
  <2>2. CASE ~Claimable(e, seen)
    <3>1. UNCHANGED <<status, stale>> /\ worker'[w].pc = "batch"
      BY <2>2 DEF Inv, WorkersOK, Claim, rows
    <3> QED
      BY <1>1, <3>1 DEF Inv, Exclusive, Owning
  <2> QED
    BY <2>1, <2>2
<1>9. AttemptsRead'
  BY <1>1, <1>2 DEF Inv, Claim, Claimable, rows, RowsOK, WorkersOK, Exclusive, AttemptsRead, Owning, Looping
<1>10. TodoUnrecorded'
  <2>1. \A v \in Workers : Looping(v)' => Looping(v) /\ worker'[v] = worker[v]
    BY <1>1, <1>2 DEF Looping
  <2> QED
    BY <2>1 DEF Inv, TodoUnrecorded, Claim
<1>11. FailureRemains'
  <2> SUFFICES ASSUME NEW v \in Workers, Looping(v)', worker'[v].anyFailed
               PROVE  \E h \in Handlers \ worker'[v].todo :
                        /\ job'[<<worker'[v].event, h>>] # "done"
                        /\ worker'[v].pc = "ran" => h # worker'[v].handler
    BY DEF FailureRemains
  <2>1. worker'[v] = worker[v]
    BY <1>1, <1>2 DEF Looping
  <2>2. PICK h \in Handlers \ worker[v].todo :
          /\ job[<<worker[v].event, h>>] # "done"
          /\ worker[v].pc = "ran" => h # worker[v].handler
    BY <2>1 DEF Inv, FailureRemains, Looping
  <2> QED
    BY <2>1, <2>2 DEF Claim, Claimable, rows
<1>12. RunsPaid'
  <2>1. \A p \in Pairs : JustRan(p) => JustRan(p)'
    BY <1>1, <1>2 DEF JustRan
  <2> QED
    BY <2>1 DEF Inv, RowsOK, RunsPaid, Claim, Claimable, rows
<1>13. GaveUpLast'
  <2>1. \A x \in Events : status'[x] = "failed" => status[x] = "failed" /\ attempts'[x] >= attempts[x]
    BY DEF Inv, RowsOK, Claim, rows
  <2> QED
    BY <2>1, <1>3, DomainEventsAssumption DEF Inv, RowsOK, GaveUpLast, Claim
<1> QED
  BY <1>3, <1>4, <1>8, <1>9, <1>10, <1>5, <1>11, <1>12, <1>6, <1>13 DEF Inv

LEMMA ReturnStep ==
    ASSUME Base, NEW w \in Workers, Return(w)
    PROVE  Base' /\ (Inv => Inv')
<1>1. \A v \in Workers : v # w => worker'[v] = worker[v]
  BY DEF Base, WorkersOK, Return, Idle, rows
<1>2. worker[w].pc = "batch" /\ worker'[w].pc = "idle"
  BY DEF Base, WorkersOK, Return, Idle, rows
<1>3. RowsOK'
  BY <1>1, <1>2 DEF Base, Return, Idle, rows, RowsOK, WorkersOK, Owning, EventStatus, Pairs, Looping
<1>4. WorkersOK'
  BY <1>1, <1>2 DEF Base, Return, Idle, rows, RowsOK, WorkersOK, Owning, Looping
<1>5. JobsCovered'
  BY <1>1, <1>2 DEF Base, Return, Idle, rows, RowsOK, WorkersOK, JobsCovered, Owning, Looping, Pairs
<1>6. DoneIsCovered'
  BY <1>1, <1>2 DEF Base, Return, Idle, rows, RowsOK, WorkersOK, JobsCovered, DoneIsCovered, Owning, Looping, Pairs
<1>7. Base'
  BY <1>3, <1>4, <1>5, <1>6 DEF Base
<1> SUFFICES ASSUME Inv PROVE Inv'
  BY <1>7
<1>8. Exclusive'
  BY <1>1, <1>2 DEF Inv, Return, Idle, rows, RowsOK, WorkersOK, Exclusive, Owning
<1>9. AttemptsRead'
  BY <1>1, <1>2 DEF Inv, Return, Idle, rows, RowsOK, WorkersOK, Exclusive, AttemptsRead, Owning, Looping
<1>10. TodoUnrecorded'
  BY <1>1, <1>2 DEF Inv, Return, Idle, rows, RowsOK, WorkersOK, Exclusive, TodoUnrecorded, Owning, Looping, Pairs
<1>11. FailureRemains'
  <2> SUFFICES ASSUME NEW v \in Workers, Looping(v)', worker'[v].anyFailed
               PROVE  \E h \in Handlers \ worker'[v].todo :
                        /\ job'[<<worker'[v].event, h>>] # "done"
                        /\ worker'[v].pc = "ran" => h # worker'[v].handler
    BY DEF FailureRemains
  <2>1. worker'[v] = worker[v]
    BY <1>1, <1>2 DEF Looping
  <2>2. PICK h \in Handlers \ worker[v].todo :
          /\ job[<<worker[v].event, h>>] # "done"
          /\ worker[v].pc = "ran" => h # worker[v].handler
    BY <2>1 DEF Inv, FailureRemains, Looping
  <2> QED
    BY <2>1, <2>2 DEF Return, Idle, rows
<1>12. RunsPaid'
  <2>1. \A p \in Pairs : JustRan(p) => JustRan(p)'
    BY <1>1, <1>2 DEF JustRan
  <2> QED
    BY <2>1 DEF Inv, RowsOK, RunsPaid, Return, Idle, rows
<1>13. GaveUpLast'
  BY DEF Inv, GaveUpLast, Return, rows
<1> QED
  BY <1>3, <1>4, <1>8, <1>9, <1>10, <1>5, <1>11, <1>12, <1>6, <1>13 DEF Inv

LEMMA ReadEventStep ==
    ASSUME Base, NEW w \in Workers, ReadEvent(w)
    PROVE  Base' /\ (Inv => Inv')
<1>1. \A v \in Workers : v # w => worker'[v] = worker[v]
  BY DEF Base, WorkersOK, ReadEvent, rows
<1>2. worker[w].pc = "claimed" /\ worker'[w].pc = "jobs"
  BY DEF Base, WorkersOK, ReadEvent, rows
<1>3. RowsOK'
  BY <1>1, <1>2 DEF Base, ReadEvent, rows, RowsOK, WorkersOK, Owning, EventStatus, Pairs, Looping
<1>4. WorkersOK'
  BY <1>1, <1>2 DEF Base, ReadEvent, rows, RowsOK, WorkersOK, Owning, Looping
<1>5. JobsCovered'
  BY <1>1, <1>2 DEF Base, ReadEvent, rows, RowsOK, WorkersOK, JobsCovered, Owning, Looping, Pairs
<1>6. DoneIsCovered'
  BY <1>1, <1>2 DEF Base, ReadEvent, rows, RowsOK, WorkersOK, JobsCovered, DoneIsCovered, Owning, Looping, Pairs
<1>7. Base'
  BY <1>3, <1>4, <1>5, <1>6 DEF Base
<1> SUFFICES ASSUME Inv PROVE Inv'
  BY <1>7
<1>8. Exclusive'
  BY <1>1, <1>2 DEF Inv, ReadEvent, rows, RowsOK, WorkersOK, Exclusive, Owning
<1>9. AttemptsRead'
  BY <1>1, <1>2 DEF Inv, ReadEvent, rows, RowsOK, WorkersOK, Exclusive, AttemptsRead, Owning, Looping
<1>10. TodoUnrecorded'
  BY <1>1, <1>2 DEF Inv, ReadEvent, rows, RowsOK, WorkersOK, Exclusive, TodoUnrecorded, Owning, Looping, Pairs
<1>11. FailureRemains'
  <2> SUFFICES ASSUME NEW v \in Workers, Looping(v)', worker'[v].anyFailed
               PROVE  \E h \in Handlers \ worker'[v].todo :
                        /\ job'[<<worker'[v].event, h>>] # "done"
                        /\ worker'[v].pc = "ran" => h # worker'[v].handler
    BY DEF FailureRemains
  <2>1. worker'[v] = worker[v]
    BY <1>1, <1>2 DEF Looping
  <2>2. PICK h \in Handlers \ worker[v].todo :
          /\ job[<<worker[v].event, h>>] # "done"
          /\ worker[v].pc = "ran" => h # worker[v].handler
    BY <2>1 DEF Inv, FailureRemains, Looping
  <2> QED
    BY <2>1, <2>2 DEF ReadEvent, rows
<1>12. RunsPaid'
  <2>1. \A p \in Pairs : JustRan(p) => JustRan(p)'
    BY <1>1, <1>2 DEF JustRan
  <2> QED
    BY <2>1 DEF Inv, RowsOK, RunsPaid, ReadEvent, rows
<1>13. GaveUpLast'
  BY DEF Inv, GaveUpLast, ReadEvent, rows
<1> QED
  BY <1>3, <1>4, <1>8, <1>9, <1>10, <1>5, <1>11, <1>12, <1>6, <1>13 DEF Inv

LEMMA ReadJobsStep ==
    ASSUME Base, NEW w \in Workers, ReadJobs(w)
    PROVE  Base' /\ (Inv => Inv')
<1>1. \A v \in Workers : v # w => worker'[v] = worker[v]
  BY DEF Base, WorkersOK, ReadJobs, DoneJobs, rows
<1>2. worker[w].pc = "jobs" /\ worker'[w].pc = "handlers" /\ ~worker'[w].anyFailed
  BY DEF Base, WorkersOK, ReadJobs, DoneJobs, rows
<1>3. RowsOK'
  BY <1>1, <1>2 DEF Base, ReadJobs, DoneJobs, rows, RowsOK, WorkersOK, Owning, EventStatus, Pairs, Looping
<1>4. WorkersOK'
  BY <1>1, <1>2 DEF Base, ReadJobs, DoneJobs, rows, RowsOK, WorkersOK, Owning, Looping
<1>5. JobsCovered'
  BY <1>1, <1>2 DEF Base, ReadJobs, DoneJobs, rows, RowsOK, WorkersOK, JobsCovered, Owning, Looping, Pairs
<1>6. DoneIsCovered'
  BY <1>1, <1>2 DEF Base, ReadJobs, DoneJobs, rows, RowsOK, WorkersOK, JobsCovered, DoneIsCovered, Owning, Looping, Pairs
<1>7. Base'
  BY <1>3, <1>4, <1>5, <1>6 DEF Base
<1> SUFFICES ASSUME Inv PROVE Inv'
  BY <1>7
<1>8. Exclusive'
  BY <1>1, <1>2 DEF Inv, ReadJobs, DoneJobs, rows, RowsOK, WorkersOK, Exclusive, Owning
<1>9. AttemptsRead'
  BY <1>1, <1>2 DEF Inv, ReadJobs, DoneJobs, rows, RowsOK, WorkersOK, Exclusive, AttemptsRead, Owning, Looping
<1>10. TodoUnrecorded'
  BY <1>1, <1>2 DEF Inv, ReadJobs, DoneJobs, rows, RowsOK, WorkersOK, Exclusive, TodoUnrecorded, Owning, Looping, Pairs
<1>11. FailureRemains'
  <2> SUFFICES ASSUME NEW v \in Workers, Looping(v)', worker'[v].anyFailed
               PROVE  \E h \in Handlers \ worker'[v].todo :
                        /\ job'[<<worker'[v].event, h>>] # "done"
                        /\ worker'[v].pc = "ran" => h # worker'[v].handler
    BY DEF FailureRemains
  <2>1. worker'[v] = worker[v]
    BY <1>1, <1>2 DEF Looping
  <2>2. PICK h \in Handlers \ worker[v].todo :
          /\ job[<<worker[v].event, h>>] # "done"
          /\ worker[v].pc = "ran" => h # worker[v].handler
    BY <2>1 DEF Inv, FailureRemains, Looping
  <2> QED
    BY <2>1, <2>2 DEF ReadJobs, DoneJobs, rows
<1>12. RunsPaid'
  <2>1. \A p \in Pairs : JustRan(p) => JustRan(p)'
    BY <1>1, <1>2 DEF JustRan
  <2> QED
    BY <2>1 DEF Inv, RowsOK, RunsPaid, ReadJobs, DoneJobs, rows
<1>13. GaveUpLast'
  BY DEF Inv, RowsOK, GaveUpLast, ReadJobs, DoneJobs, rows
<1> QED
  BY <1>3, <1>4, <1>8, <1>9, <1>10, <1>5, <1>11, <1>12, <1>6, <1>13 DEF Inv

LEMMA CloseEventStep ==
    ASSUME Base, NEW w \in Workers, CloseEvent(w)
    PROVE  Base' /\ (Inv => Inv')
<1>1. \A v \in Workers : v # w => worker'[v] = worker[v]
  BY DEF Base, WorkersOK, CloseEvent, FinalStatus
<1>2. worker[w].pc = "handlers" /\ worker'[w].pc = "batch"
  BY DEF Base, WorkersOK, CloseEvent, FinalStatus
<1>3. RowsOK'
  BY <1>1, <1>2 DEF Base, CloseEvent, FinalStatus, RowsOK, WorkersOK, Owning, EventStatus, Pairs, Looping
<1>4. WorkersOK'
  BY <1>1, <1>2 DEF Base, CloseEvent, FinalStatus, RowsOK, WorkersOK, Owning, Looping
<1>5. JobsCovered'
  BY <1>1, <1>2 DEF Base, CloseEvent, FinalStatus, RowsOK, WorkersOK, JobsCovered, Owning, Looping, Pairs
<1>6. DoneIsCovered'
  <2> DEFINE e == worker[w].event
  <2>1. CASE ~worker[w].anyFailed
    <3>1. \A h \in Handlers : completed[<<e, h>>] > 0 \/ <<e, h>> \in swallowed
      BY <2>1 DEF Base, CloseEvent, JobsCovered, Looping
    <3> QED
      BY <3>1 DEF Base, RowsOK, DoneIsCovered, CloseEvent
  <2>2. CASE worker[w].anyFailed
    <3>1. status'[e] # "done" /\ \A x \in Events : x # e => status'[x] = status[x]
      BY <2>2 DEF Base, RowsOK, WorkersOK, Owning, CloseEvent, FinalStatus
    <3> QED
      BY <3>1 DEF Base, DoneIsCovered, CloseEvent
  <2> QED
    BY <2>1, <2>2
<1>7. Base'
  BY <1>3, <1>4, <1>5, <1>6 DEF Base
<1> SUFFICES ASSUME Inv PROVE Inv'
  BY <1>7
<1>8. Exclusive'
  BY <1>1, <1>2 DEF Inv, CloseEvent, FinalStatus, RowsOK, WorkersOK, Exclusive, Owning
<1>9. AttemptsRead'
  BY <1>1, <1>2 DEF Inv, CloseEvent, FinalStatus, RowsOK, WorkersOK, Exclusive, AttemptsRead, Owning, Looping
<1>10. TodoUnrecorded'
  BY <1>1, <1>2 DEF Inv, CloseEvent, FinalStatus, RowsOK, WorkersOK, Exclusive, TodoUnrecorded, Owning, Looping, Pairs
<1>11. FailureRemains'
  <2> SUFFICES ASSUME NEW v \in Workers, Looping(v)', worker'[v].anyFailed
               PROVE  \E h \in Handlers \ worker'[v].todo :
                        /\ job'[<<worker'[v].event, h>>] # "done"
                        /\ worker'[v].pc = "ran" => h # worker'[v].handler
    BY DEF FailureRemains
  <2>1. worker'[v] = worker[v]
    BY <1>1, <1>2 DEF Looping
  <2>2. PICK h \in Handlers \ worker[v].todo :
          /\ job[<<worker[v].event, h>>] # "done"
          /\ worker[v].pc = "ran" => h # worker[v].handler
    BY <2>1 DEF Inv, FailureRemains, Looping
  <2> QED
    BY <2>1, <2>2 DEF CloseEvent, FinalStatus
<1>12. RunsPaid'
  <2>1. \A p \in Pairs : JustRan(p) => JustRan(p)'
    BY <1>1, <1>2 DEF JustRan
  <2> QED
    BY <2>1 DEF Inv, RowsOK, RunsPaid, CloseEvent, FinalStatus
<1>13. GaveUpLast'
  <2> DEFINE e == worker[w].event
  <2>1. CASE worker[w].anyFailed /\ worker[w].attempts >= MaxAttempts
    <3>1. attempts[e] >= MaxAttempts /\ \E h \in Handlers : job[<<e, h>>] # "done"
      BY <2>1 DEF Inv, CloseEvent, AttemptsRead, FailureRemains, Looping
    <3> QED
      BY <3>1 DEF Inv, RowsOK, GaveUpLast, CloseEvent
  <2>2. CASE ~(worker[w].anyFailed /\ worker[w].attempts >= MaxAttempts)
    <3>1. status'[e] # "failed" /\ \A x \in Events : x # e => status'[x] = status[x]
      BY <2>2 DEF Inv, RowsOK, WorkersOK, Owning, CloseEvent, FinalStatus
    <3> QED
      BY <3>1 DEF Inv, GaveUpLast, CloseEvent
  <2> QED
    BY <2>1, <2>2
<1> QED
  BY <1>3, <1>4, <1>8, <1>9, <1>10, <1>5, <1>11, <1>12, <1>6, <1>13 DEF Inv

LEMMA CrashStep ==
    ASSUME Base, NEW w \in Workers, Crash(w)
    PROVE  Base' /\ (Inv => Inv')
<1>1. \A v \in Workers : v # w => worker'[v] = worker[v]
  BY DEF Base, WorkersOK, Crash, Idle, rows
<1>2. worker'[w].pc = "idle"
  BY DEF Base, WorkersOK, Crash, Idle, rows
<1>3. RowsOK'
  BY DomainEventsAssumption DEF Base, Crash, RowsOK, rows
<1>4. WorkersOK'
  BY <1>1, <1>2 DEF Base, Crash, Idle, rows, RowsOK, WorkersOK, Owning, Looping
<1>5. JobsCovered'
  BY <1>1, <1>2 DEF Base, Crash, Idle, rows, RowsOK, WorkersOK, JobsCovered, Owning, Looping, Pairs
<1>6. DoneIsCovered'
  BY <1>1, <1>2 DEF Base, Crash, Idle, rows, RowsOK, WorkersOK, JobsCovered, DoneIsCovered, Owning, Looping, Pairs
<1>7. Base'
  BY <1>3, <1>4, <1>5, <1>6 DEF Base
<1> SUFFICES ASSUME Inv PROVE Inv'
  BY <1>7
<1>8. Exclusive'
  BY <1>1, <1>2 DEF Inv, Crash, Idle, rows, RowsOK, WorkersOK, Exclusive, Owning
<1>9. AttemptsRead'
  BY <1>1, <1>2 DEF Inv, Crash, Idle, rows, RowsOK, WorkersOK, Exclusive, AttemptsRead, Owning, Looping
<1>10. TodoUnrecorded'
  BY <1>1, <1>2 DEF Inv, Crash, Idle, rows, RowsOK, WorkersOK, Exclusive, TodoUnrecorded, Owning, Looping, Pairs
<1>11. FailureRemains'
  <2> SUFFICES ASSUME NEW v \in Workers, Looping(v)', worker'[v].anyFailed
               PROVE  \E h \in Handlers \ worker'[v].todo :
                        /\ job'[<<worker'[v].event, h>>] # "done"
                        /\ worker'[v].pc = "ran" => h # worker'[v].handler
    BY DEF FailureRemains
  <2>1. worker'[v] = worker[v]
    BY <1>1, <1>2 DEF Looping
  <2>2. PICK h \in Handlers \ worker[v].todo :
          /\ job[<<worker[v].event, h>>] # "done"
          /\ worker[v].pc = "ran" => h # worker[v].handler
    BY <2>1 DEF Inv, FailureRemains, Looping
  <2> QED
    BY <2>1, <2>2 DEF Crash, Idle, rows
<1>12. RunsPaid'
  <2>1. faults' = faults + 1 /\ UNCHANGED <<job, completed>>
    BY DEF Crash
  <2> QED
    BY <2>1 DEF Inv, RowsOK, RunsPaid
<1>13. GaveUpLast'
  BY DEF Inv, RowsOK, GaveUpLast, Crash, Idle, rows
<1> QED
  BY <1>3, <1>4, <1>8, <1>9, <1>10, <1>5, <1>11, <1>12, <1>6, <1>13 DEF Inv

LEMMA BackoffStep ==
    ASSUME Base, NEW e \in Events, BackoffElapses(e)
    PROVE  Base' /\ (Inv => Inv')
<1>1. RowsOK'
  BY DEF Base, BackoffElapses, RowsOK, WorkersOK, Owning, EventStatus, Pairs, Looping
<1>2. WorkersOK'
  BY DEF Base, BackoffElapses, RowsOK, WorkersOK, Owning, Looping
<1>3. JobsCovered'
  BY DEF Base, BackoffElapses, RowsOK, WorkersOK, JobsCovered, Owning, Looping, Pairs
<1>4. DoneIsCovered'
  BY DEF Base, BackoffElapses, RowsOK, WorkersOK, JobsCovered, DoneIsCovered, Owning, Looping, Pairs
<1>5. Base'
  BY <1>1, <1>2, <1>3, <1>4 DEF Base
<1> SUFFICES ASSUME Inv PROVE Inv'
  BY <1>5
<1>6. Exclusive'
  BY DEF Inv, BackoffElapses, RowsOK, WorkersOK, Exclusive, Owning
<1>7. AttemptsRead'
  BY DEF Inv, BackoffElapses, RowsOK, WorkersOK, Exclusive, AttemptsRead, Owning, Looping
<1>8. TodoUnrecorded'
  BY DEF Inv, BackoffElapses, RowsOK, WorkersOK, Exclusive, TodoUnrecorded, Owning, Looping, Pairs
<1>9. FailureRemains'
  <2> SUFFICES ASSUME NEW v \in Workers, Looping(v)', worker'[v].anyFailed
               PROVE  \E h \in Handlers \ worker'[v].todo :
                        /\ job'[<<worker'[v].event, h>>] # "done"
                        /\ worker'[v].pc = "ran" => h # worker'[v].handler
    BY DEF FailureRemains
  <2>1. worker'[v] = worker[v]
    BY DEF BackoffElapses
  <2>2. PICK h \in Handlers \ worker[v].todo :
          /\ job[<<worker[v].event, h>>] # "done"
          /\ worker[v].pc = "ran" => h # worker[v].handler
    BY <2>1 DEF Inv, FailureRemains, Looping
  <2> QED
    BY <2>1, <2>2 DEF BackoffElapses
<1>10. RunsPaid'
  BY DEF Inv, BackoffElapses, RowsOK, WorkersOK, Exclusive, TodoUnrecorded, RunsPaid, JustRan, Owning, Looping, Pairs
<1>11. GaveUpLast'
  BY DEF Inv, BackoffElapses, RowsOK, WorkersOK, Exclusive, AttemptsRead, FailureRemains, GaveUpLast, Owning, Looping, Pairs
<1> QED
  BY <1>1, <1>2, <1>6, <1>7, <1>8, <1>3, <1>9, <1>10, <1>4, <1>11 DEF Inv

LEMMA LockExpiresStep ==
    ASSUME Base, NEW e \in Events, LockExpires(e)
    PROVE  Base' /\ (~LongPasses /\ Inv => Inv')
<1>1. RowsOK'
  BY DomainEventsAssumption DEF Base, LockExpires, RowsOK
<1>2. WorkersOK'
  BY DEF Base, LockExpires, Owners, RowsOK, WorkersOK, Owning, Looping
<1>3. JobsCovered'
  BY DEF Base, LockExpires, Owners, RowsOK, WorkersOK, JobsCovered, Owning, Looping, Pairs
<1>4. DoneIsCovered'
  BY DEF Base, LockExpires, Owners, RowsOK, WorkersOK, JobsCovered, DoneIsCovered, Owning, Looping, Pairs
<1>5. Base'
  BY <1>1, <1>2, <1>3, <1>4 DEF Base
<1> SUFFICES ASSUME ~LongPasses, Inv PROVE Inv'
  BY <1>5
<1>6. Exclusive'
  BY DEF Inv, LockExpires, Owners, RowsOK, WorkersOK, Exclusive, Owning
<1>7. AttemptsRead'
  BY DEF Inv, LockExpires, Owners, RowsOK, WorkersOK, Exclusive, AttemptsRead, Owning, Looping
<1>8. TodoUnrecorded'
  BY DEF Inv, LockExpires, Owners, RowsOK, WorkersOK, Exclusive, TodoUnrecorded, Owning, Looping, Pairs
<1>9. FailureRemains'
  <2> SUFFICES ASSUME NEW v \in Workers, Looping(v)', worker'[v].anyFailed
               PROVE  \E h \in Handlers \ worker'[v].todo :
                        /\ job'[<<worker'[v].event, h>>] # "done"
                        /\ worker'[v].pc = "ran" => h # worker'[v].handler
    BY DEF FailureRemains
  <2>1. worker'[v] = worker[v]
    BY DEF LockExpires, Owners
  <2>2. PICK h \in Handlers \ worker[v].todo :
          /\ job[<<worker[v].event, h>>] # "done"
          /\ worker[v].pc = "ran" => h # worker[v].handler
    BY <2>1 DEF Inv, FailureRemains, Looping
  <2> QED
    BY <2>1, <2>2 DEF LockExpires, Owners
<1>10. RunsPaid'
  BY DEF Inv, LockExpires, Owners, RowsOK, WorkersOK, Exclusive, TodoUnrecorded, RunsPaid, JustRan, Owning, Looping, Pairs
<1>11. GaveUpLast'
  BY DEF Inv, LockExpires, Owners, RowsOK, WorkersOK, Exclusive, AttemptsRead, FailureRemains, GaveUpLast, Owning, Looping, Pairs
<1> QED
  BY <1>1, <1>2, <1>6, <1>7, <1>8, <1>3, <1>9, <1>10, <1>4, <1>11 DEF Inv

LEMMA RunHandlerStep ==
    ASSUME Base, NEW w \in Workers, RunHandler(w)
    PROVE  Base' /\ (Inv => Inv')
<1> DEFINE e == worker[w].event
<1>1. worker[w].pc = "handlers" /\ e \in Events /\ Looping(w) /\ Owning(w)
  BY DEF Base, WorkersOK, RunHandler, Owning, Looping
<1>2. PICK h \in worker[w].todo :
        \/ /\ completed' = [completed EXCEPT ![<<e, h>>] = @ + 1]
           /\ worker' = [worker EXCEPT ![w] = Loop(w, "ran", h, worker[w].anyFailed)]
           /\ UNCHANGED swallowed
        \/ /\ worker' = [worker EXCEPT ![w] = Loop(w, "threw", h, TRUE)]
           /\ UNCHANGED <<completed, swallowed>>
        \/ /\ swallowed' = swallowed \cup {<<e, h>>}
           /\ worker' = [worker EXCEPT ![w] = Loop(w, "handlers", h, worker[w].anyFailed)]
           /\ UNCHANGED completed
  BY DEF RunHandler
<1>3. h \in Handlers /\ <<e, h>> \in Pairs
  BY <1>1, <1>2 DEF Base, WorkersOK, Pairs
<1>4. UNCHANGED <<status, due, stale, attempts, job, faults>>
  BY DEF RunHandler, rows
<1>5. \A v \in Workers : v # w => worker'[v] = worker[v]
  BY <1>2 DEF Base, WorkersOK
<1>6. /\ worker'[w].batch = worker[w].batch /\ worker'[w].event = e
      /\ worker'[w].attempts = worker[w].attempts
      /\ worker'[w].todo = worker[w].todo \ {h} /\ worker'[w].handler = h
      /\ \/ worker'[w].pc = "threw" /\ worker'[w].anyFailed = TRUE
         \/ worker'[w].pc \in {"ran", "handlers"} /\ worker'[w].anyFailed = worker[w].anyFailed
  BY <1>2 DEF Base, WorkersOK, Loop
<1>7. /\ \A p \in Pairs : p # <<e, h>> => completed'[p] = completed[p]
      /\ \A p \in Pairs : completed'[p] >= completed[p] /\ completed'[p] \in Nat
      /\ completed' \in [Pairs -> Nat]
      /\ swallowed \subseteq swallowed'
  <2>1. completed[<<e, h>>] \in Nat /\ completed \in [Pairs -> Nat]
    BY <1>3 DEF Base, RowsOK
  <2>2. completed' = [completed EXCEPT ![<<e, h>>] = @ + 1] \/ completed' = completed
    BY <1>2
  <2>3. swallowed \subseteq swallowed'
    BY <1>2
  <2> QED
    BY <2>1, <2>2, <2>3, <1>3
<1>8. \/ worker'[w].pc = "ran" /\ completed'[<<e, h>>] = completed[<<e, h>>] + 1
      \/ worker'[w].pc = "threw" /\ UNCHANGED completed
      \/ worker'[w].pc = "handlers" /\ <<e, h>> \in swallowed' /\ UNCHANGED completed
  BY <1>2, <1>3 DEF Base, RowsOK, WorkersOK, Loop
<1>9. RowsOK'
  <2>1. swallowed' \subseteq Pairs
    BY <1>2, <1>3 DEF Base, RowsOK
  <2> QED
    BY <2>1, <1>4, <1>7 DEF Base, RowsOK
<1>10. WorkersOK'
  <2>1. worker' = [v \in Workers |-> worker'[v]]
    BY <1>2 DEF Base, WorkersOK
  <2> QED
    BY <2>1, <1>1, <1>3, <1>5, <1>6 DEF Base, WorkersOK, Owning, Looping
<1>11. JobsCovered'
  <2>1. \A p \in Pairs : completed[p] > 0 => completed'[p] > 0
    BY <1>7 DEF Base, RowsOK
  <2>2. \A p \in Pairs : job'[p] = "done" => completed'[p] > 0
    BY <2>1, <1>4 DEF Base, JobsCovered
  <2> SUFFICES ASSUME NEW v \in Workers, Looping(v)'
               PROVE  /\ worker'[v].pc = "ran" => completed'[<<worker'[v].event, worker'[v].handler>>] > 0
                      /\ worker'[v].pc = "threw" => worker'[v].anyFailed
                      /\ ~worker'[v].anyFailed =>
                          \A k \in Handlers \ worker'[v].todo :
                              \/ completed'[<<worker'[v].event, k>>] > 0
                              \/ <<worker'[v].event, k>> \in swallowed'
    BY <2>2 DEF JobsCovered
  <2>3. CASE v # w
    <3>1. worker'[v] = worker[v] /\ Looping(v) /\ worker[v].event \in Events
      BY <2>3, <1>5 DEF Base, WorkersOK, Looping, Owning
    <3>2. worker[v].pc = "ran" => worker[v].handler \in Handlers
      BY DEF Base, WorkersOK
    <3>3. \A k \in Handlers : <<worker[v].event, k>> \in Pairs
      BY <3>1 DEF Pairs
    <3> QED
      BY <3>1, <3>2, <3>3, <2>1, <1>7 DEF Base, JobsCovered
  <2>4. CASE v = w
    <3>1. worker'[w].pc = "ran" => completed'[<<e, h>>] > 0
      BY <1>3, <1>8 DEF Base, RowsOK
    <3>2. ~worker'[w].anyFailed => completed'[<<e, h>>] > 0 \/ <<e, h>> \in swallowed'
      BY <3>1, <1>6, <1>8
    <3>3. ~worker[w].anyFailed => \A k \in Handlers \ worker[w].todo :
            completed[<<e, k>>] > 0 \/ <<e, k>> \in swallowed
      BY <1>1 DEF Base, JobsCovered
    <3>4. \A k \in Handlers : <<e, k>> \in Pairs
      BY <1>1 DEF Pairs
    <3>5. ~worker[w].anyFailed => \A k \in Handlers \ worker[w].todo :
            completed'[<<e, k>>] > 0 \/ <<e, k>> \in swallowed'
      BY <3>3, <3>4, <2>1, <1>7
    <3> QED
      BY <2>4, <3>1, <3>2, <3>5, <1>6
  <2> QED
    BY <2>3, <2>4
<1>12. DoneIsCovered'
  BY <1>4, <1>7 DEF Base, RowsOK, DoneIsCovered, Pairs
<1>13. Base'
  BY <1>9, <1>10, <1>11, <1>12 DEF Base
<1> SUFFICES ASSUME Inv PROVE Inv'
  BY <1>13
<1>14. job[<<e, h>>] # "done"
  BY <1>1, <1>2 DEF Inv, TodoUnrecorded
<1>15. Exclusive'
  BY <1>1, <1>4, <1>5, <1>6 DEF Inv, Exclusive, Owning
<1>16. AttemptsRead'
  BY <1>1, <1>4, <1>5, <1>6 DEF Inv, AttemptsRead, Looping
<1>17. TodoUnrecorded'
  <2>1. \A k \in worker[w].todo : job'[<<e, k>>] # "done"
    BY <1>1, <1>4 DEF Inv, TodoUnrecorded
  <2> SUFFICES ASSUME NEW v \in Workers, Looping(v)'
               PROVE  /\ \A k \in worker'[v].todo : job'[<<worker'[v].event, k>>] # "done"
                      /\ worker'[v].pc \in {"ran", "threw"} =>
                           job'[<<worker'[v].event, worker'[v].handler>>] # "done"
    BY DEF TodoUnrecorded
  <2>2. CASE v = w
    BY <2>1, <2>2, <1>3, <1>14, <1>6
  <2>3. CASE v # w
    <3>1. worker'[v] = worker[v] /\ Looping(v) /\ job' = job
      BY <2>3, <1>4, <1>5 DEF Looping
    <3> QED
      BY <3>1 DEF Inv, TodoUnrecorded
  <2> QED
    BY <2>2, <2>3
<1>18. FailureRemains'
  <2> SUFFICES ASSUME NEW v \in Workers, Looping(v)', worker'[v].anyFailed
               PROVE  \E k \in Handlers \ worker'[v].todo :
                        /\ job'[<<worker'[v].event, k>>] # "done"
                        /\ worker'[v].pc = "ran" => k # worker'[v].handler
    BY DEF FailureRemains
  <2>1. CASE v # w
    BY <2>1, <1>4, <1>5 DEF Inv, FailureRemains, Looping
  <2>2. CASE v = w /\ worker[w].anyFailed
    <3>1. PICK k \in Handlers \ worker[w].todo : job[<<e, k>>] # "done"
      BY <2>2, <1>1 DEF Inv, FailureRemains
    <3>2. k # h
      BY <3>1, <1>2
    <3> QED
      BY <2>2, <3>1, <3>2, <1>4, <1>6
  <2>3. CASE v = w /\ ~worker[w].anyFailed
    BY <2>3, <1>3, <1>14, <1>4, <1>6
  <2> QED
    BY <2>1, <2>2, <2>3
<1>19. RunsPaid'
  <2> PICK q \in Pairs : q = <<e, h>>
    BY <1>3, <1>14
  <2>1. ~JustRan(q)
    BY <1>1 DEF Inv, Exclusive, JustRan, Owning
  <2>2. completed[q] <= faults
    BY <2>1, <1>3, <1>14 DEF Inv, RunsPaid
  <2>3. \A p \in Pairs : JustRan(p) => JustRan(p)'
    BY <1>1, <1>5 DEF JustRan
  <2>4. worker'[w].pc = "ran" => JustRan(q)'
    BY <1>6 DEF JustRan
  <2>5. completed'[q] <= IF JustRan(q)' THEN 1 + faults ELSE faults
    BY <2>2, <2>4, <1>8 DEF Inv, RowsOK
  <2>6. job'[q] # "done"
    BY <1>3, <1>14, <1>4
  <2>7. \A p \in Pairs : p # q => completed'[p] = completed[p]
    BY <1>7
  <2> SUFFICES ASSUME NEW p \in Pairs
               PROVE  completed'[p] <= IF job'[p] = "done" \/ JustRan(p)' THEN 1 + faults' ELSE faults'
    BY DEF RunsPaid
  <2>8. CASE p = q
    BY <2>5, <2>6, <2>8, <1>4
  <2>9. CASE p # q
    <3>1. completed[p] <= IF job[p] = "done" \/ JustRan(p) THEN 1 + faults ELSE faults
      BY DEF Inv, RunsPaid
    <3> QED
      BY <3>1, <2>3, <2>7, <2>9, <1>4 DEF Inv, RowsOK
  <2> QED
    BY <2>8, <2>9
<1>20. GaveUpLast'
  BY <1>4 DEF Inv, GaveUpLast
<1> QED
  BY <1>9, <1>10, <1>15, <1>16, <1>17, <1>11, <1>18, <1>19, <1>12, <1>20 DEF Inv

LEMMA RecordDoneStep ==
    ASSUME Base, NEW w \in Workers, RecordDone(w)
    PROVE  Base' /\ (Inv => Inv')
<1> DEFINE e == worker[w].event
           h == worker[w].handler
<1>1. worker[w].pc = "ran" /\ e \in Events /\ Looping(w) /\ Owning(w)
  BY DEF Base, WorkersOK, RecordDone, Owning, Looping
<1>2. h \in Handlers \ worker[w].todo /\ <<e, h>> \in Pairs
  BY <1>1 DEF Base, WorkersOK, Pairs
<1>3. \/ /\ job' = [job EXCEPT ![<<e, h>>] = "done"]
         /\ worker' = [worker EXCEPT ![w] = Loop(w, "handlers", h, worker[w].anyFailed)]
         /\ UNCHANGED faults
      \/ /\ faults < MaxFaults /\ faults' = faults + 1
         /\ worker' = [worker EXCEPT ![w] = Loop(w, "threw", h, TRUE)]
         /\ UNCHANGED job
  BY DEF RecordDone
<1>4. UNCHANGED <<status, due, stale, attempts, completed, swallowed>>
  BY DEF RecordDone, rows
<1>5. \A v \in Workers : v # w => worker'[v] = worker[v]
  BY <1>3 DEF Base, WorkersOK
<1>6. /\ worker'[w].batch = worker[w].batch /\ worker'[w].event = e
      /\ worker'[w].attempts = worker[w].attempts
      /\ worker'[w].todo = worker[w].todo /\ worker'[w].handler = h
  <2>1. worker[w].todo \ {h} = worker[w].todo
    BY <1>2
  <2>2. worker'[w] = Loop(w, "handlers", h, worker[w].anyFailed) \/ worker'[w] = Loop(w, "threw", h, TRUE)
    BY <1>3 DEF Base, WorkersOK
  <2> QED
    BY <2>1, <2>2 DEF Loop
<1>7. \/ /\ job' = [job EXCEPT ![<<e, h>>] = "done"] /\ UNCHANGED faults
         /\ worker'[w].pc = "handlers" /\ worker'[w].anyFailed = worker[w].anyFailed
      \/ /\ UNCHANGED job /\ faults < MaxFaults /\ faults' = faults + 1
         /\ worker'[w].pc = "threw" /\ worker'[w].anyFailed = TRUE
  BY <1>3 DEF Base, WorkersOK, Loop
<1>8. /\ \A p \in Pairs : p # <<e, h>> => job'[p] = job[p]
      /\ job' \in [Pairs -> {"none", "done", "failed"}] /\ faults' \in 0..MaxFaults /\ faults' >= faults
  BY <1>2, <1>7, DomainEventsAssumption DEF Base, RowsOK
<1>9. RowsOK'
  BY <1>4, <1>8 DEF Base, RowsOK
<1>10. WorkersOK'
  <2>1. worker' = [v \in Workers |-> worker'[v]]
    BY <1>3 DEF Base, WorkersOK
  <2>2. worker'[w].pc \in {"handlers", "threw"} /\ worker'[w].anyFailed \in BOOLEAN
    BY <1>1, <1>7 DEF Base, WorkersOK
  <2> QED
    BY <2>1, <2>2, <1>1, <1>2, <1>5, <1>6 DEF Base, WorkersOK, Owning, Looping
<1>11. JobsCovered'
  <2>1. completed[<<e, h>>] > 0
    BY <1>1 DEF Base, JobsCovered
  <2>2. \A p \in Pairs : job'[p] = "done" => completed[p] > 0
    BY <2>1, <1>8 DEF Base, JobsCovered
  <2>3. \A v \in Workers : v # w /\ Looping(v)' => Looping(v) /\ worker'[v] = worker[v]
    BY <1>5 DEF Looping
  <2>4. ~worker'[w].anyFailed => \A k \in Handlers \ worker'[w].todo :
          \/ completed[<<worker'[w].event, k>>] > 0
          \/ <<worker'[w].event, k>> \in swallowed
    <3>1. ~worker'[w].anyFailed => ~worker[w].anyFailed
      BY <1>7
    <3>2. ~worker[w].anyFailed => \A k \in Handlers \ worker[w].todo :
            completed[<<e, k>>] > 0 \/ <<e, k>> \in swallowed
      BY <1>1 DEF Base, JobsCovered
    <3> QED
      BY <3>1, <3>2, <1>6
  <2>5. worker'[w].pc # "ran" /\ (worker'[w].pc = "threw" => worker'[w].anyFailed)
    BY <1>7
  <2> QED
    BY <2>2, <2>3, <2>4, <2>5, <1>4 DEF Base, JobsCovered
<1>12. DoneIsCovered'
  BY <1>4 DEF Base, DoneIsCovered
<1>13. Base'
  BY <1>9, <1>10, <1>11, <1>12 DEF Base
<1> SUFFICES ASSUME Inv PROVE Inv'
  BY <1>13
<1>14. job[<<e, h>>] # "done"
  BY <1>1 DEF Inv, TodoUnrecorded
<1>15. Exclusive'
  BY <1>1, <1>4, <1>5, <1>6, <1>7 DEF Inv, Exclusive, Owning
<1>16. AttemptsRead'
  BY <1>1, <1>4, <1>5, <1>6, <1>7 DEF Inv, AttemptsRead, Looping
<1>17. \A v \in Workers, k \in Handlers : v # w /\ Looping(v) =>
        job'[<<worker[v].event, k>>] = job[<<worker[v].event, k>>]
  BY <1>1, <1>8 DEF Inv, WorkersOK, Exclusive, Owning, Looping, Pairs
<1>18. \A k \in Handlers : k # h => job'[<<e, k>>] = job[<<e, k>>]
  BY <1>1, <1>8 DEF Pairs
<1>19. TodoUnrecorded'
  <2>1. \A v \in Workers : v # w /\ Looping(v)' =>
          Looping(v) /\ worker'[v] = worker[v] /\ worker[v].todo \subseteq Handlers
    BY <1>5 DEF Inv, WorkersOK, Looping
  <2>2. \A v \in Workers : worker[v].pc \in {"ran", "threw"} => worker[v].handler \in Handlers
    BY DEF Inv, WorkersOK
  <2>3. \A v \in Workers : v # w /\ Looping(v)' =>
          /\ \A k \in worker'[v].todo : job'[<<worker'[v].event, k>>] # "done"
          /\ worker'[v].pc \in {"ran", "threw"} =>
              job'[<<worker'[v].event, worker'[v].handler>>] # "done"
    BY <2>1, <2>2, <1>17 DEF Inv, TodoUnrecorded
  <2>4. \A k \in worker'[w].todo : job'[<<worker'[w].event, k>>] # "done"
    <3>1. \A k \in worker[w].todo : k \in Handlers /\ k # h /\ job[<<e, k>>] # "done"
      BY <1>1, <1>2, <1>14 DEF Inv, WorkersOK, TodoUnrecorded
    <3> QED
      BY <3>1, <1>6, <1>18
  <2>5. worker'[w].pc \in {"ran", "threw"} => job'[<<worker'[w].event, worker'[w].handler>>] # "done"
    BY <1>2, <1>14, <1>6, <1>7
  <2> QED
    BY <2>3, <2>4, <2>5 DEF TodoUnrecorded
<1>20. FailureRemains'
  <2> SUFFICES ASSUME NEW v \in Workers, Looping(v)', worker'[v].anyFailed
               PROVE  \E k \in Handlers \ worker'[v].todo :
                        /\ job'[<<worker'[v].event, k>>] # "done"
                        /\ worker'[v].pc = "ran" => k # worker'[v].handler
    BY DEF FailureRemains
  <2>1. CASE v # w
    BY <2>1, <1>5, <1>17 DEF Inv, FailureRemains, Looping
  <2>2. CASE v = w /\ worker'[w].pc = "threw"
    BY <2>2, <1>2, <1>14, <1>6, <1>7
  <2>3. CASE v = w /\ worker'[w].pc = "handlers"
    BY <2>3, <1>1, <1>6, <1>7, <1>18 DEF Inv, FailureRemains
  <2> QED
    BY <2>1, <2>2, <2>3, <1>7
<1>21. RunsPaid'
  <2>1. CASE faults' = faults + 1 /\ UNCHANGED job
    BY <2>1, <1>4 DEF Inv, RowsOK, RunsPaid
  <2>2. CASE job' = [job EXCEPT ![<<e, h>>] = "done"] /\ UNCHANGED faults
    <3>1. \A p \in Pairs : JustRan(p) => p = <<e, h>> \/ JustRan(p)'
      BY <1>5 DEF JustRan
    <3> QED
      BY <2>2, <3>1, <1>2, <1>14, <1>4, <1>8 DEF Inv, RowsOK, RunsPaid
  <2> QED
    BY <2>1, <2>2, <1>7
<1>22. GaveUpLast'
  <2>1. status[e] = "processing"
    BY <1>1 DEF Inv, Exclusive
  <2>2. \A x \in Events, k \in Handlers : x # e => job'[<<x, k>>] = job[<<x, k>>]
    BY <1>8 DEF Pairs
  <2> QED
    BY <2>1, <2>2, <1>4 DEF Inv, GaveUpLast
<1> QED
  BY <1>9, <1>10, <1>15, <1>16, <1>19, <1>11, <1>20, <1>21, <1>12, <1>22 DEF Inv

LEMMA RecordFailedStep ==
    ASSUME Base, NEW w \in Workers, RecordFailed(w)
    PROVE  Base' /\ (Inv => Inv')
<1> DEFINE e == worker[w].event
           h == worker[w].handler
<1>1. worker[w].pc = "threw" /\ e \in Events /\ Looping(w) /\ Owning(w)
  BY DEF Base, WorkersOK, RecordFailed, Owning, Looping
<1>2. h \in Handlers \ worker[w].todo /\ <<e, h>> \in Pairs
  BY <1>1 DEF Base, WorkersOK, Pairs
<1>3. /\ worker' = [worker EXCEPT ![w] = Loop(w, "handlers", h, worker[w].anyFailed)]
      /\ \/ job' = [job EXCEPT ![<<e, h>>] = "failed"] /\ UNCHANGED faults
         \/ UNCHANGED job /\ faults' = faults + 1
  BY DEF Base, WorkersOK, RecordFailed
<1>4. UNCHANGED <<status, due, stale, attempts, completed, swallowed>>
  BY DEF RecordFailed, rows
<1>5. \A v \in Workers : v # w => worker'[v] = worker[v]
  BY <1>3 DEF Base, WorkersOK
<1>6. /\ worker'[w].batch = worker[w].batch /\ worker'[w].event = e
      /\ worker'[w].attempts = worker[w].attempts
      /\ worker'[w].todo = worker[w].todo /\ worker'[w].handler = h
      /\ worker'[w].pc = "handlers" /\ worker'[w].anyFailed = worker[w].anyFailed
  BY <1>2, <1>3 DEF Base, WorkersOK, Loop
<1>7. /\ \A p \in Pairs : job'[p] = "done" => job[p] = "done"
      /\ job' \in [Pairs -> {"none", "done", "failed"}] /\ faults' \in 0..MaxFaults /\ faults' >= faults
  BY <1>2, <1>3, DomainEventsAssumption DEF Base, RowsOK, RecordFailed
<1>8. RowsOK'
  BY <1>4, <1>7 DEF Base, RowsOK
<1>9. WorkersOK'
  <2>1. worker' = [v \in Workers |-> worker'[v]]
    BY <1>3 DEF Base, WorkersOK
  <2> QED
    BY <2>1, <1>1, <1>2, <1>5, <1>6 DEF Base, WorkersOK, Owning, Looping
<1>10. JobsCovered'
  <2>1. \A p \in Pairs : job'[p] = "done" => completed[p] > 0
    BY <1>7 DEF Base, JobsCovered
  <2>2. \A v \in Workers : v # w /\ Looping(v)' => Looping(v) /\ worker'[v] = worker[v]
    BY <1>5 DEF Looping
  <2>3. worker'[w].anyFailed /\ worker'[w].pc = "handlers"
    BY <1>1, <1>6 DEF Base, JobsCovered
  <2> QED
    BY <2>1, <2>2, <2>3, <1>4 DEF Base, JobsCovered
<1>11. DoneIsCovered'
  BY <1>4 DEF Base, DoneIsCovered
<1>12. Base'
  BY <1>8, <1>9, <1>10, <1>11 DEF Base
<1> SUFFICES ASSUME Inv PROVE Inv'
  BY <1>12
<1>13. job[<<e, h>>] # "done"
  BY <1>1 DEF Inv, TodoUnrecorded
<1>14. \A p \in Pairs : job'[p] = "done" <=> job[p] = "done"
  BY <1>2, <1>3, <1>13 DEF Inv, RowsOK
<1>15. \A x \in Events, k \in Handlers : job'[<<x, k>>] = "done" <=> job[<<x, k>>] = "done"
  BY <1>14 DEF Pairs
<1>16. Exclusive'
  BY <1>1, <1>4, <1>5, <1>6 DEF Inv, Exclusive, Owning
<1>17. AttemptsRead'
  BY <1>1, <1>4, <1>5, <1>6 DEF Inv, AttemptsRead, Looping
<1>18. TodoUnrecorded'
  <2>1. \A v \in Workers : Looping(v)' =>
          Looping(v) /\ worker'[v].event = worker[v].event /\ worker[v].event \in Events
                     /\ worker'[v].todo = worker[v].todo /\ worker[v].todo \subseteq Handlers
    BY <1>1, <1>5, <1>6 DEF Inv, WorkersOK, Looping, Owning
  <2>2. \A v \in Workers : worker'[v].pc \in {"ran", "threw"} =>
          worker'[v] = worker[v] /\ worker[v].handler \in Handlers
    BY <1>5, <1>6 DEF Inv, WorkersOK
  <2>3. \A v \in Workers : Looping(v)' =>
          \A k \in worker'[v].todo : job'[<<worker'[v].event, k>>] # "done"
    <3> SUFFICES ASSUME NEW v \in Workers, Looping(v)', NEW k \in worker[v].todo
                 PROVE  job'[<<worker[v].event, k>>] # "done"
      BY <2>1
    <3>1. k \in Handlers /\ worker[v].event \in Events /\ Looping(v)
      BY <2>1
    <3>2. job[<<worker[v].event, k>>] # "done"
      BY <3>1 DEF Inv, TodoUnrecorded
    <3> QED
      BY <3>1, <3>2, <1>15
  <2>4. \A v \in Workers : Looping(v)' /\ worker'[v].pc \in {"ran", "threw"} =>
          job'[<<worker'[v].event, worker'[v].handler>>] # "done"
    BY <2>1, <2>2, <1>15 DEF Inv, TodoUnrecorded
  <2> QED
    BY <2>3, <2>4 DEF TodoUnrecorded
<1>19. FailureRemains'
  <2> SUFFICES ASSUME NEW v \in Workers, Looping(v)', worker'[v].anyFailed
               PROVE  \E k \in Handlers \ worker'[v].todo :
                        /\ job'[<<worker'[v].event, k>>] # "done"
                        /\ worker'[v].pc = "ran" => k # worker'[v].handler
    BY DEF FailureRemains
  <2>1. worker[v].event \in Events
    BY <1>1, <1>5 DEF Inv, WorkersOK, Owning, Looping
  <2>2. CASE v # w
    BY <2>1, <2>2, <1>5, <1>15 DEF Inv, FailureRemains, Looping
  <2>3. CASE v = w
    BY <2>3, <1>1, <1>2, <1>13, <1>6, <1>15
  <2> QED
    BY <2>2, <2>3
<1>20. RunsPaid'
  <2>1. \A p \in Pairs : JustRan(p) => JustRan(p)'
    BY <1>1, <1>5 DEF JustRan
  <2> QED
    BY <2>1, <1>4, <1>7, <1>14 DEF Inv, RowsOK, RunsPaid
<1>21. GaveUpLast'
  BY <1>4, <1>15 DEF Inv, GaveUpLast
<1> QED
  BY <1>8, <1>9, <1>16, <1>17, <1>18, <1>10, <1>19, <1>20, <1>11, <1>21 DEF Inv

-----------------------------------------------------------------------------
LEMMA InitInv == Init => Inv
<1> SUFFICES ASSUME Init PROVE Inv
  OBVIOUS
<1>1. RowsOK
  BY DomainEventsAssumption DEF Init, RowsOK, EventStatus
<1>2. WorkersOK /\ Exclusive /\ AttemptsRead
  BY DEF Init, Idle, WorkersOK, Exclusive, AttemptsRead, Owning, Looping
<1>3. TodoUnrecorded /\ JobsCovered /\ FailureRemains
  BY DEF Init, Idle, TodoUnrecorded, JobsCovered, FailureRemains, Looping
<1>4. RunsPaid /\ DoneIsCovered /\ GaveUpLast
  BY DEF Init, RunsPaid, DoneIsCovered, GaveUpLast
<1> QED
  BY <1>1, <1>2, <1>3, <1>4 DEF Inv

LEMMA NextBase == Base /\ [Next]_vars => Base'
<1> SUFFICES ASSUME Base, [Next]_vars PROVE Base'
  OBVIOUS
<1>1. CASE UNCHANGED vars
  BY <1>1 DEF vars, Base, RowsOK, WorkersOK, JobsCovered, DoneIsCovered, Owning, Looping
<1>2. CASE \E e \in Events : emitEvent(e) \/ BackoffElapses(e) \/ LockExpires(e)
  BY <1>2, EmitStep, BackoffStep, LockExpiresStep
<1>3. CASE \E w \in Workers :
            \/ \E read \in SUBSET Events : Pick(w, read)
            \/ \E e \in Events : Claim(w, e)
            \/ Return(w) \/ PassStep(w) \/ Crash(w)
  BY <1>3, PickStep, ClaimStep, ReturnStep, ReadEventStep, ReadJobsStep, RunHandlerStep,
     RecordDoneStep, RecordFailedStep, CloseEventStep, CrashStep DEF PassStep
<1> QED
  BY <1>1, <1>2, <1>3 DEF Next

LEMMA NextInv ==
    ASSUME ~LongPasses
    PROVE  Inv /\ [Next]_vars => Inv'
<1> SUFFICES ASSUME Inv, Base, [Next]_vars PROVE Inv'
  BY DEF Inv, Base
<1>1. CASE UNCHANGED vars
  <2>1. RowsOK' /\ WorkersOK' /\ Exclusive' /\ AttemptsRead'
    BY <1>1 DEF vars, Inv, RowsOK, WorkersOK, Exclusive, AttemptsRead, Owning, Looping
  <2>2. TodoUnrecorded' /\ FailureRemains'
    BY <1>1 DEF vars, Inv, TodoUnrecorded, FailureRemains, Looping
  <2>3. JobsCovered'
    BY <1>1 DEF vars, Inv, JobsCovered, Looping
  <2>4. RunsPaid'
    BY <1>1 DEF vars, Inv, RunsPaid, JustRan
  <2>5. DoneIsCovered' /\ GaveUpLast'
    BY <1>1 DEF vars, Inv, DoneIsCovered, GaveUpLast
  <2> QED
    BY <2>1, <2>2, <2>3, <2>4, <2>5 DEF Inv
<1>2. CASE \E e \in Events : emitEvent(e) \/ BackoffElapses(e) \/ LockExpires(e)
  BY <1>2, EmitStep, BackoffStep, LockExpiresStep
<1>3. CASE \E w \in Workers :
            \/ \E read \in SUBSET Events : Pick(w, read)
            \/ \E e \in Events : Claim(w, e)
            \/ Return(w) \/ PassStep(w) \/ Crash(w)
  BY <1>3, PickStep, ClaimStep, ReturnStep, ReadEventStep, ReadJobsStep, RunHandlerStep,
     RecordDoneStep, RecordFailedStep, CloseEventStep, CrashStep DEF PassStep
<1> QED
  BY <1>1, <1>2, <1>3 DEF Next

LEMMA BaseHolds == Spec => []Base
<1>1. Init => Base
  BY InitInv DEF Inv, Base
<1> QED
  BY <1>1, NextBase, PTL DEF Spec

THEOREM InvHolds ==
    ASSUME ~LongPasses
    PROVE  Spec => []Inv
  BY InitInv, NextInv, PTL DEF Spec

(* Every row and every worker is well-formed in every reachable state,      *)
(* however long handler passes take.                                        *)
THEOREM TypeOKHolds == Spec => []TypeOK
<1>1. Base => TypeOK
  BY DEF Base, RowsOK, WorkersOK, TypeOK, Holding, Owning, Looping
<1> QED
  BY <1>1, BaseHolds, PTL

(* No handler is lost: an event is done only when every handler completed,  *)
(* also when a stolen event's passes overlap and the last writer wins.      *)
THEOREM DoneIsCoveredHolds == Spec => []DoneIsCovered
  BY BaseHolds, PTL DEF Base

(* An event is owned by one worker at a time, behind a fresh lock.          *)
THEOREM ExclusivePassHolds ==
    ASSUME ~LongPasses
    PROVE  Spec => []ExclusivePass
<1>1. Inv => ExclusivePass
  BY DEF Inv, Exclusive, ExclusivePass, Owners, Owning
<1> QED
  BY <1>1, InvHolds, PTL

(* An event is given up only after MAX_ATTEMPTS, with a handler unfinished. *)
THEOREM GaveUpLastHolds ==
    ASSUME ~LongPasses
    PROVE  Spec => []GaveUpLast
  BY InvHolds, PTL DEF Inv

(* A handler completes more often than once only as often as faults occur.  *)
THEOREM RerunsNeedFaultsHolds ==
    ASSUME ~LongPasses
    PROVE  Spec => []RerunsNeedFaults
<1>1. Inv => RerunsNeedFaults
  BY DEF Inv, RowsOK, RunsPaid, RerunsNeedFaults
<1> QED
  BY <1>1, InvHolds, PTL
-----------------------------------------------------------------------------
\* Which steps write the status, and which ones the history of completed runs.
LEMMA StatusStep ==
    ASSUME Inv, Next, NEW e \in Events
    PROVE  \/ status'[e] = status[e]
           \/ status[e] = "none" /\ status'[e] = "pending"
           \/ status[e] \in {"pending", "processing"} /\ status'[e] = "processing"
           \/ status[e] = "processing" /\ \E w \in Workers :
                CloseEvent(w) /\ worker[w].event = e
<1>1. CASE \E x \in Events : emitEvent(x)
  BY <1>1 DEF emitEvent, Inv, RowsOK
<1>2. CASE \E w \in Workers, x \in Events : Claim(w, x)
  <2> PICK w \in Workers, x \in Events : Claim(w, x)
    BY <1>2
  <2>1. worker[w].batch[x] \in {"pending", "processing"}
    BY DEF Claim, Inv, WorkersOK
  <2>2. \/ /\ status[x] = worker[w].batch[x]
           /\ status' = [status EXCEPT ![x] = "processing"]
        \/ UNCHANGED status
    BY DEF Claim, Claimable, rows
  <2> QED
    BY <2>1, <2>2 DEF Inv, RowsOK
<1>3. CASE \E w \in Workers : CloseEvent(w)
  <2> PICK w \in Workers : CloseEvent(w)
    BY <1>3
  <2>1. status[worker[w].event] = "processing"
    BY DEF CloseEvent, Inv, Exclusive, Owning
  <2>2. \A x \in Events : x # worker[w].event => status'[x] = status[x]
    BY DEF CloseEvent, Inv, RowsOK
  <2> QED
    BY <2>1, <2>2
<1>4. CASE UNCHANGED status
  BY <1>4
<1> QED
  BY <1>1, <1>2, <1>3, <1>4 DEF Next, PassStep, Pick, Return, ReadEvent, ReadJobs, RunHandler,
     RecordDone, RecordFailed, Crash, BackoffElapses, LockExpires, rows

LEMMA CompletedStep ==
    ASSUME Inv, Next
    PROVE  \/ UNCHANGED <<completed, swallowed>>
           \/ \E w \in Workers : RunHandler(w)
<1>1. CASE \E e \in Events : emitEvent(e) \/ BackoffElapses(e) \/ LockExpires(e)
  BY <1>1 DEF emitEvent, BackoffElapses, LockExpires
<1>2. CASE \E w \in Workers :
            \/ \E read \in SUBSET Events : Pick(w, read)
            \/ \E e \in Events : Claim(w, e)
            \/ Return(w) \/ PassStep(w) \/ Crash(w)
  BY <1>2 DEF Pick, Claim, Return, PassStep, ReadEvent, ReadJobs, RecordDone, RecordFailed,
     CloseEvent, Crash
<1> QED
  BY <1>1, <1>2 DEF Next

\* A handler runs only for an event in processing, with its job not done.
LEMMA RunStep ==
    ASSUME Inv, NEW w \in Workers, RunHandler(w)
    PROVE  \E h \in Handlers :
            /\ status[worker[w].event] = "processing"
            /\ worker[w].event \in Events
            /\ job[<<worker[w].event, h>>] # "done"
            /\ UNCHANGED <<status>>
            /\ \/ /\ completed' = [completed EXCEPT ![<<worker[w].event, h>>] = @ + 1]
                  /\ UNCHANGED swallowed
               \/ UNCHANGED <<completed, swallowed>>
               \/ swallowed' = swallowed \cup {<<worker[w].event, h>>} /\ UNCHANGED completed
<1>1. worker[w].pc = "handlers" /\ Owning(w) /\ Looping(w)
  BY DEF RunHandler, Owning, Looping
<1>2. /\ status[worker[w].event] = "processing" /\ worker[w].event \in Events
      /\ \A h \in worker[w].todo : h \in Handlers /\ job[<<worker[w].event, h>>] # "done"
  BY <1>1 DEF Inv, WorkersOK, Exclusive, TodoUnrecorded
<1> QED
  BY <1>2 DEF RunHandler, rows

(* A handler whose job is recorded done never completes again.              *)
THEOREM NoRerunOfRecordedHolds ==
    ASSUME ~LongPasses
    PROVE  Spec => NoRerunOfRecorded
<1>1. Inv /\ [Next]_vars =>
        [\A p \in Pairs : completed'[p] # completed[p] => job[p] # "done"]_vars
  <2> SUFFICES ASSUME Inv, Next, NEW p \in Pairs, completed'[p] # completed[p]
               PROVE  job[p] # "done"
    OBVIOUS
  <2>1. PICK w \in Workers : RunHandler(w)
    BY CompletedStep
  <2> QED
    BY <2>1, RunStep DEF Inv, RowsOK
<1> QED
  BY <1>1, InvHolds, PTL DEF Spec, NoRerunOfRecorded

(* A settled event keeps its status for ever.                               *)
THEOREM SettledIsFinalHolds ==
    ASSUME ~LongPasses
    PROVE  Spec => SettledIsFinal
<1>1. Inv /\ [Next]_vars =>
        [\A e \in Events : status[e] \in {"done", "failed"} => status'[e] = status[e]]_vars
  BY StatusStep
<1> QED
  BY <1>1, InvHolds, PTL DEF Spec, SettledIsFinal

-----------------------------------------------------------------------------
(* The refinement: the rows and the runs of the worker, seen as the stages  *)
(* and covered handlers of OutboxPromise, make only the promised steps.     *)
stageOf == [e \in Events |-> IF status[e] \in {"pending", "processing"} THEN "open" ELSE status[e]]
coveredOf == {p \in Pairs : completed[p] > 0} \cup swallowed

LEMMA PromiseStep ==
    ASSUME Inv, Inv', Next
    PROVE  Promise!PromiseNext \/ UNCHANGED <<stageOf, coveredOf>>
<1>1. CASE \E w \in Workers : RunHandler(w)
  <2> PICK w \in Workers : RunHandler(w)
    BY <1>1
  <2> DEFINE e == worker[w].event
  <2>1. PICK h \in Handlers :
            /\ status[e] = "processing" /\ e \in Events /\ UNCHANGED status
            /\ \/ /\ completed' = [completed EXCEPT ![<<e, h>>] = @ + 1]
                  /\ UNCHANGED swallowed
               \/ UNCHANGED <<completed, swallowed>>
               \/ swallowed' = swallowed \cup {<<e, h>>} /\ UNCHANGED completed
    BY RunStep
  <2>2. UNCHANGED stageOf /\ stageOf[e] = "open"
    BY <2>1 DEF stageOf
  <2>3. coveredOf' = coveredOf \/ coveredOf' = coveredOf \cup {<<e, h>>}
    <3>1. CASE completed' = [completed EXCEPT ![<<e, h>>] = @ + 1] /\ UNCHANGED swallowed
      <4>1. <<e, h>> \in Pairs
        BY <2>1 DEF Pairs
      <4>2. completed'[<<e, h>>] > 0 /\ \A p \in Pairs : p # <<e, h>> => completed'[p] = completed[p]
        BY <3>1, <4>1 DEF Inv, RowsOK
      <4> QED
        BY <3>1, <4>1, <4>2 DEF coveredOf
    <3>2. CASE UNCHANGED <<completed, swallowed>>
      BY <3>2 DEF coveredOf
    <3>3. CASE swallowed' = swallowed \cup {<<e, h>>} /\ UNCHANGED completed
      BY <3>3 DEF coveredOf
    <3> QED
      BY <2>1, <3>1, <3>2, <3>3
  <2>4. Promise!Complete(e, h) \/ UNCHANGED <<stageOf, coveredOf>>
    BY <2>2, <2>3 DEF Promise!Complete, stageOf, coveredOf
  <2> QED
    BY <2>1, <2>4 DEF Promise!PromiseNext
<1>2. CASE UNCHANGED <<completed, swallowed>>
  <2>1. UNCHANGED coveredOf
    BY <1>2 DEF coveredOf
  <2>2. CASE \E e \in Events : emitEvent(e)
    <3> PICK e \in Events : emitEvent(e)
      BY <2>2
    <3>1. status[e] = "none" /\ status' = [status EXCEPT ![e] = "pending"]
      BY DEF emitEvent
    <3>2. stageOf' = [stageOf EXCEPT ![e] = "open"] /\ stageOf[e] = "none"
      BY <3>1 DEF Inv, RowsOK, stageOf
    <3> QED
      BY <2>1, <3>2 DEF Promise!PromiseNext, Promise!Emit, stageOf, coveredOf
  <2>3. CASE \E w \in Workers : CloseEvent(w)
    <3> PICK w \in Workers : CloseEvent(w)
      BY <2>3
    <3> DEFINE e == worker[w].event
               final == FinalStatus(worker[w].anyFailed, worker[w].attempts)
    <3>1. status[e] = "processing" /\ e \in Events
      BY DEF CloseEvent, Inv, WorkersOK, Exclusive, Owning
    <3>2. status' = [status EXCEPT ![e] = final] /\ final \in {"done", "failed", "pending"}
      BY DEF CloseEvent, FinalStatus
    <3>3. status'[e] = final /\ \A x \in Events : x # e => status'[x] = status[x]
      BY <3>1, <3>2 DEF Inv, RowsOK
    <3>4. stageOf[e] = "open"
      BY <3>1 DEF stageOf
    <3>5. CASE final = "pending"
      <4>1. UNCHANGED stageOf
        BY <3>1, <3>3, <3>5 DEF stageOf
      <4> QED
        BY <2>1, <4>1
    <3>6. CASE final = "failed"
      <4>1. stageOf' = [stageOf EXCEPT ![e] = "failed"]
        BY <3>1, <3>3, <3>6 DEF stageOf
      <4> QED
        BY <2>1, <3>1, <3>4, <4>1 DEF Promise!PromiseNext, Promise!GiveUp, stageOf, coveredOf
    <3>7. CASE final = "done"
      <4>1. stageOf' = [stageOf EXCEPT ![e] = "done"]
        BY <3>1, <3>3, <3>7 DEF stageOf
      <4>2. \A h \in Handlers : completed[<<e, h>>] > 0 \/ <<e, h>> \in swallowed
        BY <1>2, <3>1, <3>3, <3>7 DEF Inv, DoneIsCovered
      <4>3. {e} \X Handlers \subseteq coveredOf
        BY <3>1, <4>2 DEF coveredOf, Pairs
      <4> QED
        BY <2>1, <3>1, <3>4, <4>1, <4>3 DEF Promise!PromiseNext, Promise!Finish, stageOf, coveredOf
    <3> QED
      BY <3>2, <3>5, <3>6, <3>7
  <2>4. CASE ~(\E e \in Events : emitEvent(e)) /\ ~(\E w \in Workers : CloseEvent(w))
    <3>1. \A e \in Events : \/ status'[e] = status[e]
                            \/ status[e] \in {"pending", "processing"} /\ status'[e] = "processing"
                            \/ status[e] = "none" /\ status'[e] = "pending" /\ emitEvent(e)
      <4> SUFFICES ASSUME NEW e \in Events, status[e] = "none", status'[e] = "pending"
                   PROVE  emitEvent(e)
        BY <2>4, StatusStep
      <4>1. CASE \E x \in Events, w \in Workers : Claim(w, x)
        BY <4>1 DEF Claim, Claimable, Inv, RowsOK, WorkersOK, rows
      <4>2. CASE UNCHANGED status
        BY <4>2
      <4> QED
        BY <2>4, <4>1, <4>2 DEF Next, PassStep, Pick, Return, ReadEvent, ReadJobs, RunHandler,
           RecordDone, RecordFailed, Crash, BackoffElapses, LockExpires, rows
    <3>2. UNCHANGED stageOf
      BY <2>4, <3>1 DEF stageOf
    <3> QED
      BY <2>1, <3>2
  <2> QED
    BY <2>2, <2>3, <2>4
<1> QED
  BY <1>1, <1>2, CompletedStep

(* The worker implements the promise of the outbox.                         *)
THEOREM KeepsPromiseHolds ==
    ASSUME ~LongPasses
    PROVE  Spec => KeepsPromise
<1>1. Init => Promise!PromiseInit
  BY DEF Init, Promise!PromiseInit, Pairs
<1>2. Inv /\ Inv' /\ [Next]_vars => [Promise!PromiseNext]_(Promise!promiseVars)
  <2> SUFFICES ASSUME Inv, Inv', [Next]_vars
               PROVE  Promise!PromiseNext \/ UNCHANGED <<stageOf, coveredOf>>
    BY DEF Promise!promiseVars, stageOf, coveredOf
  <2>1. CASE Next
    BY <2>1, PromiseStep
  <2>2. CASE UNCHANGED vars
    BY <2>2 DEF vars, stageOf, coveredOf
  <2> QED
    BY <2>1, <2>2
<1> QED
  BY <1>1, <1>2, InvHolds, PTL DEF Spec, KeepsPromise, Promise!PromiseSpec
-----------------------------------------------------------------------------
(* How often a handler can run when passes do outlive their locks and       *)
(* overlap.  A claim entitles its pass to one run of each handler, and every *)
(* claim beyond MAX_ATTEMPTS has a fault behind it: a pass that has read     *)
(* less may reopen the event once more, and only a fault adds such a pass.   *)
Willing(w, h) == worker[w].pc \in {"claimed", "jobs"} \/ (Looping(w) /\ h \in worker[w].todo)
MayRun(e, h) == {w \in Owners(e) : Willing(w, h)}

\* A pass that would reopen its event if a handler failed.
Trying(w) ==
    IF worker[w].pc = "claimed" THEN attempts[worker[w].event] < MaxAttempts
                                ELSE worker[w].attempts < MaxAttempts
Early(e) == {w \in Owners(e) : Trying(w)}

\* An open event nobody owns, or owns for good, is claimed once more.
Open(e) == status[e] = "pending" \/ stale[e] \/ (status[e] = "processing" /\ Owners(e) = {})
Opening(e) == IF Open(e) THEN 1 ELSE 0
Later(e) == IF attempts[e] >= MaxAttempts THEN attempts[e] ELSE MaxAttempts - 1

OwnersFinite == \A e \in Events : IsFiniteSet(Owners(e))
StaleIsLocked == \A e \in Events : stale[e] => status[e] = "processing"
Unemitted == \A e \in Events : status[e] = "none" => attempts[e] = 0 /\ Owners(e) = {}
RunsCounted ==
    \A e \in Events : \A h \in Handlers :
        completed[<<e, h>>] + Cardinality(MayRun(e, h)) <= attempts[e]
ClaimsPaid ==
    \A e \in Events : status[e] # "none" =>
        Later(e) + Cardinality(Early(e)) + Opening(e) <= MaxAttempts + faults

CountInv == OwnersFinite /\ StaleIsLocked /\ Unemitted /\ RunsCounted /\ ClaimsPaid

\* A step after which nobody owns, tries or may run more than before.
Calm ==
    \A v \in Workers : Owning(v)' =>
        /\ Owning(v) /\ worker'[v].event = worker[v].event
        /\ Trying(v)' => Trying(v)
        /\ \A h \in Handlers : Willing(v, h)' => Willing(v, h)

LEMMA SmallerSet ==
    ASSUME NEW T, IsFiniteSet(T), NEW S \in SUBSET T
    PROVE  IsFiniteSet(S) /\ Cardinality(S) \in Nat /\ Cardinality(T) \in Nat
           /\ Cardinality(S) <= Cardinality(T)
  BY FS_Subset, FS_CardinalityType

LEMMA OneLess ==
    ASSUME NEW T, IsFiniteSet(T), NEW x \in T, NEW S \in SUBSET (T \ {x})
    PROVE  Cardinality(S) \in Nat /\ Cardinality(T) \in Nat /\ Cardinality(S) + 1 <= Cardinality(T)
<1>1. IsFiniteSet(T \ {x}) /\ Cardinality(T \ {x}) = Cardinality(T) - 1
  BY FS_RemoveElement
<1>2. Cardinality(S) \in Nat /\ Cardinality(S) <= Cardinality(T \ {x}) /\ Cardinality(T) \in Nat
  BY <1>1, SmallerSet, FS_CardinalityType
<1> QED
  BY <1>1, <1>2

LEMMA OneMore ==
    ASSUME NEW T, IsFiniteSet(T), NEW x, NEW S \in SUBSET (T \cup {x})
    PROVE  IsFiniteSet(S) /\ Cardinality(S) \in Nat /\ Cardinality(T) \in Nat
           /\ Cardinality(S) <= Cardinality(T) + 1
<1>1. /\ IsFiniteSet(T \cup {x}) /\ Cardinality(T) \in Nat
      /\ Cardinality(T \cup {x}) = IF x \in T THEN Cardinality(T) ELSE Cardinality(T) + 1
  BY FS_AddElement, FS_CardinalityType
<1>2. /\ IsFiniteSet(S) /\ Cardinality(S) \in Nat
      /\ Cardinality(S) <= Cardinality(T \cup {x}) /\ Cardinality(T \cup {x}) \in Nat
  BY <1>1, SmallerSet
<1> QED
  BY <1>1, <1>2

LEMMA CalmSets ==
    ASSUME Calm
    PROVE  \A e \in Events : /\ Owners(e)' \subseteq Owners(e) /\ Early(e)' \subseteq Early(e)
                             /\ \A h \in Handlers : MayRun(e, h)' \subseteq MayRun(e, h)
  BY DEF Calm, Owners, Early, MayRun, Owning

LEMMA CountedSets ==
    ASSUME CountInv, NEW e \in Events
    PROVE  /\ IsFiniteSet(Owners(e))
           /\ IsFiniteSet(Early(e)) /\ Cardinality(Early(e)) \in Nat
           /\ \A h \in Handlers : IsFiniteSet(MayRun(e, h)) /\ Cardinality(MayRun(e, h)) \in Nat
<1>1. IsFiniteSet(Owners(e))
  BY DEF CountInv, OwnersFinite
<1>2. Early(e) \in SUBSET Owners(e) /\ \A h \in Handlers : MayRun(e, h) \in SUBSET Owners(e)
  BY DEF Early, MayRun
<1> QED
  BY <1>1, <1>2, SmallerSet

LEMMA RunsKept ==
    ASSUME Base, CountInv, Calm, UNCHANGED <<attempts, completed>>
    PROVE  RunsCounted'
<1> SUFFICES ASSUME NEW e \in Events, NEW h \in Handlers
             PROVE  completed'[<<e, h>>] + Cardinality(MayRun(e, h)') <= attempts'[e]
  BY DEF RunsCounted
<1>1. Cardinality(MayRun(e, h)') <= Cardinality(MayRun(e, h))
      /\ Cardinality(MayRun(e, h)') \in Nat /\ Cardinality(MayRun(e, h)) \in Nat
  BY CalmSets, CountedSets, SmallerSet
<1>2. completed[<<e, h>>] + Cardinality(MayRun(e, h)) <= attempts[e]
  BY DEF CountInv, RunsCounted
<1>3. completed[<<e, h>>] \in Nat /\ attempts[e] \in Nat
  BY DEF Base, RowsOK, Pairs
<1> QED
  BY <1>1, <1>2, <1>3

LEMMA ClaimsKept ==
    ASSUME Base, Base', CountInv, Calm, UNCHANGED attempts,
           \A e \in Events : stale'[e] => status'[e] = "processing",
           \A e \in Events : status'[e] = "none" <=> status[e] = "none",
           \/ faults' = faults /\ \A e \in Events : Open(e)' => Open(e)
           \/ faults' = faults + 1
    PROVE  OwnersFinite' /\ StaleIsLocked' /\ Unemitted' /\ ClaimsPaid'
<1>1. OwnersFinite' /\ StaleIsLocked' /\ Unemitted'
  BY CalmSets, CountedSets, SmallerSet DEF OwnersFinite, StaleIsLocked, CountInv, Unemitted
<1> SUFFICES ASSUME NEW e \in Events, status[e] # "none"
             PROVE  Later(e)' + Cardinality(Early(e)') + Opening(e)' <= MaxAttempts + faults'
  BY <1>1 DEF ClaimsPaid
<1>2. /\ Cardinality(Early(e)') <= Cardinality(Early(e))
      /\ Cardinality(Early(e)') \in Nat /\ Cardinality(Early(e)) \in Nat
  BY CalmSets, CountedSets, SmallerSet
<1>3. Later(e) + Cardinality(Early(e)) + Opening(e) <= MaxAttempts + faults
  BY DEF CountInv, ClaimsPaid
<1>4. Later(e)' = Later(e) /\ Later(e) \in Nat
  BY DomainEventsAssumption DEF Later, Base, RowsOK
<1>5. faults \in Nat /\ MaxAttempts \in Nat
  BY DomainEventsAssumption DEF Base, RowsOK
<1>6. CASE faults' = faults /\ (Open(e)' => Open(e))
  <2>1. Opening(e)' \in {0, 1} /\ Opening(e) \in {0, 1} /\ Opening(e)' <= Opening(e)
    BY <1>6 DEF Opening
  <2> QED
    BY <1>2, <1>3, <1>4, <1>5, <1>6, <2>1
<1>7. CASE faults' = faults + 1
  <2>1. Opening(e)' \in {0, 1} /\ Opening(e) \in {0, 1}
    BY DEF Opening
  <2> QED
    BY <1>2, <1>3, <1>4, <1>5, <1>7, <2>1
<1> QED
  BY <1>6, <1>7

(* A pass goes on: it owns the same event, reads the attempts of its claim   *)
(* or has read them, and never gets back a handler it has dropped.           *)
LEMMA PassIsCalm ==
    ASSUME Base, NEW w \in Workers,
           ReadEvent(w) \/ ReadJobs(w) \/ RunHandler(w) \/ RecordDone(w) \/ RecordFailed(w)
    PROVE  Calm /\ \A e \in Events : Owners(e)' = Owners(e)
<1>1. /\ \A v \in Workers : v # w => worker'[v] = worker[v]
      /\ UNCHANGED <<status, stale, attempts>>
  BY DEF Base, WorkersOK, ReadEvent, ReadJobs, RunHandler, RecordDone, RecordFailed, rows
<1>2. /\ Owning(w) /\ Owning(w)' /\ worker'[w].event = worker[w].event
      /\ Trying(w)' => Trying(w)
      /\ \A h \in Handlers : Willing(w, h)' => Willing(w, h)
  <2>1. CASE ReadEvent(w)
    BY <2>1 DEF Base, WorkersOK, ReadEvent, Owning, Trying, Willing, Looping, rows
  <2>2. CASE ReadJobs(w)
    BY <2>2 DEF Base, WorkersOK, ReadJobs, Owning, Trying, Willing, Looping, rows
  <2>3. CASE RunHandler(w)
    BY <2>3 DEF Base, WorkersOK, RunHandler, Loop, Owning, Trying, Willing, Looping, rows
  <2>4. CASE RecordDone(w)
    BY <2>4 DEF Base, WorkersOK, RecordDone, Loop, Owning, Trying, Willing, Looping, rows
  <2>5. CASE RecordFailed(w)
    BY <2>5 DEF Base, WorkersOK, RecordFailed, Loop, Owning, Trying, Willing, Looping, rows
  <2> QED
    BY <2>1, <2>2, <2>3, <2>4, <2>5
<1>3. \A v \in Workers : v # w =>
         /\ Owning(v)' <=> Owning(v)
         /\ Trying(v)' <=> Trying(v)
         /\ \A h \in Handlers : Willing(v, h)' <=> Willing(v, h)
  BY <1>1 DEF Owning, Trying, Willing, Looping
<1>4. Calm
  BY <1>1, <1>2, <1>3 DEF Calm
<1>5. \A e \in Events : Owners(e)' = Owners(e)
  BY <1>1, <1>2, <1>3 DEF Owners, Owning
<1> QED
  BY <1>4, <1>5

LEMMA CountOfPass ==
    ASSUME Base, Base', CountInv, NEW w \in Workers,
           ReadEvent(w) \/ ReadJobs(w) \/ RunHandler(w) \/ RecordDone(w) \/ RecordFailed(w)
    PROVE  CountInv'
<1>1. /\ UNCHANGED <<status, stale, attempts>>
      /\ faults' = faults \/ faults' = faults + 1
      /\ UNCHANGED completed \/ RunHandler(w)
  BY DEF ReadEvent, ReadJobs, RunHandler, RecordDone, RecordFailed, rows
<1>2. Calm /\ \A e \in Events : Open(e)' <=> Open(e)
  BY <1>1, PassIsCalm DEF Open
<1>3. OwnersFinite' /\ StaleIsLocked' /\ Unemitted' /\ ClaimsPaid'
  BY <1>1, <1>2, ClaimsKept DEF CountInv, StaleIsLocked
<1>4. CASE UNCHANGED completed
  BY <1>1, <1>2, <1>3, <1>4, RunsKept DEF CountInv
<1>5. CASE RunHandler(w)
  <2> SUFFICES ASSUME NEW e \in Events, NEW h \in Handlers
               PROVE  completed'[<<e, h>>] + Cardinality(MayRun(e, h)') <= attempts'[e]
    BY <1>3 DEF CountInv, RunsCounted
  <2>1. /\ completed[<<e, h>>] + Cardinality(MayRun(e, h)) <= attempts[e]
        /\ completed[<<e, h>>] \in Nat /\ attempts[e] \in Nat /\ <<e, h>> \in Pairs
        /\ IsFiniteSet(MayRun(e, h)) /\ MayRun(e, h)' \subseteq MayRun(e, h)
    BY <1>2, CalmSets, CountedSets DEF CountInv, RunsCounted, Base, RowsOK, Pairs
  <2>2. CASE completed'[<<e, h>>] = completed[<<e, h>>]
    BY <1>1, <2>1, <2>2, SmallerSet
  <2>3. CASE completed'[<<e, h>>] # completed[<<e, h>>]
    <3>1. /\ worker[w].event = e /\ h \in worker[w].todo /\ worker[w].pc = "handlers"
          /\ completed'[<<e, h>>] = completed[<<e, h>>] + 1
          /\ worker' = [worker EXCEPT ![w] = Loop(w, "ran", h, worker[w].anyFailed)]
      <4>1. PICK k \in worker[w].todo :
              /\ completed' = [completed EXCEPT ![<<worker[w].event, k>>] = @ + 1]
              /\ worker' = [worker EXCEPT ![w] = Loop(w, "ran", k, worker[w].anyFailed)]
        BY <1>5, <2>3 DEF RunHandler
      <4>2. <<worker[w].event, k>> = <<e, h>>
        BY <2>1, <2>3, <4>1 DEF Base, RowsOK
      <4> QED
        BY <1>5, <2>1, <4>1, <4>2 DEF RunHandler, Base, RowsOK
    <3>2. w \in MayRun(e, h) /\ ~Willing(w, h)'
      BY <3>1 DEF MayRun, Owners, Willing, Looping, Base, WorkersOK, Loop
    <3>3. MayRun(e, h)' \in SUBSET (MayRun(e, h) \ {w})
      BY <2>1, <3>2 DEF MayRun
    <3> QED
      BY <1>1, <2>1, <3>1, <3>2, <3>3, OneLess
  <2> QED
    BY <2>2, <2>3
<1> QED
  BY <1>1, <1>4, <1>5

(* The steps of the clock and of a worker that owns no event, or gives its   *)
(* event up without a word.                                                  *)
LEMMA CountOfOthers ==
    ASSUME Base, Base', CountInv,
           \/ \E e \in Events : BackoffElapses(e) \/ LockExpires(e)
           \/ \E w \in Workers : \/ \E read \in SUBSET Events : Pick(w, read)
                                 \/ Return(w) \/ Crash(w)
    PROVE  CountInv'
<1>1. UNCHANGED <<status, attempts, completed>>
  BY DEF BackoffElapses, LockExpires, Pick, Return, Crash, rows
<1>2. Calm
  <2>1. CASE \E e \in Events : BackoffElapses(e) \/ LockExpires(e)
    BY <1>1, <2>1 DEF BackoffElapses, LockExpires, Calm, Owning, Trying, Willing, Looping
  <2>2. ASSUME NEW w \in Workers,
               (\E read \in SUBSET Events : Pick(w, read)) \/ Return(w) \/ Crash(w)
        PROVE  Calm
    <3>1. ~Owning(w)' /\ \A v \in Workers : v # w => worker'[v] = worker[v]
      BY <2>2 DEF Base, WorkersOK, Pick, Return, Crash, Idle, Owning
    <3> QED
      BY <1>1, <3>1 DEF Calm, Owning, Trying, Willing, Looping
  <2> QED
    BY <2>1, <2>2
<1>3. \A e \in Events : stale'[e] => status'[e] = "processing"
  BY <1>1 DEF CountInv, StaleIsLocked, BackoffElapses, LockExpires, Pick, Return, Crash, rows,
     Base, RowsOK
<1>4. faults' = faults + 1 \/ (faults' = faults /\ \A e \in Events : Open(e)' => Open(e))
  <2>1. CASE \E e \in Events : BackoffElapses(e)
    BY <2>1 DEF BackoffElapses, Open, Owners
  <2>2. ASSUME NEW x \in Events, LockExpires(x), faults' # faults + 1
        PROVE  faults' = faults /\ \A e \in Events : Open(e)' => Open(e)
    <3>1. /\ Owners(x) = {} /\ status[x] = "processing" /\ faults' = faults
          /\ UNCHANGED <<status, worker>>
          /\ \A e \in Events : e # x => stale'[e] = stale[e]
      BY <2>2 DEF LockExpires, Base, RowsOK
    <3> QED
      BY <3>1 DEF Open, Owners
  <2>3. ASSUME NEW w \in Workers, (\E read \in SUBSET Events : Pick(w, read)) \/ Return(w)
        PROVE  faults' = faults /\ \A e \in Events : Open(e)' => Open(e)
    <3>1. ~Owning(w) /\ ~Owning(w)' /\ \A v \in Workers : v # w => worker'[v] = worker[v]
      BY <2>3 DEF Base, WorkersOK, Pick, Return, Idle, Owning
    <3>2. \A e \in Events : Owners(e)' = Owners(e)
      BY <3>1 DEF Owners, Owning
    <3> QED
      BY <2>3, <3>2 DEF Pick, Return, rows, Open
  <2>4. CASE \E w \in Workers : Crash(w)
    BY <2>4 DEF Crash
  <2> QED
    BY <2>1, <2>2, <2>3, <2>4
<1> QED
  BY <1>1, <1>2, <1>3, <1>4, RunsKept, ClaimsKept DEF CountInv

LEMMA CountOfEmit ==
    ASSUME Base, Base', CountInv, NEW x \in Events, emitEvent(x)
    PROVE  CountInv'
<1>1. /\ UNCHANGED <<stale, attempts, worker, completed, faults>>
      /\ status[x] = "none" /\ status'[x] = "pending"
      /\ \A e \in Events : e # x => status'[e] = status[e]
  BY DEF emitEvent, Base, RowsOK
<1>2. \A e \in Events : Owners(e)' = Owners(e) /\ Early(e)' = Early(e)
  BY <1>1 DEF Owners, Early, Trying
<1>3. OwnersFinite' /\ StaleIsLocked' /\ Unemitted'
  BY <1>1, <1>2 DEF CountInv, OwnersFinite, StaleIsLocked, Unemitted
<1>4. RunsCounted'
  BY <1>1, RunsKept DEF Calm, Owning, Trying, Willing, Looping
<1>5. ASSUME NEW e \in Events, status'[e] # "none"
      PROVE  Later(e)' + Cardinality(Early(e)') + Opening(e)' <= MaxAttempts + faults'
  <2>1. CASE e # x
    <3>1. Later(e)' = Later(e) /\ Opening(e)' = Opening(e)
      BY <1>1, <1>2, <2>1 DEF Later, Opening, Open
    <3> QED
      BY <1>1, <1>2, <1>5, <2>1, <3>1 DEF CountInv, ClaimsPaid
  <2>2. CASE e = x
    <3>1. attempts'[e] = 0 /\ Owners(e)' = {}
      BY <1>1, <1>2, <2>2 DEF CountInv, Unemitted
    <3>2. Early(e)' = {}
      BY <3>1 DEF Early
    <3>3. Later(e)' = MaxAttempts - 1 /\ Opening(e)' \in {0, 1} /\ Cardinality(Early(e)') = 0
      BY <3>1, <3>2, FS_EmptySet, DomainEventsAssumption DEF Later, Opening
    <3> QED
      BY <1>1, <3>3, DomainEventsAssumption DEF Base, RowsOK
  <2> QED
    BY <2>1, <2>2
<1> QED
  BY <1>3, <1>4, <1>5 DEF CountInv, ClaimsPaid

(* A claim needs an open event and leaves it closed: what it adds to the     *)
(* claims still to come, or to the claims made, the opening had paid for.    *)
LEMMA CountOfClaim ==
    ASSUME Base, Base', CountInv, NEW w \in Workers, NEW x \in Events, Claim(w, x)
    PROVE  CountInv'
<1> DEFINE seen == worker[w].batch[x]
<1>1. /\ ~Owning(w) /\ UNCHANGED <<completed, faults>>
      /\ \A v \in Workers : v # w => worker'[v] = worker[v]
  BY DEF Claim, Owning, Base, WorkersOK
<1>2. CASE ~Claimable(x, seen)
  <2>1. UNCHANGED <<status, stale, attempts>> /\ ~Owning(w)'
    BY <1>2 DEF Claim, rows, Owning, Base, WorkersOK
  <2>2. Calm /\ \A e \in Events : Owners(e)' = Owners(e)
    BY <1>1, <2>1 DEF Calm, Owning, Trying, Willing, Looping, Owners
  <2>3. \A e \in Events : Open(e)' <=> Open(e)
    BY <2>1, <2>2 DEF Open
  <2> QED
    BY <1>1, <2>1, <2>2, <2>3, RunsKept, ClaimsKept DEF CountInv, StaleIsLocked
<1>3. CASE Claimable(x, seen)
  <2>1. /\ status' = [status EXCEPT ![x] = "processing"]
        /\ stale' = [stale EXCEPT ![x] = FALSE]
        /\ attempts' = [attempts EXCEPT ![x] = @ + 1]
        /\ worker'[w].pc = "claimed" /\ worker'[w].event = x
    BY <1>3 DEF Claim, Base, WorkersOK
  <2>2. /\ status'[x] = "processing" /\ ~stale'[x] /\ attempts'[x] = attempts[x] + 1
        /\ attempts[x] \in Nat
        /\ \A e \in Events : e # x =>
              status'[e] = status[e] /\ stale'[e] = stale[e] /\ attempts'[e] = attempts[e]
    BY <2>1 DEF Base, RowsOK
  <2>3. Open(x) /\ status[x] # "none"
    BY <1>3 DEF Claim, Claimable, Open, Base, WorkersOK
  <2>4. w \in Owners(x)' /\ Owners(x)' \subseteq Owners(x) \cup {w}
    BY <1>1, <2>1 DEF Owners, Owning
  <2>5. \A e \in Events : e # x => /\ Owners(e)' = Owners(e) /\ Early(e)' = Early(e)
                                   /\ \A h \in Handlers : MayRun(e, h)' = MayRun(e, h)
    BY <1>1, <2>1, <2>2 DEF Owners, Owning, Early, Trying, MayRun, Willing, Looping
  <2>6. \A h \in Handlers : MayRun(x, h)' \subseteq MayRun(x, h) \cup {w}
    BY <1>1, <2>4 DEF Owners, MayRun, Willing, Looping
  <2>7. /\ Early(x)' \subseteq Early(x) \cup {w}
        /\ attempts'[x] >= MaxAttempts => Early(x)' \subseteq Early(x)
    <3>1. \A v \in Workers : v # w /\ Owning(v) /\ worker[v].event = x => (Trying(v)' => Trying(v))
      BY <1>1, <2>2, DomainEventsAssumption DEF Trying
    <3>2. attempts'[x] >= MaxAttempts => ~Trying(w)'
      BY <2>1, <2>2, DomainEventsAssumption DEF Trying
    <3> QED
      BY <1>1, <2>4, <3>1, <3>2 DEF Owners, Owning, Early
  <2>8. OwnersFinite' /\ StaleIsLocked' /\ Unemitted'
    <3>1. \A e \in Events : IsFiniteSet(Owners(e)')
      BY <2>4, <2>5, CountedSets, OneMore
    <3> QED
      BY <2>2, <2>5, <3>1 DEF OwnersFinite, StaleIsLocked, Unemitted, CountInv
  <2>9. RunsCounted'
    <3> SUFFICES ASSUME NEW e \in Events, NEW h \in Handlers
                 PROVE  completed'[<<e, h>>] + Cardinality(MayRun(e, h)') <= attempts'[e]
      BY DEF RunsCounted
    <3>1. /\ completed[<<e, h>>] + Cardinality(MayRun(e, h)) <= attempts[e]
          /\ completed[<<e, h>>] \in Nat /\ attempts[e] \in Nat
      BY DEF CountInv, RunsCounted, Base, RowsOK, Pairs
    <3>2. CASE e # x
      BY <1>1, <2>2, <2>5, <3>1, <3>2
    <3>3. CASE e = x
      <4>1. /\ Cardinality(MayRun(x, h)') <= Cardinality(MayRun(x, h)) + 1
            /\ Cardinality(MayRun(x, h)') \in Nat /\ Cardinality(MayRun(x, h)) \in Nat
        BY <2>6, CountedSets, OneMore
      <4> QED
        BY <1>1, <2>2, <3>1, <3>3, <4>1
    <3> QED
      BY <3>2, <3>3
  <2>10. ClaimsPaid'
    <3> SUFFICES ASSUME NEW e \in Events, status'[e] # "none"
                 PROVE  Later(e)' + Cardinality(Early(e)') + Opening(e)' <= MaxAttempts + faults'
      BY DEF ClaimsPaid
    <3>1. CASE e # x
      <4>1. Later(e)' = Later(e) /\ Opening(e)' = Opening(e)
        BY <2>2, <2>5, <3>1 DEF Later, Opening, Open
      <4> QED
        BY <1>1, <2>2, <2>5, <3>1, <4>1 DEF CountInv, ClaimsPaid
    <3>2. CASE e = x
      <4>1. Opening(x)' = 0 /\ Opening(x) = 1
        BY <2>2, <2>3, <2>4 DEF Opening, Open
      <4>2. Later(x) + Cardinality(Early(x)) + Opening(x) <= MaxAttempts + faults
        BY <2>3 DEF CountInv, ClaimsPaid
      <4>3. /\ Cardinality(Early(x)') <= Cardinality(Early(x)) + 1
            /\ Cardinality(Early(x)') \in Nat /\ Cardinality(Early(x)) \in Nat
            /\ attempts'[x] >= MaxAttempts => Cardinality(Early(x)') <= Cardinality(Early(x))
        BY <2>7, CountedSets, OneMore, SmallerSet
      <4>4. faults \in Nat /\ MaxAttempts \in Nat \ {0}
        BY DomainEventsAssumption DEF Base, RowsOK
      <4>5. IF attempts'[x] >= MaxAttempts THEN Later(x)' <= Later(x) + 1 ELSE Later(x)' = Later(x)
        BY <2>2, <4>4 DEF Later
      <4>6. Later(x) \in Nat /\ Later(x)' \in Nat
        BY <2>2, <4>4 DEF Later
      <4> QED
        BY <1>1, <3>2, <4>1, <4>2, <4>3, <4>4, <4>5, <4>6
    <3> QED
      BY <3>1, <3>2
  <2> QED
    BY <2>8, <2>9, <2>10 DEF CountInv
<1> QED
  BY <1>2, <1>3

(* A pass that reopens its event was trying, and tries no more.              *)
LEMMA CountOfClose ==
    ASSUME Base, Base', CountInv, NEW w \in Workers, CloseEvent(w)
    PROVE  CountInv'
<1>0. PICK x \in Events : x = worker[w].event
  BY DEF CloseEvent, Owning, Base, WorkersOK
<1> DEFINE final == FinalStatus(worker[w].anyFailed, worker[w].attempts)
<1>1. /\ UNCHANGED <<attempts, completed, faults>> /\ worker[w].pc = "handlers"
      /\ \A v \in Workers : v # w => worker'[v] = worker[v]
      /\ Owning(w) /\ ~Owning(w)'
  BY DEF CloseEvent, Owning, Base, WorkersOK
<1>2. /\ status'[x] = final /\ final \in {"done", "failed", "pending"} /\ ~stale'[x]
      /\ \A e \in Events : e # x => status'[e] = status[e] /\ stale'[e] = stale[e]
  BY <1>0, <1>1 DEF CloseEvent, FinalStatus, Base, RowsOK
<1>3. Calm
  BY <1>1 DEF Calm, Owning, Trying, Willing, Looping
<1>4. w \in Owners(x) /\ w \notin Owners(x)'
  BY <1>0, <1>1 DEF Owners, Owning
<1>5. \A e \in Events : e # x => Owners(e)' = Owners(e)
  BY <1>0, <1>1 DEF Owners, Owning
<1>6. status[x] # "none"
  BY <1>1, <1>4 DEF CountInv, Unemitted
<1>7. OwnersFinite' /\ StaleIsLocked' /\ Unemitted'
  BY <1>1, <1>2, <1>3, <1>5, CalmSets, CountedSets, SmallerSet
     DEF OwnersFinite, StaleIsLocked, CountInv, Unemitted
<1>8. ASSUME NEW e \in Events, status'[e] # "none"
      PROVE  Later(e)' + Cardinality(Early(e)') + Opening(e)' <= MaxAttempts + faults'
  <2>1. Later(e)' = Later(e) /\ Later(e) \in Nat /\ faults \in Nat /\ MaxAttempts \in Nat
    BY <1>1, DomainEventsAssumption DEF Later, Base, RowsOK
  <2>2. Later(e) + Cardinality(Early(e)) + Opening(e) <= MaxAttempts + faults
    BY <1>2, <1>6, <1>8 DEF CountInv, ClaimsPaid
  <2>3. /\ Cardinality(Early(e)') <= Cardinality(Early(e))
        /\ Cardinality(Early(e)') \in Nat /\ Cardinality(Early(e)) \in Nat
    BY <1>3, CalmSets, CountedSets, SmallerSet
  <2>4. Opening(e)' \in {0, 1} /\ Opening(e) \in {0, 1}
    BY DEF Opening
  <2>5. CASE e # x
    <3>1. Opening(e)' = Opening(e)
      BY <1>2, <1>5, <2>5 DEF Opening, Open
    <3> QED
      BY <1>1, <2>1, <2>2, <2>3, <2>4, <3>1
  <2>6. CASE e = x /\ final # "pending"
    <3>1. Opening(e)' = 0
      BY <1>2, <2>6 DEF Opening, Open
    <3> QED
      BY <1>1, <2>1, <2>2, <2>3, <2>4, <3>1
  <2>7. CASE e = x /\ final = "pending"
    <3>1. worker[w].attempts < MaxAttempts
      BY <1>0, <1>1, <2>1, <2>7 DEF FinalStatus, Base, WorkersOK, Looping
    <3>2. w \in Early(x) /\ w \notin Early(x)'
      BY <1>0, <1>1, <1>4, <3>1 DEF Early, Trying
    <3>3. Early(x)' \in SUBSET (Early(x) \ {w})
      BY <1>1, <1>3, <3>2, CalmSets
    <3>4. Cardinality(Early(x)') + 1 <= Cardinality(Early(x))
      BY <1>1, <3>2, <3>3, CountedSets, OneLess
    <3> QED
      BY <1>1, <2>1, <2>2, <2>3, <2>4, <2>7, <3>4
  <2> QED
    BY <2>5, <2>6, <2>7
<1> QED
  BY <1>1, <1>3, <1>7, <1>8, RunsKept DEF CountInv, ClaimsPaid

LEMMA CountInit == Init => CountInv
<1> SUFFICES ASSUME Init PROVE CountInv
  OBVIOUS
<1>1. \A e \in Events : /\ Owners(e) = {} /\ status[e] = "none" /\ ~stale[e] /\ attempts[e] = 0
                        /\ \A h \in Handlers : MayRun(e, h) = {} /\ completed[<<e, h>>] = 0
  BY DEF Init, Idle, Owners, MayRun, Pairs
<1> QED
  BY <1>1, FS_EmptySet DEF CountInv, OwnersFinite, StaleIsLocked, Unemitted, RunsCounted, ClaimsPaid

LEMMA CountStep == Base /\ Base' /\ CountInv /\ [Next]_vars => CountInv'
<1> SUFFICES ASSUME Base, Base', CountInv, [Next]_vars PROVE CountInv'
  OBVIOUS
<1>1. CASE UNCHANGED vars
  <2>1. Calm /\ \A e \in Events : Open(e)' <=> Open(e)
    BY <1>1 DEF vars, Calm, Owning, Trying, Willing, Looping, Open, Owners
  <2> QED
    BY <1>1, <2>1, RunsKept, ClaimsKept DEF vars, CountInv, StaleIsLocked
<1>2. CASE Next
  BY <1>2, CountOfPass, CountOfOthers, CountOfEmit, CountOfClaim, CountOfClose DEF Next, PassStep
<1> QED
  BY <1>1, <1>2

(* However long the passes are and however they overlap: an event is claimed *)
(* MAX_ATTEMPTS times at most, and once more for every fault; and a handler  *)
(* completes at most once for each claim.                                    *)
THEOREM RunsBoundedHolds == Spec => []RunsBounded
<1>1. Base /\ CountInv => RunsBounded
  <2> SUFFICES ASSUME Base, CountInv, NEW e \in Events
               PROVE  /\ attempts[e] <= MaxAttempts + faults
                      /\ \A h \in Handlers : completed[<<e, h>>] <= attempts[e]
    BY DEF RunsBounded
  <2>1. attempts[e] \in Nat /\ faults \in Nat /\ MaxAttempts \in Nat
    BY DomainEventsAssumption DEF Base, RowsOK
  <2>2. Cardinality(Early(e)) \in Nat /\ Opening(e) \in Nat
    BY CountedSets DEF Opening
  <2>3. attempts[e] <= MaxAttempts + faults
    <3>1. CASE attempts[e] < MaxAttempts
      BY <2>1, <3>1
    <3>2. CASE attempts[e] >= MaxAttempts /\ status[e] # "none"
      BY <2>1, <2>2, <3>2 DEF CountInv, ClaimsPaid, Later
    <3>3. CASE status[e] = "none"
      BY <2>1, <3>3 DEF CountInv, Unemitted
    <3> QED
      BY <2>1, <3>1, <3>2, <3>3
  <2>4. \A h \in Handlers : completed[<<e, h>>] <= attempts[e]
    <3> SUFFICES ASSUME NEW h \in Handlers PROVE completed[<<e, h>>] <= attempts[e]
      OBVIOUS
    <3>1. completed[<<e, h>>] \in Nat /\ Cardinality(MayRun(e, h)) \in Nat
      BY CountedSets DEF Base, RowsOK, Pairs
    <3> QED
      BY <2>1, <3>1 DEF CountInv, RunsCounted
  <2> QED
    BY <2>3, <2>4
<1>2. Spec => []CountInv
  BY CountInit, CountStep, BaseHolds, PTL DEF Spec
<1> QED
  BY <1>1, <1>2, BaseHolds, PTL
=============================================================================
