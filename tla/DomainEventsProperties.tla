----------------------- MODULE DomainEventsProperties -----------------------
(* What the outbox worker of DomainEvents is meant to guarantee.            *)
EXTENDS DomainEvents

(* An event is marked "done" only after the run of each of its handlers has *)
(* completed (or was taken for completed, the P2002 branch), whichever      *)
(* worker ran it and whatever crashed, overlapped or was retried before:    *)
(* no handler is ever lost (runHandlers, the closing update).               *)
DoneIsCovered ==
    \A e \in Events : status[e] = "done" =>
        \A h \in Handlers : completed[<<e, h>>] > 0 \/ <<e, h>> \in swallowed

(* At most one worker owns an event, and while it does the row is locked    *)
(* for it: "processing", with a fresh lock (the claim's compare-and-set).   *)
ExclusivePass ==
    \A e \in Events :
        /\ \A v, w \in Owners(e) : v = w
        /\ Owners(e) # {} => status[e] = "processing" /\ ~stale[e]

(* The worker gives up on an event only after MAX_ATTEMPTS claims, and only *)
(* when a handler is still not recorded as done: nothing that could be      *)
(* marked done is marked failed.                                            *)
GaveUpLast ==
    \A e \in Events : status[e] = "failed" =>
        attempts[e] >= MaxAttempts /\ \E h \in Handlers : job[<<e, h>>] # "done"

(* A handler's effect happens a second time only because of a fault: while   *)
(* no pass outlives its lock, every completed run beyond the first is paid   *)
(* for by a crash or a database error.                                       *)
RerunsNeedFaults ==
    \A p \in Pairs : completed[p] <= 1 + faults

(* A pass that does outlive its lock can cost more than one run: two passes  *)
(* over one event can go on reopening it for each other and overwriting      *)
(* "done" jobs.  Even so an event is claimed MAX_ATTEMPTS times at most, and *)
(* once more for every fault, and no handler completes twice in one claim    *)
(* (the attempts counter, and the order of the loop in runHandlers).         *)
RunsBounded ==
    \A e \in Events :
        /\ attempts[e] <= MaxAttempts + faults
        /\ \A h \in Handlers : completed[<<e, h>>] <= attempts[e]

(* No handler completes again for an event once its job is recorded done    *)
(* (the set of done jobs read at the start of runHandlers stays valid).     *)
NoRerunOfRecorded ==
    [][\A p \in Pairs : completed'[p] # completed[p] => job[p] # "done"]_vars

(* A settled event is never opened again: no late worker writes its status. *)
SettledIsFinal ==
    [][\A e \in Events : status[e] \in {"done", "failed"} => status'[e] = status[e]]_vars

(* Every emitted event is settled in the end, for good: crashes and stolen  *)
(* locks never strand it in "processing" or "pending".                      *)
EventuallySettled ==
    \A e \in Events :
        status[e] # "none" ~> [](status[e] \in {"done", "failed"})

-----------------------------------------------------------------------------
(* The outbox promise, seen in the rows and the completed runs.             *)
Promise == INSTANCE OutboxPromise WITH
    stage <- [e \in Events |-> IF status[e] \in {"pending", "processing"}
                                THEN "open" ELSE status[e]],
    covered <- {p \in Pairs : completed[p] > 0} \cup swallowed

(* While no pass outlives its lock the worker implements the promise.       *)
KeepsPromise == Promise!PromiseSpec
=============================================================================
