--------------------------- MODULE OutboxPromise ---------------------------
(***************************************************************************)
(* What the outbox of src/src/lib/events/index.ts promises to the rest of  *)
(* the system, with no worker, lock or retry in sight: an event is emitted  *)
(* once; its handlers complete one after the other; it is settled once -    *)
(* "done" only when every handler has completed - and then nothing happens  *)
(* to it any more.                                                          *)
(***************************************************************************)
EXTENDS FiniteSets

CONSTANTS Events, Handlers

VARIABLES
    stage,    \* "none", "open", "done" or "failed"
    covered   \* the (event, handler) pairs that have completed

promiseVars == <<stage, covered>>

PromiseInit ==
    /\ stage = [e \in Events |-> "none"]
    /\ covered = {}

Emit(e) ==
    /\ stage[e] = "none"
    /\ stage' = [stage EXCEPT ![e] = "open"]
    /\ UNCHANGED covered

Complete(e, h) ==
    /\ stage[e] = "open"
    /\ covered' = covered \cup {<<e, h>>}
    /\ UNCHANGED stage

Finish(e) ==
    /\ stage[e] = "open"
    /\ {e} \X Handlers \subseteq covered
    /\ stage' = [stage EXCEPT ![e] = "done"]
    /\ UNCHANGED covered

GiveUp(e) ==
    /\ stage[e] = "open"
    /\ stage' = [stage EXCEPT ![e] = "failed"]
    /\ UNCHANGED covered

PromiseNext ==
    \E e \in Events :
        Emit(e) \/ Finish(e) \/ GiveUp(e) \/ \E h \in Handlers : Complete(e, h)

PromiseSpec == PromiseInit /\ [][PromiseNext]_promiseVars
=============================================================================
