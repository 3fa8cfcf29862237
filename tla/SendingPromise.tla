-------------------------- MODULE SendingPromise --------------------------
(***************************************************************************)
(* What a campaign promises about one contact after another, with no       *)
(* worker, batch, message row or retry key in sight.  A contact waits, is   *)
(* taken in hand, and is delivered to only while it is in hand and only if  *)
(* every earlier delivery was followed by a manager's word that nothing     *)
(* had been delivered.  Sent and skipped are for ever; failed and unknown   *)
(* are left by a manager's retry, unknown by that word alone.               *)
(***************************************************************************)
EXTENDS Naturals

CONSTANT Recipients

VARIABLES
    stage,      \* "waiting", "inhand", "sent", "skipped", "failed" or "unknown"
    received,   \* how often the contact was delivered to
    word,       \* how often a manager said that it was not
    excused     \* the contacts whose message was withdrawn in time

promiseVars == <<stage, received, word, excused>>

PromiseInit ==
    /\ stage \in [Recipients -> {"waiting", "skipped"}]
    /\ received = [r \in Recipients |-> 0]
    /\ word = [r \in Recipients |-> 0]
    /\ excused = {}

\* Whatever was received is answered for.
Clear(r) == received[r] <= word[r]

Becomes(r, to) == stage' = [stage EXCEPT ![r] = to]

Take(r) ==
    /\ stage[r] = "waiting" /\ Clear(r)
    /\ Becomes(r, "inhand")
    /\ UNCHANGED <<received, word, excused>>

Deliver(r) ==
    /\ stage[r] = "inhand" /\ Clear(r)
    /\ received' = [received EXCEPT ![r] = @ + 1]
    /\ UNCHANGED <<stage, word, excused>>

\* Back in the queue, or given up: only if nothing is unanswered for.
PutBack(r) ==
    /\ stage[r] = "inhand" /\ Clear(r)
    /\ \E to \in {"waiting", "skipped", "failed"} : Becomes(r, to)
    /\ UNCHANGED <<received, word, excused>>

CountAsSent(r) ==
    /\ stage[r] = "inhand"
    /\ received[r] > 0 \/ r \in excused
    /\ Becomes(r, "sent")
    /\ UNCHANGED <<received, word, excused>>

LoseTrack(r) ==
    /\ stage[r] = "inhand"
    /\ Becomes(r, "unknown")
    /\ UNCHANGED <<received, word, excused>>

\* A cancel or a removal request: those that wait are skipped, nobody else,
\* and messages on their way are withdrawn.
Withdraw(waiting, withdrawn) ==
    /\ \A r \in waiting : stage[r] = "waiting" /\ Clear(r)
    /\ stage' = [r \in Recipients |-> IF r \in waiting THEN "skipped" ELSE stage[r]]
    /\ excused' = excused \cup withdrawn
    /\ UNCHANGED <<received, word>>

\* The provider answers for a withdrawn message after all.
AnswerAfterAll(r) ==
    /\ stage[r] = "inhand"
    /\ excused' = excused \ {r}
    /\ UNCHANGED <<stage, received, word>>

GiveWord(r) ==
    /\ stage[r] = "unknown"
    /\ word' = [word EXCEPT ![r] = @ + 1]
    /\ UNCHANGED <<stage, received, excused>>

Retry(r) ==
    /\ stage[r] \in {"failed", "unknown"} /\ Clear(r)
    /\ Becomes(r, "waiting")
    /\ UNCHANGED <<received, word, excused>>

PromiseNext ==
    \/ \E r \in Recipients :
          \/ Take(r) \/ Deliver(r) \/ PutBack(r) \/ CountAsSent(r) \/ LoseTrack(r)
          \/ AnswerAfterAll(r) \/ GiveWord(r) \/ Retry(r)
    \/ \E waiting, withdrawn \in SUBSET Recipients : Withdraw(waiting, withdrawn)

PromiseSpec == PromiseInit /\ [][PromiseNext]_promiseVars
=============================================================================
