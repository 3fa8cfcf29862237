# Verification of UltraCRM's background work, dialer, sending and payments

TLA+ models of the parts of UltraCRM where several processes race for the same
rows or for a customer's attention, checked with TLC and, for the properties
that matter most, proved with TLAPS for every value of the constants. Paths are
relative to the repository (`src/` below is `src/src/` of `PROJECT.json`).

## 1. The system

UltraCRM is a multi-tenant CRM on Next.js, Prisma and Postgres: contacts and
leads, marketing campaigns over WhatsApp, SMS and email, automations, and a
dialer for call-center agents. There is no queue server and no long-lived
process. Everything runs in HTTP requests: an agent's browser that polls,
provider webhooks, and cron requests every minute. Several copies of each may
run at once, each may be cut off at any statement (a serverless time limit), and
they meet in the database only, mostly in READ COMMITTED statements outside a
transaction. So correctness rests on compare-and-set updates, unique keys and a
few row locks, and that is what the models are about.

| Component | Code | State | Operations | Interacts with | What is hard |
|---|---|---|---|---|---|
| Domain event outbox | `lib/events/index.ts` | `domain_events`, `automation_jobs` | emit, batch read, claim, run handlers, record, close | every service emits; handlers write the CRM | overlapping workers, crashes between effect and record, locks that time out under a live worker |
| Dial queue | `lib/dialer/queue.ts`, parts of `calls.ts`, `session.ts`, `list-admin.ts` | `list_leads`, `calls`, `dnc_entries` | claim, release, dial, save outcome, transfer, remove, requeue, block | calls (end, refund, wrap-up), sessions, lists | snapshots that are old when a row is locked, writes by id of what was read before, outcomes that come late |
| Call lifecycle | `lib/telephony/events.ts`, `attempts.ts`, `dialer/calls.ts` | `calls`, `call_attempts`, `telephony_events` | dial agent, dial customer, apply webhook, hang up, reconcile, finalize, settle | provider by HTTP and webhooks; dial queue | webhooks late, repeated, reordered, lost; requests whose answer is lost; death of any handler |
| Campaign runner and send | `jobs/campaign-runner.ts`, `server/services/{message,channel-send,campaign}-service.ts` | `campaigns`, `campaign_recipients`, `messages`, `contacts.lastMarketingAt` | scan, claim, send, settle, pause, cancel, retry, remove contact | provider by HTTP; suppression; managers | a provider that does not answer, workers that overlap or die, a cancel while a send is in flight |
| Provider routing and breaker | `lib/telephony/{routing,breaker}.ts` | `telephony_provider_health` | choose a provider, record a request's result | `startCall` before the call, `attempts.ts` after each leg's request | answers of requests sent before the breaker opened, probe slots that nobody reports on, flapping |
| Dialer sessions and presence | `lib/dialer/session.ts`, parts of `calls.ts`, `inbound.ts`, the logout | `dialer_sessions`, `users.presence` | start, take over, pause, resume, end, heartbeat, reap | calls and inbound calls write presence; deleting a list ends sessions | the agent's own requests hold a lock, the reaper, logout and list deletion do not |
| List administration | `lib/dialer/list-admin.ts` | `list_leads`, `dial_lists` | activate, move and merge rows, delete a list | agents who dial the rows | READ COMMITTED transactions that read without locks and write by id |
| Sequences | `server/services/sequence-service.ts`, `channel-send-service.ts` | `sequence_runs`, `messages` | start, claim, step, close, stop, retry | outbox (start), providers, suppression | workers killed at any step, runs stopped or retried under a worker |
| Delivery webhooks | `server/services/{delivery-status,message-status}-service.ts` | `messages.status`, receipts | ingest, apply | the send that created the message, suppression | reports late, repeated, in any order, before the send's own answer |
| Payments | `server/services/payment-service.ts` | `payment_requests`, `payment_events` | reserve, create page, cancel, notify, poll | payment provider by HTTP and webhooks | answers that are old when applied, a page that is paid after a cancel |
| Number purchase | `lib/numbers/service.ts` | `number_orders` | quote, confirm, reconcile | number provider by HTTP | a charge whose answer is lost, second clicks, requests that die |
| Billing and budget, CRM synchronization, automations | `server/billing`, `server/crm-sync`, `jobs/automation-runner.ts` | reservations, write-back queue, runs | reserve, settle; push, look up; step | providers, campaign and sequences | not modelled, see 8 |
| Everything else | CRM core, AI, reports, tenancy, routes, UI | | | | rows read and written in one request; listed with reasons in `PROJECT.json` |

What makes each modelled component correct:

* Outbox: an event is closed as done only when every handler has completed, no
  handler whose completion is recorded runs again, every event is settled.
* Dial queue: one row per agent, one call per agent and person, a call's outcome
  does not land on another agent's work (it can, in one way: see 7), no row is lost
  in `in_call`, counters count calls, blocked people are not called.
* Call: its state only moves forward, the agent is there before the customer's
  phone rings, an attempt the customer noticed is not given back as technical,
  and a call whose webhooks are lost still ends.
* Campaign: no request is handed over twice, nobody receives the message again
  unless a manager says the first did not arrive, the rows tell the truth about
  who received it, a running campaign ends.

* Routing: a provider that has just failed is left alone for its cooldown, and
  none is left alone for ever.
* Sessions: an agent has one live session, whoever ends sessions without the lock.
* Lists: a move or merge never loses a contact.
* Sequences: a step's message is posted once, no run stays stuck, and an opt-out
  stops what is in flight (it does not always: see 7).
* Delivery: a message's status depends on what was reported, not on the order.
* Payments: a request counts as paid when, and only when, the customer has paid.
* Numbers: a number is charged for once.

The hazards in `PROJECT.json` name the line where each of these could go wrong.

## 2. Plan

Built in this order, because the next one leans on it:

1. `DomainEvents` implementing `OutboxPromise`: the mechanism every service uses.
2. `DialQueue` implementing `RowCustody`: agents, rows, calls, managers.
3. `CallLifecycle` implementing `CallPromise`: the inside of one call, which
   `DialQueue` takes as three steps (`startCall`, `CallEnds`, `RefundCall` or
   `StartWrapUp`).
4. `CampaignRunner` implementing `SendingPromise`.
5. Around the dialer: `ProviderRouting`, `DialerSession`, `ListAdmin`.
6. Around sending: `SequenceRuns`, `DeliveryStatus`.
7. Money: `Payments`, `NumberOrders`.

The modules of 5 to 7 share no state with each other; `MCServices` checks them
together in one run (see 4). Every safety property that a run checks is proved
for all values of the constants, and so are the four refinements. What a next
extension should take up: the budget's reservations and the CRM write-back queue
(section 8 says what is suspicious in them), the pace of campaigns, the bridge of
inbound calls, and promises like the four for the smaller modules, payments and
numbers first.

## 3. How to read and run

For the four large components `X`: `X.tla` has constants, variables, one action per step of
the code between two database or provider round trips, `Next`, `Spec` and
`FairSpec`; `XProperties.tla` states what it guarantees; `MCX.tla` and its
`.cfg` files give TLC small instances; `XProofs.tla` has the theorems. The seven
smaller modules hold their properties at their end, are instantiated in
`MCServices`, and are proved about in `DialerServicesProofs` (routing, sessions,
lists), `MarketingProofs` (sequences, delivery) and `MoneyProofs` (payments,
numbers); `ServicesProofs` carries the results over to their composition. Names of
actions are the names of the functions where an action is a whole function.
Operators that no action uses (`DueUnlessLocked`, `NoAnswerDropsRow`, ...) are
deliberately wrong variants, kept beside the definition they replace to show
that a property notices the bug.

    tlc -workers 2 -config MCDialQueue.cfg MCDialQueue
    tlapm DialQueueProofs.tla

## 4. The models

### DomainEvents

`processDomainEvents` is the worker's loop: `Pick` (the batch query), `Claim`
(`updateMany` on id and the status that was read), then `runHandlers`:
`ReadEvent`, `ReadJobs` (the done jobs, once), per handler `RunHandler` and
`RecordDone` or `RecordFailed`, at last `CloseEvent` by id. `Return` ends the
run, `Crash` may come anywhere, `emitEvent` inserts. Time is two flags per
event: `due` (its backoff is over) and `stale` (its lock is older than
`LOCK_TTL_MS`). With `LongPasses` a lock may go stale under a worker that is
still running. A handler is reduced to how it ends: it completes, throws, or
meets a unique violation (P2002), which the code takes for "already done".

`OutboxPromise` is what the rest of the system may count on: an event is
emitted once, its handlers complete one by one, and it is settled once, "done"
only when all have completed. The mapping takes pending and processing to
"open" and the history of completed runs to `covered`.

With `LongPasses` much of this goes, and what remains is stated by itself:
`DoneIsCovered`, and `RunsBounded` for how often a handler's effect can happen. Two
passes over one event may then go on overwriting each other's "done" jobs and
reopening the event, so one fault does not pay for every extra run (with five
attempts `RerunsNeedFaults` is false); the attempts counter still ends it.

### DialQueue

`claimNextLead` selects a candidate on the statement's snapshot; `LockCandidate`
locks the row and looks at the row's own conditions again (that is what
Postgres re-evaluates), not at those on other tables or on the person's other rows.
Nothing waits for a claim between the two: a whole call may fit in, a transfer, a
requeue, a block with all its statements. `startCall` and
`dialManually` run under `lockAgent` and the contact's lock. `CallEnds` and the
two ends of `afterCallFinalized` (`RefundCall`, `StartWrapUp`) follow later or
never. `saveOutcome` documents the call and sweeps the person's other rows.
`releaseLead`, `LockExpires`, `heartbeat` are the lock's life. A transfer is two
steps, `TransferRead` and `TransferWrite`, because the code writes by id what it
has read; blocking is two steps (`addToDnc`, `PullRows`) because the route uses
two statements. `removeRow`, `requeueRow`, `setListActive`, `removeFromDnc` are
single statements. The statuses pending and callback are one, "queued"; filters
on data (hours, retry times, preferred agent, caps) may refuse any row.

Three variables are history: no action reads them except to keep them, and the
properties name their exceptions with them. `overwritten` is the rows that a
transfer has taken out of a call, or out of a closed status, that it had not read.
`outrun` is the agents whose claim in flight is of a row that has since been dialed,
or has been closed and reopened (requeued by a manager, or by a callback);
`overtaken` is the rows whose last claim was outrun. A claim is one statement of
some milliseconds, so being outrun is rare, but nothing in the code excludes it and
nothing is assumed about how long a claim takes.

`RowCustody` is the promise, and it has none of these variables: a row is kept by
one agent and an agent keeps one row; an agent talks to one person and a person
with one agent; who dialed a row owes its documentation, and from then until it is
given no agent can ask for the row. Who had asked for it before may still get it,
but never from an agent who still keeps it and talks on it.

### CallLifecycle

The provider has legs; `Emit` makes webhooks that stay deliverable for ever, so
that they may arrive late, again, in any order, or never. `Heard` limits which
kinds arrive at all. A webhook handler applies an event in one transaction on
the call's row (`AgentInitiated` ... `LeadHangsUp`, `LateEvent` once the call is
over); the handler of the agent's answer goes on outside it: `ReadDialGuard`,
`DialRefused`, `ConferenceTimesOut`, `DialLead`, then the response
(`LeadDialed`, `LeadDialTimesOut`, `LeadDialFails`). The agent's own request has
the same three ends. The state poll's `reconcileCall` is `FindPending`, `Adopt`,
`GiveUp`, `AgentNeverAnswered`, `HangupConfirmed`, `LeadLegGone`, followed by
`finalizeLocally`, which checks `endedAt` and then writes without a condition.
`afterCallFinalized` decides on the technical failure, `settleAttempt` is the
manager's. `HandlerDies`, `StarterDies`, `PollDies` may come anywhere. Time is
left out: a timeout has run out or not.

`CallPromise` is the call as the people on it and the dial queue see it: the agent
picks up, then the customer's phone rings, then the row may say so ("rang" is what
the row notes: a ring reported after the end does not stop a refund); the call ends
once and nothing is noted after that; it is given back as a technical failure only
after its end and only if nothing was noted. The mapping reads the first two off
what the provider has done (`emitted`, `leg`) and the rest off the call's row, so it says
that the row neither runs ahead of the world nor is rewritten after the end.

Inbound calls, Zadarma's callback calls, the simulation, supervisors' legs and
recordings are not in the model.

### CampaignRunner

`Scan` reads the batch with each recipient's attempts, `Claim` is the
compare-and-set on the recipient's status and the campaign's, `ReadCampaign` and
`Pause` the checks after it. The send is `Lookup` (the request key's message, if
an earlier run wrote one; policy; the marketing window), `CreateMessage` (the
unique key), `LinkMessage`, `Refused` or `Unavailable` (nothing was handed over)
or `HandOver`, then `Answered` or `NoAnswer`; `WriteRecipient` writes the outcome
by id. Every step may throw (`Throws`: the outcome is unknown) and the worker may
die before it (`WorkerDies`). `MarkStuck` is the takeover after ten minutes;
`LongRuns` allows it while the worker still lives. WhatsApp and the other
channels differ in what is kept when a send is refused, and both are in the
model. The manager pauses, resumes, cancels, and retries: `ReadRetry` and
`WriteRetry` are two steps, as in the code, and a retry of an uncertain attempt
counts as the manager's word (`attested`) that nothing was delivered.

Assumed: the provider's rejections are true. (`channel-send-service.ts:166`
takes a gateway error for "not delivered"; if the provider had delivered it, a
retry would deliver again, and no local bookkeeping could tell.) Left out: pace,
Meta's daily limit, the budget per minute and the send window, which only delay
a claim; preflight, which may refuse a start at any time.

`SendingPromise` has contacts, deliveries and a manager's word, but no workers,
batches, message rows or request keys: a contact waits, is taken in hand, and is
delivered to only while it is in hand and only when all earlier deliveries have
been answered by a manager's word; sent and skipped are final; doubt ends by that
word alone. The contacts whose message was withdrawn (`excused`) are in it because
the code counts them as sent without a delivery (see 7).

### ProviderRouting

One row per provider, `health`, and requests (`Dials`) that choose a provider,
perhaps take a probe slot, and report one result per leg, or are dropped.
`Advance`, `Acquired`, `onFailure` and `onSuccess` are `breaker.ts`; `ChoosePrimary`
and `ChooseBackup` are the transaction of `chooseProviderForNewCall`, `Report` that
of `recordProviderResult`. Policy and eligibility are read before the lock, so any
of them may be seen. Dates are the time since them, capped where comparisons no
longer differ (`NoWindow`, `LongAgo`, `Lowest`); `RoutingTick` is a second passing.
`trips` is kept as the factor it stands for. `DefaultCooldown` is there because
`routing.ts` advances with the default configuration when a failure does not count;
the cooldown a business has set may be shorter or longer than it.

### DialerSession

One agent with several tabs. The agent's requests are serialized by `lockAgent`:
`BeginChange` has read a session under the lock and `CommitChange` writes it, by
id; `Unlocked` is what other holders of the `users` row wait for. The reaper is
four steps (`SweepLists`, `SweepLooks`, `SweepEnds`, `SweepOffline`), a logout
the last three of them for all sessions, `EndedElsewhere` any other place that
ends a session. Calls are reduced to "live" and "undocumented"; an inbound call
is `PickAgent`, `CreateInbound`, `InboundInCall`. Presence is there because it
decides who gets an inbound call, and with it whether the reaper finds a live
call and lets the session be; no property is about presence itself, which does
go astray (see 7).

### ListAdmin

The rows of one contact, at most one per list, and managers' requests that move
them: `ListRow` (before the transaction), `ReadRow`, `LookInTarget`, then `MoveRow`
or `UpdateTarget` and `DeleteSource`. Reads take no lock; an updated row is locked
until the commit (`Held`); an update or delete of a row that is gone fails and
rolls back (`RowFound`). Deletion of a list is its check and its transaction.
Agents' work is any sequence of reserving, dialing, documenting and blocking;
`DialQueue` says in which way it may happen.

### SequenceRuns

One run of a journey. A cron worker lists the run (`ListDue`, with the give-back
of stranded runs), claims it by its status, and works on the step it has listed:
`CheckStep` (whatever stops the run; suppression before a send), `DecideStep`
(gates wait, stop or pass, other steps may be skipped), `Act`, or the send
(`LookUpNote` ... `NoteAnswered`, the branches of `sendChannelMessage`), and closes it
by id (`CloseStep`). Workers run for less than a minute and runs are given back
after ten, so `GiveBack` waits until no worker is busy with the run; a worker may
still be holding it in an old list. Everything may throw (`StepThrows`) or be
killed (`SeqKilled`).

### DeliveryStatus

One message, SMS or email (`IngestEvent`: receipt and effect in one transaction on
a locked row) or WhatsApp (`FindMessage`, `SetStatus`, `AnnounceFailure`: three
statements), with the send's answer, its time-out and a cancel. A provider may
report anything at any time and again; a report that comes before
`providerMessageId` is stored finds no message.

### Payments

Requests for the same item with different idempotency keys. The page at the
provider is a state of its own; `fetchStatus` reads it when the provider is asked,
and the answer is applied later (`ApplyNotice`, `ApplyPoll`), by several readers.
A customer may pay a page that was declined before or that has been cancelled.

### NumberOrders

One order, any number of the owner's requests, each at its own statement.
`Purchase` sends the POST; whether the provider charges or refuses, and when,
is the provider's (`ProviderCharges`, `ProviderRefuses`), independent of whether
the request learns of it (`RecordPurchase`, `RecordDoubt`) or dies.

### MCServices

These seven share no variable, and their code shares no state at the grain of the
models, so interleaving them would only multiply states. `scenario`, chosen in the
initial state, says which of them moves; the others rest in their initial states.
Every property of a component then speaks of the behaviours of its scenario and
holds trivially of the initial state in the others. `ServicesProofs` shows that the
composition implements each component's own specification.

## 5. The runs

| Run | Instance | What it shows |
|---|---|---|
| `events` | 2 workers, 1 event, 2 handlers, 2 attempts, 2 faults, locks outlive passes | `ExclusivePass`, `GaveUpLast`, `RerunsNeedFaults`, `NoRerunOfRecorded`, and the refinement `KeepsPromise` |
| `events_live` | the same with passes that outlive their lock, 3 attempts, 1 fault | `DoneIsCovered` and `RunsBounded` survive; `EventuallySettled` under `FairSpec` |
| `dial_queue` | 2 agents, 1 person in 2 lists, 2 calls, 1 transfer (stale or not), 1 other manager command, claims that last any time | `OutcomeFindsNoStranger`, `InCallHasItsCall`, `AttemptsAreCalls`, `LiveCallKeepsRow`, `BlockedIsNotWorked`, and the refinement `KeepsCustody` (of which `OneRowPerAgent` is a part) |
| `call` | 2 webhook handlers, 1 customer leg, all webhooks | `StateOnlyForward`, `CreatedIsProven`, and the refinement `KeepsCallPromise` (of which `CustomerAfterAgent` and `TechnicalNeverRang` are parts) |
| `call_live` | 1 handler, `call.initiated` lost | `HangupEnds`, `PendingResolves` |
| `call_redial` | 1 handler, 2 customer legs | finding: the customer is dialed twice |
| `call_proof` | 1 handler, 1 customer leg | finding: an answered call is closed as unconfirmed |
| `campaign` | 2 workers, 1 recipient, attempts 0 to 2, 2 of them automatic | `KeyHandedOnce`, `NoBlindResend`, `RecipientIsVerdict`, `CompletedIsQuiet`, `AcceptedIsFinal` |
| `campaign_live` | 1 worker that dies as often as it likes | `CampaignEnds`, and the refinement `KeepsSendingPromise` |
| `services` | 2 dials on 2 providers; 2 workers on a journey send, gate, task; 2 webhook requests; 2 payment keys and 2 readers; 2 tabs; 2 rows, 2 lists, 2 movers; 3 requests for a number | `Quarantine`, `AlwaysTriedAgain`; `StepPostedOnce`, `NoRunStuck`; `StatusIsVerdict`; `PaymentIsTruth`; `OneLiveSession`; `CrossingMovesKeepOne`; `ChargedOnce` |
| `list_lost` | the lists of `services` | finding: a contact is lost by two moves |
| `seq_stop` | the journey of `services` | finding: a stopped sequence goes on |

Each component has a type invariant in its first run.

**Bounds.** Every hazard is between two actors at one shared row, so two of each
actor are enough to show it, and the proofs of section 6 lift every safety
property to any number. One event, or one recipient, suffices because claims,
jobs and keys are per row; what relates recipients is the campaign's status, and
`CompletedIsQuiet`, the property about it, is proved for any number of them. Two
attempts give a first try, a retry and giving up, and the third in `events_live`
lets a second overlong pass reopen what a first has closed. The refinement of a
campaign is checked on the one-worker instance, to keep the run short; that a
stale worker's late write keeps the promise too is shown by the proof alone. Two
handlers give "one of several fails". Two lists with one person are what the
sweeps and the person's exclusion need; two calls let the next dial start before
the last is documented, and one agent dial the row another has just dialed.
`MaxCommands` bounds transfers and the other manager commands, each by itself:
one transfer is what it takes to write over a row, one other command to remove,
requeue or block one meanwhile; the proofs are for any number. `MaxFaults`
bounds crashes in the outbox (they are unbounded elsewhere), `MaxAttempts` the
attempts followed, `LeadLegs` the legs the provider can create. In `services`
the breaker's thresholds are the least with every branch: two failures open it,
the business's cooldown is two seconds, the default one, both double once
(`MaxFactor = 2`), two probes close it, and failures, probes and late answers of
two overlapping dials (each reports for two legs) reach all of them; the proof
of `Quarantine` is for any thresholds and any two cooldowns. The journey has one
step of each kind, because a send, a gate and an act differ in what stops them.
Three requests for a number are a purchase, a second click and a reconciliation
that overlap. Symmetry is used in safety runs only, over agents, workers, calls
and legs, and in `dial_queue` over the two rows, exchanged together with their
lists.

**Deadlock** is not checked (`CHECK_DEADLOCK FALSE`): an event that is settled, a
documented call, a finished campaign or an order that is ready has nothing left to do.

**Fairness.** Outbox: cron starts workers again and again, so a worker that can
go on does (weak), backoffs and locks run out (weak), and an event that is due
again and again is read and claimed at some time (strong: `processBusinesses`
rotates over businesses, least recently scanned first). Calls: the browser polls
every few seconds and not every poll dies at the same statement (strong, for
the steps of `reconcileCall`), and people hang up in the end (weak, `LegEnds`);
nothing is assumed of webhooks. Campaign: cron again, strong for `Claim` and
`Finish` because a worker may die in between again and again, weak for the rest;
nothing is assumed of the provider or of managers. Routing: time passes (weak,
`RoutingTick`), nothing else. Sequences: some cron worker takes its next step (weak,
over all of them); killed workers may be killed again and again, and a run left
RUNNING still comes back because giving it back is the first thing the next worker
does. Crashes never have fairness.

## 6. What is proved

No proof depends on a bound on agents, rows, workers, recipients, events or
legs; the only assumptions are the named `ASSUME`s of the models, which TLC
evaluates on its instances.

* **Outbox** (`DomainEventsProofs`, most of it assuming `~LongPasses`). The inductive
  invariant: an owner has the row to itself with a fresh lock; the attempts it
  read are the row's; nothing on its todo list, nor the handler it has just run,
  is recorded done; done jobs have completed; completed runs are paid for by
  faults. From it all safety properties, and step by step the refinement
  `Spec => KeepsPromise`. Without the second and third part a pass could close
  an event over a failed handler, or run a recorded one. That passes end
  before their lock does is needed for exclusion. Three results do without: the
  types, `DoneIsCovered` (a part of the invariant, `Base`, that overlapping passes
  cannot break, because a pass closes an event as done only over handlers it has
  found done or run itself), and `RunsBounded`, by `CountInv`: completed runs of a
  handler, and owners that may still run it, are no more than the event's claims; and
  the claims, the owners that read few enough attempts to reopen the event, and one
  more if it is open, are no more than `MAX_ATTEMPTS` and the faults together.
* **Dial queue** (`DialQueueProofs`, for claims and transfers of any length).
  `CoreInv`: a row has a holder exactly when it is locked or in a call; one row per
  agent; an agent whose claim is in flight holds nothing, and if somebody owes an
  outcome for the row it is about to lock, it is another agent and the claim has been
  outrun (`ClaimsAlone`); undocumented calls are well formed, one per agent, and one
  per row unless the row is overtaken; who talks on a row he still has, has it in a
  call; and the two properties about calls and rows. The claim in flight is the
  point: between its steps a row's calls may change as they like, and the invariant
  says what its second step may then find. Most actions make some rows leave and
  document some calls, and one lemma (`LeavingKeeps`) covers these. `Spec =>
  KeepsCustody` follows from it without any exception: the first step of a claim is
  `Ask`, which the snapshot allows only on a row with no outcome owed, and the second
  is `Take`, for which `TalkerIsInCall` says that the agent it is taken from does not
  talk on it. `LiveCallKeepsRow` is inductive together with `CoreInv`.
  `BlockedIsNotWorked` needs `BlockedCandidates`: a blocked person's row that a claim
  in flight, not outrun, has chosen is not on offer any more, unless it is
  overwritten. `AttemptsAreCalls` needs a counting argument, on finite sets.
* **Call** (`CallLifecycleProofs`). `CoreInv` is about evidence: events and
  responses name legs that exist, a handler that dials has the agent's answer to
  show, flags do not change once a technical failure is written. From it
  `CustomerAfterAgent`, `CreatedIsProven`, `TechnicalNeverRang`; with the types,
  `StateOnlyForward`. `Spec => KeepsCallPromise` takes one step more: that the legs
  the provider has made and the agent's answer stay (events are never taken back),
  and that a row notes a ring or an answer only on an event of a customer's leg.
* **Campaign** (`CampaignRunnerProofs`, `LongRuns` included). `KeyInv` is
  ownership of request keys: whoever wrote the key's message and has not yet
  written its outcome owns it; one owner at most; the row is there, queued or
  cancelled, while owned; a key without a row was never handed over. From it
  `KeyHandedOnce` and `AcceptedIsFinal`; `CompletedIsQuiet` is inductive with
  the types alone. The rest assumes `~LongRuns`: a run ends (its deadline is 45
  seconds) before its recipients count as stuck (ten minutes); otherwise the
  takeover could put a recipient in a second worker's hands while the first still
  sends. `HoldInv`: a recipient is in one worker's hands at most and PROCESSING
  there, and one that a manager is about to queue again is FAILED or UNKNOWN, so no
  claim can be overtaken. `VerdictInv` follows deliveries through all attempts of a
  recipient: call it accounted for when there are no more deliveries than words of a
  manager. Every row that may be claimed or retried, every pending retry, and every
  worker that may still hand over or has concluded that nothing was delivered, is
  about a recipient accounted for; doubt (`UNKNOWN`) is the only other state, and
  only a word leaves it. With it a delivery adds one to an accounted number, which
  is `NoBlindResend`; and `RecipientIsVerdict` follows with "whoever counts as sent
  has a delivery or a withdrawn message" (`SentIsVouched`). On the same three
  invariants `Spec => KeepsSendingPromise`, one lemma per kind of step: a hand-over
  is a delivery or, if lost, a stutter; the write of an outcome is `PutBack`,
  `CountAsSent` or `LoseTrack` depending on what the worker has concluded.

* **Routing, sessions, lists** (`DialerServicesProofs`). `QuarantineHolds`: while the
  time since a breaker opened is less than a cooldown, the row is open and its
  probe is still due in at least the rest of that cooldown; an open row hears no
  result, so only time moves it. `OneLiveSessionHolds`: while the agent's transaction
  is between read and write nobody can start a session, and every session it does
  not name is ended, which no unlocked writer can undo. `CrossingMovesKeepOneHolds`:
  rows of the contact are in different lists, and a merge in progress has its
  target locked and existing; a mover can delete its source only when nobody holds
  it, so the last row is never the one deleted, except by itself.
* **Sequences and delivery** (`MarketingProofs`). `StepPostedOnceHolds`: whoever is
  past the unique `requestKey` with a step's message is alone with it and nothing
  was posted for the step yet. `StatusIsVerdictHolds`: the status is the verdict of
  `seen` (the furthest good report, or a failure), by cases over ranks, for both
  ways of applying reports.
* **Money** (`MoneyProofs`). `ChargedOnceHolds`: one request at most is between claim
  and POST, and then nothing is submitted or bought and the order is `submitting`
  (or in doubt); whoever has found the order has seen the charge.
  `PaymentIsTruthHolds`: answers "succeeded" are held only for approved pages, a
  notification of an approval is answered "succeeded" because an approved page
  stays so, and nothing is ever written over `succeeded`.

* **Composition** (`ServicesProofs`). Every behaviour of `ServicesSpec` is one of each
  component's specification, since in every step a component moves by its own
  next-state relation or rests; so the theorems above hold of it, and
  `ServicesTypeOK` is the conjunction of the components' type invariants.

Model-checked only: the liveness properties (`EventuallySettled`, `HangupEnds`,
`PendingResolves`, `CampaignEnds`, `AlwaysTriedAgain`, `NoRunStuck`), because
fairness and ENABLED are beyond the prover.

## 7. Where code and documents disagree

Each is a run that ends in a counterexample; `PROJECT.json` quotes the lines.

* `call_redial`: a handler that dies between the dial and its response dials
  again when its event is reapplied.
* `call_proof`: a webhook is said to prove that the leg exists, yet it leaves
  `dialPendingSince`, and a provider that cannot be asked then makes the poll
  close a call the customer has answered.

* `list_lost`: a manager clicks "move" twice, or two managers move the same rows
  from A to B. The second request re-reads the row in A, the first moves it and
  commits, and the second, looking for the contact in B, finds the row it is about
  to move. It merges the row into itself and deletes it: the contact is in no list.
  Locking the row when it is re-read would prevent it, and so would comparing ids.
  `CrossingMovesKeepOne` shows that this is the only way for moves to lose somebody.
* `seq_stop`: a contact opts out while a worker is on a step. The run is set to
  STOPPED, and closing the step writes PENDING over it. Sends stay blocked, but the
  tasks, tags, list changes and webhooks of the journey go on.

Behaviours the comments deny in words that are too strong, without a run of their own:

* A handler of the outbox can run twice: a crash between its effects and its job
  row (`events/index.ts:164`) is retried. The schema says it "never runs twice for
  the same event". What holds while no pass outlives its lock is `RerunsNeedFaults`,
  one extra run per fault, and `NoRerunOfRecorded`; after an overlong pass a handler
  may run once for every claim of its event (`RunsBounded`), and no more.
* The dial queue "never hands the same lead to two agents" (`queue.ts:163`). The
  claim's UPDATE looks at the row's calls on its snapshot only. B's statement has
  chosen a pending row and not locked it; A claims the row; a manager's transfer
  reads it, locked; A dials; the transfer writes pending and clears the lock
  (`queue.ts:438`); B's statement locks the row and finds its own columns in order,
  while A is still talking. A's outcome is later written by id onto B's row. It is rare: the
  statement of B must last as long as it takes A to claim and dial. Were it to last
  into A's wrap-up, a requeue or the end of A's lock would do instead of the
  transfer. `OutcomeFindsNoStranger` shows that a claim outrun by a dial is the only
  way; a transfer that writes only over the status it has read would keep it from
  happening during the call.
* Two agents can hold two rows of one person: two claims at the same time evaluate
  `queue.ts:97` on their own snapshots. The second dial is refused by the
  contact's lock, as `KeepsCustody` shows.
* "Steps are idempotent" (`sequence-service.ts:228`) is true of sends, tasks and
  tags, but a webhook step is posted again when a run is given back; the receiver
  has the idempotency key to tell.
* "Never lose DNC" (`list-admin.ts:79`): a merge keeps the target's state when that
  row is reserved or in a call, so a source row's DNC mark is dropped. Dialing still
  checks the business's DNC entries.

Further behaviours seen in the models that no document denies:

* The reaper of stale sessions looks for a live call, ends the session and sets
  the agent offline in three statements without the agent's lock. A call that
  starts after the look goes on without a session; a new session that starts before
  the last statement is live with the agent offline, so no inbound call is routed
  to the agent until presence is written again. A resume that has read a session
  before it was reaped makes it live again.
* An outcome saved before `afterCallFinalized` has run leaves the presence
  `in_call`, as does an inbound call that ends before `inbound.ts:102`.
* A row's call can start after a move or a deletion has looked for calls: the row
  is moved, or goes away, under the call.
* A delivery report that arrives before `providerMessageId` is stored is receipted
  as unknown and lost; a WhatsApp handler that dies after the status is written
  never emits the failure event.
* A payment request whose creator dies after reserving stays `created` without a
  link and is returned for every later request for the item until somebody cancels
  it; a request that was declined is not polled any more, so only the notification
  tells of a later approval of the same page.
* A process that dies after claiming a number's order and before the POST leaves
  it `submitting`: no evidence is found, so the number cannot be bought.
* A transfer that writes a status it has not read can take the row from a live
  call or return a blocked person to the queue; `LiveCallKeepsRow` and
  `BlockedIsNotWorked` except such rows (`overwritten`). That alone does not bring the
  outcome to a stranger, because `queueFilter` refuses a row with a call to document;
  with a claim that had chosen the row before it does (above). Both also except
  `overtaken` rows: on such a row the other agent's outcome may take it from
  the live call, and a claim may have chosen a row before its person was
  blocked and lock it after the row was closed and reopened.
* A claim that overlaps `setListActive(false)` keeps its row: the list is looked
  at before the claim's transaction.
* If the agent's leg ends while the customer's dial is uncertain, the call is
  refunded and the row is not held back for an hour; an attempt that turns
  uncertain after the call's end stays so until a manager settles it.
* A process that dies between the call's row and the agent's dial leaves a call
  without a leg that no poll ends; the agent has to hang up.
* `retryRecipient` writes the status it has read: a run that completes the
  campaign in between leaves the recipient queued in a completed campaign, and
  the second of two retries can set a campaign running that was cancelled after
  the first.
* A message can be labelled CANCELLED while its provider call is in flight; the
  answer is written over it. `createOutboundMessage` returns a cancelled message
  of an earlier run like an accepted one and the recipient counts as sent (the
  exception in `RecipientIsVerdict`); `sendChannelMessage` refuses it.
* Pace is counted from `claimedAt` before claiming, and a requeue clears
  `claimedAt`: two workers may exceed the batch. (Not in the model yet.)

## 8. Not modelled

`PROJECT.json` lists every component with its reason. In short: HTTP and payload
formats, permissions and tenancy (no shared state to race for), configuration,
reports, language-model features and the user interface are left out. The CRM
core is mostly validated writes of single rows in one transaction.

Two parts with real concurrency are left out for want of a place in the runs:

* **Budget** (`server/billing/budget.ts`, `usage.ts`). Reservations are made under
  the business lock. A reservation is settled before the usage it stood for is
  recorded (`usage.ts:82` and `93`), and holds expire: in both cases an amount
  counts neither as held nor as used for a while, and another queue may exceed the
  cap. A repeated key whose hold was released or has expired is returned without a
  new hold.
* **CRM write-back** (`server/crm-sync/outbox.ts`). Whether an earlier attempt was
  ambiguous is kept in `lastError` only (lines 78 to 82), so a look-up that fails,
  or a crash after the provider's write, makes the next attempt write again without
  looking; of the providers only the simulation can look up by reference.
