--------------------------- MODULE ProviderRouting ---------------------------
(***************************************************************************)
(* Which provider a new call uses: src/src/lib/telephony/{routing,breaker, *)
(* attempts}.ts and the end of startCall in src/src/lib/dialer/calls.ts.   *)
(*                                                                         *)
(* Each provider has a circuit breaker in a database row.  A request that  *)
(* is about to dial decides under the row's lock, which may take a probe   *)
(* slot; its two requests to the provider (agent's leg, customer's leg)    *)
(* report back later, each for itself, or never.  So the answers a breaker *)
(* hears need not belong to the calls it has let through.                  *)
(*                                                                         *)
(* The business's policy and the backup's eligibility (configured,         *)
(* verified, under its daily limit) are read before the lock and may be    *)
(* changed by a manager at any time, so a dial may see any of them.        *)
(*                                                                         *)
(* Dates are kept as the time that has passed since, or is left until,     *)
(* them, as far as the code's comparisons can tell.                        *)
(***************************************************************************)
EXTENDS Integers

CONSTANTS
    Dials,           \* requests that dial, each one call after another
    FailureThreshold, WindowSeconds, CooldownSeconds, ProbeCalls,
    FlapFactor,      \* flapWindowMs, in cooldowns (4)
    MaxFactor,       \* MAX_COOLDOWN_FACTOR (8)
    DefaultCooldown  \* DEFAULT_BREAKER's cooldown

ASSUME RoutingAssumption ==
    /\ {FailureThreshold, CooldownSeconds, ProbeCalls, FlapFactor, MaxFactor,
        DefaultCooldown} \subseteq Nat \ {0}
    /\ WindowSeconds \in Nat

VARIABLES
    health,    \* telephony_provider_health, a row per provider
    dial,      \* what each request knows
    sinceOpen  \* history: time since each breaker opened, up to a cooldown

routingVars == <<health, dial, sinceOpen>>

Providers == {"primary", "backup"}

FlapWindow == FlapFactor * CooldownSeconds
NoWindow == WindowSeconds + 1       \* windowStartedAt is null or too old
LongAgo == FlapWindow               \* closedAt is null or too old
\* As long ago as either cooldown can tell.
Lowest == -(IF DefaultCooldown >= CooldownSeconds THEN DefaultCooldown ELSE CooldownSeconds) - 1

\* factor is what trips stands for: the multiplier of the last cooldown.
Health == [state : {"closed", "open", "half_open"},
           failures : Nat, windowAge : 0..NoWindow,
           probeIn : Int, successes : Nat, started : Nat,
           factor : 0..MaxFactor, closedAge : 0..LongAgo]

CLOSED == [state |-> "closed", failures |-> 0, windowAge |-> NoWindow, probeIn |-> 0,
           successes |-> 0, started |-> 0, factor |-> 0, closedAge |-> LongAgo]

\* A request that has its provider; answers are the legs that have succeeded.
Dial == [routed : BOOLEAN, provider : Providers, answers : 0..1]

NoDial == [routed |-> FALSE, provider |-> "primary", answers |-> 0]

RoutingTypeOK ==
    /\ health \in [Providers -> Health]
    /\ dial \in [Dials -> Dial]
    /\ sinceOpen \in [Providers -> 0..CooldownSeconds]

RoutingInit ==
    /\ health = [p \in Providers |-> CLOSED]
    /\ dial = [d \in Dials |-> NoDial]
    /\ sinceOpen = [p \in Providers |-> CooldownSeconds]

-----------------------------------------------------------------------------
(* breaker.ts, on one provider's row.                                       *)
Lesser(a, b) == IF a <= b THEN a ELSE b

NewRound(h) == [h EXCEPT !.successes = 0, !.started = 0]

AdvanceKeepingSlots(h, cooldown) ==
    IF h.state = "open" /\ h.probeIn <= 0 THEN [NewRound(h) EXCEPT !.state = "half_open"] ELSE h

Advance(h, cooldown) ==
    IF h.state = "open" /\ h.probeIn <= 0 THEN [NewRound(h) EXCEPT !.state = "half_open"]
    ELSE IF h.state = "half_open" /\ -h.probeIn > cooldown
         THEN [NewRound(h) EXCEPT !.probeIn = 0]
    ELSE h

NextFactorUncapped(h) ==
    IF h.state = "half_open" \/ h.closedAge < FlapWindow
    THEN IF h.factor = 0 THEN 1 ELSE 2 * h.factor
    ELSE 1

NextFactor(h) ==
    IF h.state = "half_open" \/ h.closedAge < FlapWindow
    THEN IF h.factor = 0 THEN 1 ELSE Lesser(MaxFactor, 2 * h.factor)
    ELSE 1

Open(h) == [CLOSED EXCEPT !.state = "open", !.factor = NextFactor(h),
                          !.probeIn = CooldownSeconds * NextFactor(h),
                          !.closedAge = h.closedAge]

Allowed(h) == h.state = "closed" \/ (h.state = "half_open" /\ h.started < ProbeCalls)

Acquired(h) == IF h.state = "half_open" /\ h.started < ProbeCalls
               THEN [h EXCEPT !.started = @ + 1] ELSE h

CountedFailure(h, immediate) ==
    LET failures == IF h.windowAge <= WindowSeconds THEN h.failures + 1 ELSE 1
    IN  IF immediate \/ failures >= FailureThreshold THEN Open(h)
        ELSE [h EXCEPT !.failures = failures,
                       !.windowAge = IF @ <= WindowSeconds THEN @ ELSE 0]

onFailure(h, immediate) ==
    CASE h.state = "open" -> h
      [] h.state = "half_open" -> Open(h)
      [] OTHER -> CountedFailure(h, immediate)

CloseBreaker(h) == [CLOSED EXCEPT !.factor = h.factor, !.closedAge = 0]

onSuccessClosing(h) ==
    IF h.state = "open" THEN CloseBreaker(h)
    ELSE IF h.state = "closed" THEN [h EXCEPT !.failures = 0, !.windowAge = NoWindow]
    ELSE IF h.successes + 1 >= ProbeCalls THEN CloseBreaker(h)
    ELSE [h EXCEPT !.successes = @ + 1]

onSuccess(h) ==
    CASE h.state = "half_open" ->
            IF h.successes + 1 >= ProbeCalls THEN CloseBreaker(h)
            ELSE [h EXCEPT !.successes = @ + 1]
      [] h.state = "closed" -> [h EXCEPT !.failures = 0, !.windowAge = NoWindow]
      [] OTHER -> h

\* A result is "ok", a failure of a class that counts, one that opens the
\* breaker at once (a bad key, a blocked account), or one that does not count.
Results == {"ok", "counts", "opens", "ignored"}

AfterResult(h, result) ==
    LET cur == Advance(h, CooldownSeconds)
    IN  CASE result = "ok" -> onSuccess(cur)
          [] result = "ignored" -> Advance(h, DefaultCooldown)
          [] OTHER -> onFailure(cur, result = "opens")

-----------------------------------------------------------------------------
(* chooseProviderForNewCall.                                                *)
Routed(d, p) == dial' = [dial EXCEPT ![d] = [NoDial EXCEPT !.routed = TRUE, !.provider = p]]

\* Modes primary_only and manual_backup do not ask the breakers.
ChooseByPolicy(d, p) ==
    /\ ~dial[d].routed
    /\ Routed(d, p)
    /\ UNCHANGED <<health, sinceOpen>>

\* Mode auto_failover, in one transaction that locks the rows it reads.
ChoosePrimary(d, backupOk) ==
    LET h == Advance(health["primary"], CooldownSeconds)
    IN  /\ ~dial[d].routed
        /\ Allowed(h) \/ ~backupOk
        /\ health' = [health EXCEPT !["primary"] = Acquired(h)]
        /\ Routed(d, "primary")
        /\ UNCHANGED sinceOpen

\* If the backup's breaker is open too, the dial is refused and the
\* transaction rolled back: nothing changes.
ChooseBackup(d) ==
    LET h == Advance(health["primary"], CooldownSeconds)
        b == Advance(health["backup"], CooldownSeconds)
    IN  /\ ~dial[d].routed
        /\ ~Allowed(h) /\ Allowed(b)
        /\ health' = [health EXCEPT !["primary"] = h, !["backup"] = Acquired(b)]
        /\ Routed(d, "backup")
        /\ UNCHANGED sinceOpen

\* The dial is refused after the choice (agent to register again, session,
\* budget, guards of the transaction), or its process dies: no report.
DialDropped(d) ==
    /\ dial[d].routed
    /\ dial' = [dial EXCEPT ![d] = NoDial]
    /\ UNCHANGED <<health, sinceOpen>>

-----------------------------------------------------------------------------
(* dialWithAttempt and recordProviderResult: a leg's request has come back. *)
Trips(h, g) == h.state # "open" /\ g.state = "open"

Report(d, result) ==
    LET p == dial[d].provider
        h == AfterResult(health[p], result)
    IN  /\ dial[d].routed
        /\ health' = [health EXCEPT ![p] = h]
        /\ sinceOpen' = IF Trips(Advance(health[p], CooldownSeconds), h)
                        THEN [sinceOpen EXCEPT ![p] = 0] ELSE sinceOpen
        /\ dial' = [dial EXCEPT ![d] =
                        IF result = "ok" /\ @.answers = 0 THEN [@ EXCEPT !.answers = 1]
                        ELSE NoDial]

\* Time passes.
Older(h) ==
    [h EXCEPT !.windowAge = Lesser(NoWindow, @ + 1),
              !.closedAge = Lesser(LongAgo, @ + 1),
              !.probeIn = IF h.state = "closed" THEN @
                          ELSE IF @ <= Lowest THEN Lowest ELSE @ - 1]

RoutingTick ==
    /\ health' = [p \in Providers |-> Older(health[p])]
    /\ sinceOpen' = [p \in Providers |-> Lesser(CooldownSeconds, sinceOpen[p] + 1)]
    /\ UNCHANGED dial

RoutingNext ==
    \/ \E d \in Dials :
        \/ \E p \in Providers : ChooseByPolicy(d, p)
        \/ \E backupOk \in BOOLEAN : ChoosePrimary(d, backupOk)
        \/ ChooseBackup(d) \/ DialDropped(d)
        \/ \E result \in Results : Report(d, result)
    \/ RoutingTick

RoutingSpec == RoutingInit /\ [][RoutingNext]_routingVars
RoutingFairness == WF_routingVars(RoutingTick)

-----------------------------------------------------------------------------
(* A breaker that has opened stays open for a whole cooldown, whatever late *)
(* answers arrive of requests sent before it opened, so new calls are kept  *)
(* away from a provider that has just failed (breaker.ts onSuccess,         *)
(* onFailure, advance, over any number of dials in flight).                 *)
Quarantine ==
    \A p \in Providers : sinceOpen[p] < CooldownSeconds => health[p].state = "open"

(* No breaker shuts a provider out for good: probe slots taken by dials     *)
(* that never report are given back (breaker.ts:43).                        *)
AlwaysTriedAgain ==
    \A p \in Providers : []<>Allowed(Advance(health[p], CooldownSeconds))
=============================================================================
