------------------------ MODULE DialerServicesProofs ------------------------
(* Proofs about the services around the dial queue: ProviderRouting,        *)
(* DialerSession and ListAdmin.                                             *)
EXTENDS ProviderRouting, DialerSession, ListAdmin, TLAPS

-----------------------------------------------------------------------------
(* Sessions.                                                                *)

\* While the agent's transaction is under way no other session comes to life.
ChangesTheLiveOne ==
    change.op # "none" =>
        \E s \in Sessions : change.of = {s} /\ \A t \in Sessions \ {s} : session[t] \notin Live

SessionInv == SessionTypeOK /\ ChangesTheLiveOne /\ OneLiveSession

LEMMA SessionStart == SessionInit => SessionInv
<1> SUFFICES ASSUME SessionInit PROVE SessionInv
    OBVIOUS
<1>1. SessionTypeOK
    BY DEF SessionInit, SessionTypeOK, Live, NoChange, NoSweep
<1>2. \A s \in Sessions : session[s] = "none"
    BY DEF SessionInit
<1>3. OneLiveSession
    BY <1>2 DEF OneLiveSession, Live
<1>4. ChangesTheLiveOne
    BY DEF SessionInit, ChangesTheLiveOne, NoChange
<1> QED
    BY <1>1, <1>3, <1>4 DEF SessionInv

\* A step that only ends sessions keeps what is said of them.
LEMMA EndingKeeps ==
    ASSUME SessionInv, NEW targets, session' = EndAll(targets) \/ session' = session,
           change' = change
    PROVE  (ChangesTheLiveOne /\ OneLiveSession)' /\ session' \in [Sessions -> {"none", "ended"} \cup Live]
BY DEF SessionInv, SessionTypeOK, ChangesTheLiveOne, OneLiveSession, EndAll, Live

LEMMA SessionKept == SessionInv /\ [SessionNext]_sessionVars => SessionInv'
<1> SUFFICES ASSUME SessionInv, [SessionNext]_sessionVars PROVE SessionInv'
    OBVIOUS
<1> USE DEF SessionInv, SessionTypeOK, Live, NoChange, NoSweep
<1>1. ASSUME NEW s \in Sessions, StartSession(s) PROVE SessionInv'
    BY <1>1 DEF StartSession, Unlocked, EndAll, ChangesTheLiveOne, OneLiveSession
<1>2. ASSUME NEW s \in Sessions, Heartbeat(s) \/ GoesStale(s) PROVE SessionInv'
    BY <1>2, EndingKeeps DEF Heartbeat, GoesStale
<1>3. ASSUME NEW s \in Sessions, NEW op \in {"pause", "resume", "end"}, BeginChange(op, s)
      PROVE  SessionInv'
    BY <1>3 DEF BeginChange, ChangesTheLiveOne, OneLiveSession
<1>4. ASSUME NEW s \in Sessions, SweepLists(s) PROVE SessionInv'
    BY <1>4, EndingKeeps DEF SweepLists
<1>5. ASSUME NEW s \in Sessions, EndedElsewhere(s) PROVE SessionInv'
    BY <1>5, EndingKeeps DEF EndedElsewhere
<1>6. CASE CommitChange
    <2>1. PICK s \in Sessions :
              /\ change.of = {s}
              /\ \A t \in Sessions \ {s} : session[t] \notin Live
        BY <1>6 DEF CommitChange, ChangesTheLiveOne
    <2>2. Written(change.op) \in {"paused", "active", "ended"}
        BY <1>6 DEF CommitChange, Written
    <2>3. /\ \A t \in Sessions : session'[t] = IF t = s THEN Written(change.op) ELSE session[t]
          /\ session' \in [Sessions -> {"none", "ended"} \cup Live]
        BY <1>6, <2>1, <2>2 DEF CommitChange
    <2>4. OneLiveSession'
        BY <2>1, <2>3 DEF OneLiveSession
    <2>5. ChangesTheLiveOne'
        BY <1>6 DEF CommitChange, ChangesTheLiveOne
    <2>6. SessionTypeOK'
        BY <1>6, <2>3 DEF CommitChange
    <2> QED
        BY <2>4, <2>5, <2>6
<1>7. CASE RollBack
    BY <1>7 DEF RollBack, ChangesTheLiveOne, OneLiveSession
<1>8. CASE StartCall \/ CallEnds \/ SaveOutcome
    BY <1>8, EndingKeeps DEF StartCall, CallEnds, SaveOutcome
<1>9. ASSUME NEW technical \in BOOLEAN, AfterCall(technical) PROVE SessionInv'
    BY <1>9, EndingKeeps DEF AfterCall
<1>10. CASE PickAgent \/ CreateInbound \/ InboundInCall
    BY <1>10, EndingKeeps DEF PickAgent, CreateInbound, InboundInCall
<1>11. CASE SweepLooks \/ LogOut \/ SweepOffline
    BY <1>11, EndingKeeps DEF SweepLooks, LogOut, SweepOffline
<1>12. CASE SweepEnds
    BY <1>12, EndingKeeps DEF SweepEnds
<1>13. CASE UNCHANGED sessionVars
    BY <1>13, EndingKeeps DEF sessionVars
<1> QED
    BY <1>1, <1>2, <1>3, <1>4, <1>5, <1>6, <1>7, <1>8, <1>9, <1>10, <1>11, <1>12, <1>13
       DEF SessionNext

(* An agent has at most one live session, for any number of tabs (session.ts *)
(* under lockAgent, with the writers that do not take the lock).            *)
THEOREM OneLiveSessionHolds == SessionSpec => []OneLiveSession
<1>1. SessionInv => OneLiveSession
    BY DEF SessionInv
<1> QED
    BY <1>1, SessionStart, SessionKept, PTL DEF SessionSpec

-----------------------------------------------------------------------------
(* Lists.                                                                   *)

\* The row a merge has updated is there until the merge commits, unless its
\* list is deleted.
UpdatedIsThere ==
    openLists = Lists =>
        \A m \in Movers : mover[m].pc = "updated" => Exists(mover[m].into)

ListInv == ListTypeOK /\ UpdatedIsThere /\ CrossingMovesKeepOne

LEMMA RowsAreNoLists == /\ NoList \notin Lists
                        /\ NoMove \in MoverAt \/ Movers = {} \/ Lists = {}
                        /\ NoMove.pc = "idle"
<1>1. NoList \notin Lists /\ NoMove.pc = "idle"
    BY ListAssumption DEF NoMove
<1>2. ASSUME Lists # {} PROVE NoMove \in MoverAt
    <2>1. (CHOOSE l \in Lists : TRUE) \in Lists
        BY <1>2
    <2>2. (CHOOSE r \in LeadRows : TRUE) \in LeadRows
        BY ListAssumption
    <2> QED
        BY <2>1, <2>2 DEF NoMove, MoverAt, RowState
<1> QED
    BY <1>1, <1>2

LEMMA ListStart == ListInit => ListInv
<1> SUFFICES ASSUME ListInit PROVE ListInv
    OBVIOUS
<1>1. PICK r \in LeadRows : TRUE
    BY ListAssumption
<1>2. place[r] \in Lists /\ Exists(r) /\ Lists # {}
    BY RowsAreNoLists DEF ListInit, Exists
<1>3. ListTypeOK
    BY <1>2, RowsAreNoLists DEF ListInit, ListTypeOK, RowState
<1>4. UpdatedIsThere
    BY RowsAreNoLists DEF ListInit, UpdatedIsThere
<1> QED
    BY <1>2, <1>3, <1>4 DEF ListInv, CrossingMovesKeepOne

LEMMA ListKept == ListInv /\ [ListNext]_listVars => ListInv'
<1> SUFFICES ASSUME ListInv, [ListNext]_listVars PROVE ListInv'
    OBVIOUS
<1> USE DEF ListInv
<1>1. ASSUME NEW r \in LeadRows, NEW from, NEW to \in RowState, Work(r, from, to)
      PROVE  ListInv'
    BY <1>1 DEF Work, ListTypeOK, UpdatedIsThere, CrossingMovesKeepOne, Exists, RowState
<1>2. ASSUME NEW m \in Movers, NEW r \in LeadRows, NEW to \in Lists, ListRow(m, r, to)
      PROVE  ListInv'
    <2>1. place[r] \in Lists
        BY <1>2 DEF ListRow, ListTypeOK
    <2>2. NoMove \in MoverAt
        BY <2>1, RowsAreNoLists
    <2>3. /\ mover' \in [Movers -> MoverAt]
          /\ \A n \in Movers : mover'[n].pc = "updated" => mover'[n] = mover[n]
        BY <1>2, <2>1, <2>2 DEF ListRow, ListTypeOK, MoverAt
    <2> QED
        BY <1>2, <2>3 DEF ListRow, UnchangedRows, ListTypeOK, UpdatedIsThere,
           CrossingMovesKeepOne, Exists
<1>3. ASSUME NEW m \in Movers, ReadRow(m) PROVE ListInv'
    BY <1>3, RowsAreNoLists DEF ReadRow, Idle, UnchangedRows, ListTypeOK, UpdatedIsThere,
       CrossingMovesKeepOne, Exists, MoverAt
<1>4. ASSUME NEW m \in Movers, LookInTarget(m) PROVE ListInv'
    <2>1. PICK step \in MoverAt :
              step.pc # "updated" /\ mover' = [mover EXCEPT ![m] = step]
        <3> DEFINE Ready(pc, write) ==
                [mover[m] EXCEPT !.pc = pc, !.seen = "pending", !.write = write]
        <3>1. mover[m] \in MoverAt
            BY DEF ListTypeOK
        <3>2. ASSUME NEW pc \in {"moving", "merging"}, NEW write \in RowState \cup {"same"}
              PROVE  Ready(pc, write) \in MoverAt /\ Ready(pc, write).pc = pc
            BY <3>1, <3>2 DEF MoverAt, RowState
        <3>3. CASE \A q \in LeadRows : place[q] # mover[m].to
            <4> DEFINE write == IF mover[m].seen = "locked" THEN "pending" ELSE "same"
            <4>1. write \in RowState \cup {"same"}
                BY DEF RowState
            <4>2. mover' = [mover EXCEPT ![m] = Ready("moving", write)]
                BY <1>4, <3>3 DEF LookInTarget
            <4> QED
                BY <3>2, <4>1, <4>2
        <3>4. ASSUME NEW q \in LeadRows,
                     mover' = [mover EXCEPT ![m] =
                         [Ready("merging", Kept(mover[m].seen, state[q])) EXCEPT !.into = q]]
              PROVE  \E step \in MoverAt :
                         step.pc # "updated" /\ mover' = [mover EXCEPT ![m] = step]
            <4> DEFINE write == Kept(mover[m].seen, state[q])
            <4>1. write \in RowState \cup {"same"}
                BY <3>1 DEF Kept, Unreserved, MoverAt, RowState
            <4>2. Ready("merging", write) \in MoverAt /\ Ready("merging", write).pc = "merging"
                BY <3>2, <4>1
            <4> HIDE DEF Ready, write
            <4>3. /\ [Ready("merging", write) EXCEPT !.into = q] \in MoverAt
                  /\ [Ready("merging", write) EXCEPT !.into = q].pc = "merging"
                BY <4>2 DEF MoverAt
            <4> QED
                BY <3>4, <4>3 DEF write
        <3> QED
            BY <1>4, <3>3, <3>4 DEF LookInTarget
    <2>2. UNCHANGED <<place, state, ownMerge, openLists, deleting>>
        BY <1>4 DEF LookInTarget, UnchangedRows
    <2> QED
        BY <2>1, <2>2 DEF ListTypeOK, UpdatedIsThere, CrossingMovesKeepOne, Exists
<1>5. ASSUME NEW m \in Movers, MoveRow(m) PROVE ListInv'
    BY <1>5, RowsAreNoLists DEF MoveRow, Idle, Write, UnchangedRows, ListTypeOK, UpdatedIsThere,
       CrossingMovesKeepOne, Exists, MoverAt, RowState, RowFound, Held
<1>6. ASSUME NEW m \in Movers, UpdateTarget(m) PROVE ListInv'
    BY <1>6, RowsAreNoLists DEF UpdateTarget, Idle, UnchangedRows, ListTypeOK, UpdatedIsThere,
       CrossingMovesKeepOne, Exists, MoverAt, RowFound
<1>7. ASSUME NEW m \in Movers, DeleteSource(m) PROVE ListInv'
    <2> DEFINE r == mover[m].of
               q == mover[m].into
    <2>1. /\ mover[m].pc = "updated" /\ r \in LeadRows /\ q \in LeadRows
          /\ mover[m].write \in RowState \cup {"same"} /\ Lists # {}
          /\ UNCHANGED <<openLists, deleting>>
          /\ mover' = [mover EXCEPT ![m] = NoMove]
        BY <1>7 DEF DeleteSource, Idle, ListTypeOK, MoverAt
    <2>2. /\ mover' \in [Movers -> MoverAt]
          /\ \A n \in Movers : mover'[n].pc = "updated" => n # m /\ mover'[n] = mover[n]
        BY <2>1, RowsAreNoLists DEF ListTypeOK
    <2>3. CASE ~RowFound(r)
        BY <2>1, <2>2, <2>3, <1>7 DEF DeleteSource, UnchangedRows, ListTypeOK, UpdatedIsThere,
           CrossingMovesKeepOne, Exists
    <2>4. CASE RowFound(r)
        <3>1. /\ place' = [place EXCEPT ![r] = NoList]
              /\ state' = Write(q, mover[m].write)
              /\ ownMerge' = (ownMerge \/ q = r)
            BY <1>7, <2>4 DEF DeleteSource
        <3>2. ListTypeOK'
            BY <2>1, <2>2, <3>1 DEF ListTypeOK, Write
        <3>3. UpdatedIsThere'
            <4>1. \A n \in Movers : n # m /\ mover[n].pc = "updated" => mover[n].into # r
                BY <1>7 DEF DeleteSource, HeldByOther
            <4> QED
                BY <2>1, <2>2, <3>1, <4>1 DEF UpdatedIsThere, Exists, ListTypeOK, MoverAt
        <3>4. CrossingMovesKeepOne'
            <4>1. openLists = Lists => Exists(q)
                BY <2>1 DEF UpdatedIsThere
            <4> QED
                BY <2>1, <3>1, <4>1 DEF CrossingMovesKeepOne, Exists, ListTypeOK
        <3> QED
            BY <3>2, <3>3, <3>4
    <2> QED
        BY <2>3, <2>4
<1>8. ASSUME NEW m \in Movers, MoveFails(m) PROVE ListInv'
    BY <1>8, RowsAreNoLists DEF MoveFails, Idle, UnchangedRows, ListTypeOK, UpdatedIsThere,
       CrossingMovesKeepOne, Exists, MoverAt
<1>9. ASSUME NEW l \in Lists, CheckDeletion(l) PROVE ListInv'
    BY <1>9 DEF CheckDeletion, UnchangedRows, ListTypeOK, UpdatedIsThere, CrossingMovesKeepOne,
       Exists
<1>10. CASE DeleteList
    BY <1>10, RowsAreNoLists DEF DeleteList, ListTypeOK, UpdatedIsThere, CrossingMovesKeepOne
<1>11. CASE UNCHANGED listVars
    BY <1>11 DEF listVars, ListTypeOK, UpdatedIsThere, CrossingMovesKeepOne, Exists
<1>12. ASSUME NEW r \in LeadRows,
              \/ ReserveRow(r) \/ ReleaseRow(r) \/ DialRow(r) \/ BlockRow(r)
              \/ \E result \in {"pending", "dnc"} : DocumentRow(r, result)
       PROVE  ListInv'
    BY <1>12, <1>1 DEF ReserveRow, ReleaseRow, DialRow, BlockRow, DocumentRow, RowState
<1> QED
    BY <1>2, <1>3, <1>4, <1>5, <1>6, <1>7, <1>8, <1>9, <1>10, <1>11, <1>12 DEF ListNext

(* Crossing merges never delete both rows of a contact, for any number of   *)
(* rows, lists and managers (moveListLeads; the row lock of the merge's     *)
(* update and the failing delete of a missing row).                         *)
THEOREM CrossingMovesKeepOneHolds == ListSpec => []CrossingMovesKeepOne
<1>1. ListInv => CrossingMovesKeepOne
    BY DEF ListInv
<1> QED
    BY <1>1, ListStart, ListKept, PTL DEF ListSpec

-----------------------------------------------------------------------------
(* Breakers.                                                                *)

HeldOff ==
    \A p \in Providers : sinceOpen[p] < CooldownSeconds =>
        health[p].state = "open" /\ health[p].probeIn >= CooldownSeconds - sinceOpen[p]

RoutingInv == RoutingTypeOK /\ HeldOff

LEMMA TimesOnce ==
    ASSUME NEW a \in Nat, NEW b \in Nat \ {0}
    PROVE  a * b \in Nat /\ a * b >= a
OBVIOUS

LEMMA Spans == /\ FlapWindow \in Nat /\ NoWindow \in Nat \ {0} /\ Lowest \in Int
               /\ WindowSeconds \in Nat /\ CooldownSeconds \in Nat \ {0}
               /\ ProbeCalls \in Nat \ {0} /\ FailureThreshold \in Nat \ {0}
               /\ MaxFactor \in Nat \ {0} /\ Lowest < 0 /\ LongAgo \in Nat
BY RoutingAssumption, TimesOnce DEF FlapWindow, NoWindow, Lowest, LongAgo

LEMMA ClosedIsHealth == CLOSED \in Health
BY Spans DEF CLOSED, Health

LEMMA OpenIsHeldOff ==
    ASSUME NEW h \in Health
    PROVE  Open(h) \in Health /\ Open(h).state = "open" /\ Open(h).probeIn >= CooldownSeconds
<1>1. NextFactor(h) \in 1..MaxFactor
    BY Spans DEF NextFactor, Lesser, Health
<1>2. CooldownSeconds * NextFactor(h) \in Nat /\ CooldownSeconds * NextFactor(h) >= CooldownSeconds
    BY <1>1, Spans, TimesOnce
<1>3. NextFactor(h) \in 0..MaxFactor /\ NextFactor(h) \in Nat
    BY <1>1, Spans
<1> HIDE DEF NextFactor
<1>4. CooldownSeconds * NextFactor(h) \in Int /\ h.closedAge \in 0..LongAgo
    BY <1>2 DEF Health
<1> DEFINE factor == NextFactor(h)
           probe == CooldownSeconds * factor
<1>5. Open(h) = [CLOSED EXCEPT !.state = "open", !.factor = factor, !.probeIn = probe,
                               !.closedAge = h.closedAge]
    BY DEF Open
<1>6. probe \in Int /\ factor \in 0..MaxFactor /\ probe >= CooldownSeconds
    BY <1>2, <1>3
<1> HIDE DEF factor, probe
<1> QED
    BY <1>4, <1>5, <1>6, ClosedIsHealth DEF Health

LEMMA AdvanceKeepsOff ==
    ASSUME NEW h \in Health, NEW cooldown
    PROVE  /\ Advance(h, cooldown) \in Health
           /\ Acquired(Advance(h, cooldown)) \in Health
           /\ h.state = "open" /\ h.probeIn > 0 =>
                  Advance(h, cooldown) = h /\ Acquired(h) = h
           /\ Advance(h, cooldown).state = "open" => h.state = "open"
<1> DEFINE Tried == [h EXCEPT !.successes = 0, !.started = 0]
<1>1. /\ [Tried EXCEPT !.state = "half_open"] \in Health
      /\ [Tried EXCEPT !.probeIn = 0] \in Health
    <2>1. Tried \in Health
        BY DEF Health
    <2> HIDE DEF Tried
    <2> QED
        BY <2>1 DEF Health
<1>2. Advance(h, cooldown) \in {h, [Tried EXCEPT !.state = "half_open"], [Tried EXCEPT !.probeIn = 0]}
    BY DEF Advance, NewRound
<1>3. ASSUME NEW g \in Health PROVE Acquired(g) \in Health
    BY <1>3 DEF Acquired, Health
<1>4. h.state = "open" /\ h.probeIn > 0 => Advance(h, cooldown) = h /\ Acquired(h) = h
    BY DEF Advance, Acquired, Health
<1>5. Advance(h, cooldown).state = "open" => h.state = "open"
    BY DEF Advance, NewRound, Health
<1> QED
    BY <1>1, <1>2, <1>3, <1>4, <1>5

LEMMA AfterResultKeepsOff ==
    ASSUME NEW h \in Health, NEW result \in Results
    PROVE  LET cur == Advance(h, CooldownSeconds)
               after == AfterResult(h, result)
           IN  /\ after \in Health
               /\ h.state = "open" /\ h.probeIn > 0 => after = h
               /\ Trips(cur, after) => after.state = "open" /\ after.probeIn >= CooldownSeconds
<1> DEFINE cur == Advance(h, CooldownSeconds)
<1>1. cur \in Health /\ (h.state = "open" /\ h.probeIn > 0 => cur = h)
    BY AdvanceKeepsOff
<1>2. CASE result = "ignored"
    <2>1. AfterResult(h, result) = Advance(h, DefaultCooldown)
        BY <1>2 DEF AfterResult
    <2>2. /\ Advance(h, DefaultCooldown) \in Health
          /\ h.state = "open" /\ h.probeIn > 0 => Advance(h, DefaultCooldown) = h
        BY AdvanceKeepsOff
    <2>3. ~Trips(cur, Advance(h, DefaultCooldown))
        BY DEF Trips, Advance, NewRound, Health
    <2> QED
        BY <2>1, <2>2, <2>3
<1> HIDE DEF cur
<1>3. CASE result = "ok"
    <2>1. AfterResult(h, result) = onSuccess(cur)
        BY <1>3 DEF AfterResult, cur
    <2>2. /\ onSuccess(cur) \in Health /\ (cur.state = "open" => onSuccess(cur) = cur)
          /\ cur.state # "open" => onSuccess(cur).state # "open"
        <3>1. CLOSED.state = "closed" /\ cur.factor \in 0..MaxFactor /\ cur.successes + 1 \in Nat
              /\ 0 \in 0..LongAgo /\ NoWindow \in 0..NoWindow
            BY <1>1, Spans DEF CLOSED, Health
        <3>2. CloseBreaker(cur) \in Health /\ CloseBreaker(cur).state = "closed"
            BY <3>1, ClosedIsHealth DEF CloseBreaker, Health
        <3>3. /\ [cur EXCEPT !.successes = cur.successes + 1] \in Health
              /\ [cur EXCEPT !.failures = 0, !.windowAge = NoWindow] \in Health
            BY <1>1, <3>1 DEF Health
        <3>4. cur.state \in {"closed", "open", "half_open"}
            BY <1>1 DEF Health
        <3> QED
            BY <1>1, <3>2, <3>3, <3>4 DEF onSuccess, Health
    <2> QED
        BY <1>1, <2>1, <2>2 DEF Trips, cur
<1>4. CASE result \in {"counts", "opens"}
    <2>1. AfterResult(h, result) = onFailure(cur, result = "opens")
        BY <1>4 DEF AfterResult, cur
    <2>2. Open(cur) \in Health /\ Open(cur).state = "open" /\ Open(cur).probeIn >= CooldownSeconds
        BY <1>1, OpenIsHeldOff
    <2>3. ASSUME NEW immediate \in BOOLEAN, cur.state = "closed"
          PROVE  /\ CountedFailure(cur, immediate) \in Health
                 /\ CountedFailure(cur, immediate).state = "open" =>
                        CountedFailure(cur, immediate) = Open(cur)
        <3> DEFINE failures == IF cur.windowAge <= WindowSeconds THEN cur.failures + 1 ELSE 1
                   window == IF cur.windowAge <= WindowSeconds THEN cur.windowAge ELSE 0
        <3>1. failures \in Nat /\ window \in 0..NoWindow
            BY <1>1, Spans DEF Health
        <3>2. CountedFailure(cur, immediate) =
                 IF immediate \/ failures >= FailureThreshold THEN Open(cur)
                 ELSE [cur EXCEPT !.failures = failures, !.windowAge = window]
            BY DEF CountedFailure
        <3> HIDE DEF failures, window
        <3>3. /\ [cur EXCEPT !.failures = failures, !.windowAge = window] \in Health
              /\ [cur EXCEPT !.failures = failures, !.windowAge = window].state = "closed"
            BY <1>1, <2>3, <3>1 DEF Health
        <3> QED
            BY <2>2, <3>2, <3>3
    <2>4. /\ onFailure(cur, result = "opens") \in Health
          /\ cur.state = "open" => onFailure(cur, result = "opens") = cur
          /\ cur.state # "open" /\ onFailure(cur, result = "opens").state = "open" =>
                onFailure(cur, result = "opens") = Open(cur)
        BY <1>1, <2>2, <2>3 DEF onFailure, Health
    <2> QED
        BY <1>1, <2>1, <2>2, <2>4 DEF Trips, cur
<1> QED
    BY <1>2, <1>3, <1>4 DEF Results

LEMMA RoutedIsDial ==
    ASSUME NEW p \in Providers
    PROVE  [NoDial EXCEPT !.routed = TRUE, !.provider = p] \in Dial
<1>1. NoDial \in Dial
    BY DEF NoDial, Dial, Providers
<1> QED
    BY <1>1 DEF Dial

LEMMA RoutingStart == RoutingInit => RoutingInv
BY ClosedIsHealth, Spans DEF RoutingInit, RoutingInv, RoutingTypeOK, HeldOff, NoDial, Dial, Providers

LEMMA RoutingKept == RoutingInv /\ [RoutingNext]_routingVars => RoutingInv'
<1> SUFFICES ASSUME RoutingInv, [RoutingNext]_routingVars PROVE RoutingInv'
    OBVIOUS
<1> USE Spans DEF RoutingInv, RoutingTypeOK
<1> HIDE DEF Health
\* A dial's choice leaves an open breaker alone.
<1>1. ASSUME NEW d \in Dials, NEW p \in Providers, Routed(d, p), UNCHANGED sinceOpen,
             health' \in [Providers -> Health],
             \A q \in Providers : health[q].state = "open" /\ health[q].probeIn > 0 =>
                                      health'[q] = health[q]
      PROVE  RoutingInv'
    <2>1. dial' \in [Dials -> Dial]
        BY <1>1, RoutedIsDial DEF Routed
    <2>2. HeldOff'
        BY <1>1 DEF HeldOff, Health
    <2> QED
        BY <1>1, <2>1, <2>2
<1>2. ASSUME NEW d \in Dials, NEW p \in Providers, ChooseByPolicy(d, p) PROVE RoutingInv'
    BY <1>1, <1>2 DEF ChooseByPolicy
<1>3. ASSUME NEW d \in Dials, NEW backupOk \in BOOLEAN, ChoosePrimary(d, backupOk)
      PROVE  RoutingInv'
    BY <1>1, <1>3, AdvanceKeepsOff DEF ChoosePrimary, Providers
<1>4. ASSUME NEW d \in Dials, ChooseBackup(d) PROVE RoutingInv'
    BY <1>1, <1>4, AdvanceKeepsOff DEF ChooseBackup, Providers
<1>5. ASSUME NEW d \in Dials, DialDropped(d) PROVE RoutingInv'
    BY <1>5 DEF DialDropped, HeldOff, NoDial, Dial, Providers
<1>6. ASSUME NEW d \in Dials, NEW result \in Results, Report(d, result) PROVE RoutingInv'
    <2> DEFINE p == dial[d].provider
               after == AfterResult(health[p], result)
               trips == Trips(Advance(health[p], CooldownSeconds), after)
    <2>1. p \in Providers /\ health[p] \in Health
        BY DEF Dial
    <2>2. /\ after \in Health
          /\ health[p].state = "open" /\ health[p].probeIn > 0 => after = health[p]
          /\ trips => after.state = "open" /\ after.probeIn >= CooldownSeconds
        BY <2>1, AfterResultKeepsOff
    <2>3. /\ health' = [health EXCEPT ![p] = after]
          /\ sinceOpen' = IF trips THEN [sinceOpen EXCEPT ![p] = 0] ELSE sinceOpen
        BY <1>6 DEF Report
    <2>4. dial' \in [Dials -> Dial]
        BY <1>6 DEF Report, NoDial, Dial, Providers
    <2> HIDE DEF p, after, trips
    <2>5. HeldOff'
        BY <2>1, <2>2, <2>3 DEF HeldOff, Health
    <2>6. health' \in [Providers -> Health] /\ sinceOpen' \in [Providers -> 0..CooldownSeconds]
        BY <2>1, <2>2, <2>3
    <2> QED
        BY <2>4, <2>5, <2>6
<1>7. CASE RoutingTick
    <2>1. ASSUME NEW h \in Health
          PROVE  Older(h) \in Health /\ Older(h).state = h.state
                 /\ (h.state = "open" /\ h.probeIn > 0 => Older(h).probeIn = h.probeIn - 1)
        <3> DEFINE window == Lesser(NoWindow, h.windowAge + 1)
                   closed == Lesser(LongAgo, h.closedAge + 1)
                   probe == IF h.state = "closed" THEN h.probeIn
                            ELSE IF h.probeIn <= Lowest THEN Lowest ELSE h.probeIn - 1
        <3>1. window \in 0..NoWindow /\ closed \in 0..LongAgo /\ probe \in Int
            BY DEF Lesser, Health
        <3>2. h.state = "open" /\ h.probeIn > 0 => probe = h.probeIn - 1
            BY DEF Health
        <3>3. Older(h) = [h EXCEPT !.windowAge = window, !.closedAge = closed, !.probeIn = probe]
            BY DEF Older
        <3> HIDE DEF window, closed, probe
        <3> QED
            BY <3>1, <3>2, <3>3 DEF Health
    <2>2. health' \in [Providers -> Health] /\ sinceOpen' \in [Providers -> 0..CooldownSeconds]
        BY <1>7, <2>1 DEF RoutingTick, Lesser
    <2>3. HeldOff'
        BY <1>7, <2>1 DEF RoutingTick, HeldOff, Lesser, Health
    <2> QED
        BY <1>7, <2>2, <2>3 DEF RoutingTick
<1>8. CASE UNCHANGED routingVars
    BY <1>8 DEF routingVars, HeldOff
<1> QED
    BY <1>2, <1>3, <1>4, <1>5, <1>6, <1>7, <1>8 DEF RoutingNext

(* An open breaker stays open for a whole cooldown whatever late answers    *)
(* arrive, for any thresholds and any number of dials (breaker.ts).         *)
THEOREM QuarantineHolds == RoutingSpec => []Quarantine
<1>1. RoutingInv => Quarantine
    BY DEF RoutingInv, HeldOff, Quarantine
<1> QED
    BY <1>1, RoutingStart, RoutingKept, PTL DEF RoutingSpec
=============================================================================
