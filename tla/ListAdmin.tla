------------------------------ MODULE ListAdmin ------------------------------
(***************************************************************************)
(* Moving and merging the rows of dial lists, and deleting a list, while   *)
(* agents work on them: src/src/lib/dialer/list-admin.ts.                  *)
(*                                                                         *)
(* The rows are those of one contact, at most one in each list.  A move is *)
(* a READ COMMITTED transaction: its reads take no locks, an UPDATE or     *)
(* DELETE by id holds the row until the commit and fails when the row is   *)
(* gone, which rolls the transaction back.  So what a manager's request    *)
(* has read may be stale when it writes, and two of them may cross.        *)
(*                                                                         *)
(* What agents do to a row is in DialQueue; here it is any sequence of     *)
(* reserving, dialing and documenting it.                                  *)
(***************************************************************************)
EXTENDS Naturals

CONSTANTS Lists, LeadRows, Movers, NoList

ASSUME ListAssumption == NoList \notin Lists /\ LeadRows # {}

VARIABLES
    place,     \* the list a row is in, NoList when it is deleted
    state,     \* list_leads.status
    mover,     \* what each manager's request to move a row has read
    openLists, \* the lists that exist
    deleting,  \* a list whose deletion has been checked and not yet done
    ownMerge   \* history: a row has been merged into itself

listVars == <<place, state, mover, openLists, deleting, ownMerge>>

RowState == {"pending", "locked", "in_call", "dnc"}
Strength(s) == CASE s = "dnc" -> 100 [] s = "pending" -> 30 [] OTHER -> 0

\* seen is the status read of the row (of), write what the move or the merge
\* into the row found in the target list (into) is to write.
MoverAt == [pc : {"idle", "listed", "read", "moving", "merging", "updated"},
            of : LeadRows, from : Lists, to : Lists, into : LeadRows,
            seen : RowState, write : RowState \cup {"same"}]

ListTypeOK ==
    /\ place \in [LeadRows -> Lists \cup {NoList}]
    /\ state \in [LeadRows -> RowState]
    /\ mover \in [Movers -> MoverAt]
    /\ openLists \subseteq Lists /\ deleting \in Lists \cup {NoList}
    /\ ownMerge \in BOOLEAN

NoMove == [pc |-> "idle", of |-> CHOOSE r \in LeadRows : TRUE,
           from |-> CHOOSE l \in Lists : TRUE, to |-> CHOOSE l \in Lists : TRUE,
           into |-> CHOOSE r \in LeadRows : TRUE, seen |-> "pending", write |-> "same"]

ListInit ==
    /\ place \in [LeadRows -> Lists]
    /\ \A r, q \in LeadRows : place[r] = place[q] => r = q
    /\ state = [r \in LeadRows |-> "pending"]
    /\ mover = [m \in Movers |-> NoMove]
    /\ openLists = Lists /\ deleting = NoList /\ ownMerge = FALSE

-----------------------------------------------------------------------------
(* The rows, seen by other transactions.                                    *)
Exists(r) == place[r] # NoList

\* The row a merge has updated is locked until the merge commits.
HeldByOther(m, r) == \E n \in Movers \ {m} : mover[n].pc = "updated" /\ mover[n].into = r
Held(r) == \E n \in Movers : mover[n].pc = "updated" /\ mover[n].into = r

\* An update by id of a row that is gone fails (and rolls back).
RowAssumed(r) == TRUE
RowFound(r) == Exists(r)

Work(r, from, to) ==
    /\ Exists(r) /\ ~Held(r) /\ state[r] \in from
    /\ state' = [state EXCEPT ![r] = to]
    /\ UNCHANGED <<place, mover, openLists, deleting, ownMerge>>

ReserveRow(r) == Work(r, {"pending"}, "locked")
ReleaseRow(r) == Work(r, {"locked"}, "pending")
DialRow(r) == Work(r, {"locked"}, "in_call")
DocumentRow(r, result) == Work(r, {"in_call"}, result)
BlockRow(r) == Work(r, {"pending", "locked"}, "dnc")

-----------------------------------------------------------------------------
(* moveListLeads.                                                           *)
Idle(m) == mover' = [mover EXCEPT ![m] = NoMove]
UnchangedRows == UNCHANGED <<place, state, ownMerge>>

ListRow(m, r, to) ==
    /\ mover[m].pc = "idle"
    /\ place[r] \in openLists /\ to \in openLists \ {place[r]}
    /\ mover' = [mover EXCEPT ![m] = [NoMove EXCEPT !.pc = "listed", !.of = r,
                                                    !.from = place[r], !.to = to]]
    /\ UnchangedRows /\ UNCHANGED <<openLists, deleting>>

\* The row is read again: it may have left the list, or be in a call.
ReadRow(m) ==
    LET r == mover[m].of
    IN  /\ mover[m].pc = "listed"
        /\ IF place[r] # mover[m].from \/ state[r] = "in_call" THEN Idle(m)
           ELSE mover' = [mover EXCEPT ![m].pc = "read", ![m].seen = state[r]]
        /\ UnchangedRows /\ UNCHANGED <<openLists, deleting>>

\* A reservation is not moved; the merge keeps the stronger state, as read.
Unreserved(s) == IF s = "locked" THEN "pending" ELSE s

Kept(seen, intoSeen) ==
    IF intoSeen \notin {"in_call", "locked"} /\ Strength(Unreserved(seen)) > Strength(intoSeen)
    THEN Unreserved(seen) ELSE "same"

LookInTarget(m) ==
    LET seen == mover[m].seen
        Ready(pc, write) == [mover[m] EXCEPT !.pc = pc, !.seen = "pending", !.write = write]
    IN  /\ mover[m].pc = "read"
        /\ \/ /\ \A q \in LeadRows : place[q] # mover[m].to
              /\ mover' = [mover EXCEPT ![m] =
                               Ready("moving", IF seen = "locked" THEN "pending" ELSE "same")]
           \/ \E q \in LeadRows :
                 /\ place[q] = mover[m].to
                 /\ mover' = [mover EXCEPT ![m] =
                                  [Ready("merging", Kept(seen, state[q])) EXCEPT !.into = q]]
        /\ UnchangedRows /\ UNCHANGED <<openLists, deleting>>

Write(r, s) == IF s = "same" THEN state ELSE [state EXCEPT ![r] = s]

\* The target list must exist and, one row per contact and list, be empty.
MoveRow(m) ==
    LET r == mover[m].of
    IN  /\ mover[m].pc = "moving" /\ ~Held(r)
        /\ Idle(m)
        /\ IF /\ RowFound(r) /\ mover[m].to \in openLists
              /\ \A q \in LeadRows : place[q] # mover[m].to
           THEN /\ place' = [place EXCEPT ![r] = mover[m].to]
                /\ state' = Write(r, mover[m].write)
                /\ UNCHANGED ownMerge
           ELSE UnchangedRows
        /\ UNCHANGED <<openLists, deleting>>

\* Merge: update the target's row (uncommitted), then delete the source's.
UpdateTarget(m) ==
    /\ mover[m].pc = "merging" /\ ~HeldByOther(m, mover[m].into)
    /\ IF RowFound(mover[m].into) THEN mover' = [mover EXCEPT ![m].pc = "updated"]
       ELSE Idle(m)
    /\ UnchangedRows /\ UNCHANGED <<openLists, deleting>>

DeleteSource(m) ==
    LET r == mover[m].of
        q == mover[m].into
    IN  /\ mover[m].pc = "updated" /\ ~HeldByOther(m, r)
        /\ Idle(m)
        /\ IF RowFound(r)
           THEN /\ place' = [place EXCEPT ![r] = NoList]
                /\ state' = Write(q, mover[m].write)
                /\ ownMerge' = (ownMerge \/ q = r)
           ELSE UnchangedRows
        /\ UNCHANGED <<openLists, deleting>>

\* The transaction fails: a deadlock, a timeout, the process.
MoveFails(m) ==
    /\ mover[m].pc # "idle" /\ Idle(m)
    /\ UnchangedRows /\ UNCHANGED <<openLists, deleting>>

-----------------------------------------------------------------------------
(* deleteList: the check, then the transaction.                             *)
CheckDeletion(l) ==
    /\ deleting = NoList /\ l \in openLists
    /\ \A r \in LeadRows : place[r] = l => state[r] # "in_call"
    /\ deleting' = l
    /\ UnchangedRows /\ UNCHANGED <<mover, openLists>>

DeleteList ==
    /\ deleting # NoList /\ deleting' = NoList
    /\ \A r \in LeadRows : place[r] = deleting => ~Held(r)
    /\ openLists' = openLists \ {deleting}
    /\ place' = [r \in LeadRows |-> IF place[r] = deleting THEN NoList ELSE place[r]]
    /\ UNCHANGED <<state, mover, ownMerge>>

ListNext ==
    \/ \E r \in LeadRows :
        \/ ReserveRow(r) \/ ReleaseRow(r) \/ DialRow(r) \/ BlockRow(r)
        \/ \E result \in {"pending", "dnc"} : DocumentRow(r, result)
    \/ \E m \in Movers :
        \/ \E r \in LeadRows, to \in Lists : ListRow(m, r, to)
        \/ ReadRow(m) \/ LookInTarget(m) \/ MoveRow(m)
        \/ UpdateTarget(m) \/ DeleteSource(m) \/ MoveFails(m)
    \/ \E l \in Lists : CheckDeletion(l)
    \/ DeleteList

ListSpec == ListInit /\ [][ListNext]_listVars

-----------------------------------------------------------------------------
(* Two crossing merges, each of which means to delete the row the other one *)
(* merges into, never delete both: while no list is deleted the contact     *)
(* stays in one, unless a row was merged into itself (see ContactKeepsARow).*)
CrossingMovesKeepOne ==
    openLists = Lists /\ ~ownMerge => \E r \in LeadRows : Exists(r)

(* A move loses nobody: "a contact already in B is merged (never            *)
(* duplicated): B's row keeps the stronger state".                          *)
ContactKeepsARow ==
    openLists = Lists => \E r \in LeadRows : Exists(r)
=============================================================================
