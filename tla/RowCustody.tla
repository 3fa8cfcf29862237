----------------------------- MODULE RowCustody -----------------------------
(***************************************************************************)
(* What the dial queue promises about who works on what.  A row is kept by *)
(* one agent at a time and an agent keeps one row.  Agents talk: one call  *)
(* per agent, one per person.  Who dialed a row owes its documentation,    *)
(* and from then on until that is given no agent can ask for the row; who  *)
(* had asked before may still get it.                                      *)
(***************************************************************************)
CONSTANTS Agents, Contacts, Rows, ContactOf, None

VARIABLES
    keeper,   \* the agent each row is assigned to
    asked,    \* the row each agent has asked for
    owed,     \* <<agent, row>>: the agent has a call on the row to document
    talking   \* <<agent, contact>>: the agent is in a call with the contact

vars == <<keeper, asked, owed, talking>>

Init ==
    /\ keeper = [r \in Rows |-> None]
    /\ asked = [a \in Agents |-> None]
    /\ owed = {}
    /\ talking = {}

\* The rows R are nobody's any more.
Left(R) == keeper' = [r \in Rows |-> IF r \in R THEN None ELSE keeper[r]]

KeepsNothing(a) == \A r \in Rows : keeper[r] # a

Ask(a, r) ==
    /\ asked[a] = None /\ asked'[a] = r
    /\ KeepsNothing(a)
    /\ \A b \in Agents : <<b, r>> \notin owed
    /\ asked' = [asked EXCEPT ![a] = r]
    /\ UNCHANGED <<keeper, owed, talking>>

TalksOn(a, r) == <<a, r>> \in owed /\ \E p \in Contacts : <<a, p>> \in talking

\* A row may be taken over from another agent, but not while he talks on it.
Take(a, r) ==
    /\ asked[a] = r
    /\ KeepsNothing(a)
    /\ ~TalksOn(keeper[r], r)
    /\ keeper' = [keeper EXCEPT ![r] = a]
    /\ asked' = [asked EXCEPT ![a] = None]
    /\ UNCHANGED <<owed, talking>>

GiveUp(a) ==
    /\ asked' = [asked EXCEPT ![a] = None]
    /\ UNCHANGED <<keeper, owed, talking>>

Idle(a, p) ==
    /\ asked[a] = None
    /\ \A q \in Rows : <<a, q>> \notin owed
    /\ \A q \in Contacts : <<a, q>> \notin talking
    /\ \A b \in Agents : <<b, p>> \notin talking

Dial(a, r) ==
    /\ keeper[r] = a
    /\ Idle(a, ContactOf[r])
    /\ owed' = owed \cup {<<a, r>>}
    /\ talking' = talking \cup {<<a, ContactOf[r]>>}
    /\ UNCHANGED <<keeper, asked>>

DialManually(a, p) ==
    /\ Idle(a, p)
    /\ talking' = talking \cup {<<a, p>>}
    /\ UNCHANGED <<keeper, asked, owed>>

HangUp(a, p) ==
    /\ <<a, p>> \in talking
    /\ talking' = talking \ {<<a, p>>}
    /\ UNCHANGED <<keeper, asked, owed>>

\* Documented by its agent, after the call; other rows may be left with it.
Document(a, r, R) ==
    /\ <<a, r>> \in owed
    /\ \A p \in Contacts : <<a, p>> \notin talking
    /\ owed' = owed \ {<<a, r>>}
    /\ Left(R)
    /\ UNCHANGED <<asked, talking>>

CustodyNext ==
    \/ UNCHANGED <<asked, owed, talking>> /\ \E R \in SUBSET Rows : Left(R)
    \/ \E a \in Agents :
        \/ GiveUp(a)
        \/ \E r \in Rows : Ask(a, r) \/ Take(a, r) \/ Dial(a, r)
        \/ \E p \in Contacts : DialManually(a, p) \/ HangUp(a, p)
        \/ \E r \in Rows, R \in SUBSET Rows : Document(a, r, R)

CustodySpec == Init /\ [][CustodyNext]_vars
=============================================================================
