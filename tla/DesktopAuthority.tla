-------------------------- MODULE DesktopAuthority --------------------------
(***************************************************************************)
(* What the desktop control service promises, with every request one       *)
(* atomic step and no clock: a command is queued, is leased at most once   *)
(* under one approval whose budget it spends, and is closed for good.      *)
(* DesktopControl implements it.                                           *)
(***************************************************************************)
EXTENDS Naturals

CONSTANTS Commands, Grants, NoGrant,
          Budgets     \* the budgets an approval may carry

VARIABLES
    phase,      \* [Commands -> "none", "queued", "leased" or "closed"]
    authority,  \* [Commands -> the grant its envelope was signed under, or NoGrant]
    budget,     \* [Grants -> actions the grant may still authorise]
    live        \* the grants that may authorise an action

avars == <<phase, authority, budget, live>>

ATypeOK ==
    /\ phase \in [Commands -> {"none", "queued", "leased", "closed"}]
    /\ authority \in [Commands -> Grants \cup {NoGrant}]
    /\ budget \in [Grants -> Nat]
    /\ live \subseteq Grants

AInit ==
    /\ phase = [c \in Commands |-> "none"]
    /\ authority = [c \in Commands |-> NoGrant]
    /\ budget = [g \in Grants |-> 0]
    /\ live = {}

Queue(c) ==
    /\ phase[c] = "none"
    /\ phase' = [phase EXCEPT ![c] = "queued"]
    /\ UNCHANGED <<authority, budget, live>>

Approve(g, n) ==
    /\ g \notin live /\ n > 0
    /\ \A c \in Commands : authority[c] # g
    /\ live' = live \cup {g}
    /\ budget' = [budget EXCEPT ![g] = n]
    /\ UNCHANGED <<phase, authority>>

\* Open commands may be closed by any request, several at a time.
Closing(S) == [c \in Commands |-> IF c \in S THEN "closed" ELSE phase[c]]
Open == {c \in Commands : phase[c] \in {"queued", "leased"}}

Close(S, R) ==
    /\ S \subseteq Open /\ R \subseteq live
    /\ phase' = Closing(S)
    /\ live' = live \ R
    /\ UNCHANGED <<authority, budget>>

\* A claim spends one action of a live grant and leases a queued command.
Authorise(c, g, S) ==
    /\ phase[c] = "queued" /\ g \in live /\ budget[g] > 0
    /\ S \subseteq Open \ {c}
    /\ phase' = [Closing(S) EXCEPT ![c] = "leased"]
    /\ authority' = [authority EXCEPT ![c] = g]
    /\ budget' = [budget EXCEPT ![g] = @ - 1]
    /\ live' = IF budget[g] = 1 THEN live \ {g} ELSE live

ANext ==
    \/ \E c \in Commands : Queue(c)
    \/ \E g \in Grants, n \in Budgets : Approve(g, n)
    \/ \E S \in SUBSET Commands, R \in SUBSET Grants : Close(S, R)
    \/ \E c \in Commands, g \in Grants, S \in SUBSET Commands : Authorise(c, g, S)

ASpec == AInit /\ [][ANext]_avars
=============================================================================
