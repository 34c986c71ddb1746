--------------------------- MODULE DesktopControl ---------------------------
(***************************************************************************)
(* The server side of Luna desktop control                                 *)
(* (apps/api/app/services/desktop_control_service.py): commands queued for *)
(* one desktop shell, the approval grants that authorise them, the signed  *)
(* envelope and its single-use nonce, the claim lease, and Stop.           *)
(*                                                                         *)
(* Every request handler runs in a database transaction of its own at READ *)
(* COMMITTED.  A handler that reads a row, computes, and writes later is   *)
(* split at that point: the read is one action, the conditional UPDATEs    *)
(* and the commit are another, and any transaction may commit in between.  *)
(* A row lock taken by an UPDATE is held to the commit, so evaluating the  *)
(* WHERE clauses at the commit gives what the code gets.                   *)
(*                                                                         *)
(* All rows belong to one tenant, session, shell and device: every query   *)
(* filters on the four, so the rows of two of them never meet.             *)
(***************************************************************************)
EXTENDS Integers, FiniteSets

CONSTANTS
    Commands,       \* ids of desktop_commands rows; an id stands for its request nonce too
    Grants,         \* ids of desktop_command_approval_grants rows
    Workers,        \* API threads serving claim and completion requests
    NoCommand,      \* null in a column that holds a command id
    NoGrant,        \* null in a column that holds a grant id
    Kind,           \* the kind of action each command asks for
    SigningReady,   \* the kinds the envelope signing configuration can sign
    PendingTtl,     \* DEFAULT_COMMAND_PENDING_TTL_SECONDS
    Leases,         \* the lease_seconds a claim may ask for
    GrantLives,     \* the expires_in_seconds of a grant
    Budgets,        \* the max_actions of a grant
    LastEnqueue,    \* bound: no command is enqueued after this time
    MaxClock        \* bound: the clock stops here

\* "observe" reads the screen, "native" actuates, "dry_run" is the background dry run.
Kinds == {"observe", "native", "dry_run"}

ASSUME ConstantsAssumption ==
    /\ IsFiniteSet(Commands)
    /\ NoCommand \notin Commands
    /\ NoGrant \notin Grants
    /\ "free" \notin Workers
    /\ Kind \in [Commands -> Kinds]
    /\ SigningReady \subseteq Kinds
    /\ PendingTtl \in Nat \ {0}
    /\ Leases \subseteq Nat \ {0}
    /\ GrantLives \subseteq Nat \ {0}
    /\ Budgets \subseteq Nat \ {0}
    /\ LastEnqueue \in Nat
    /\ MaxClock \in Nat

\* "observe" is also the master switch.
KindsInUse == {"observe"} \cup {Kind[c] : c \in Commands}

VARIABLES
    status, created, lease, approval,   \* columns of desktop_commands, by command
    envelope,       \* the approval_id signed into the command's envelope, by command
    nonce,          \* status of the envelope's nonce row, by command
    grantStatus, remaining,             \* columns of the grant rows, by grant
    terms,          \* what a grant was given for: kind, bound command, budget, expiry
    enabled,        \* the kinds the tenant_features row allows
    featureLock,    \* the worker holding FOR UPDATE on that row, or "free"
    clock,          \* _utcnow()
    pc, ctx, chosen,    \* by worker: the step its transaction is at, what it has read,
                        \* and the grant it has matched
    approver,       \* the command a grant is being created for, or NoCommand
    claims          \* history: claims committed for each command

leaseVars == <<created, lease, approval, envelope>>
grantVars == <<grantStatus, remaining, terms>>
txVars == <<pc, ctx, chosen>>
vars == <<status, leaseVars, nonce, grantVars, enabled, featureLock, clock, txVars, approver, claims>>

-----------------------------------------------------------------------------
(* Rows *)

ShellOutcomes == {"succeeded", "failed", "denied", "preempted"}
Terminal == {"succeeded", "failed", "denied", "no_op", "preempted", "expired"}
\* "running" is accepted wherever "claimed" is and written by nothing.
Claimable == {"pending", "claimed"}
Statuses == {"absent"} \cup Claimable \cup Terminal     \* "absent": no row yet

Terms == [kind: Kinds, bound: Commands \cup {NoCommand}, max: Nat, expires: Nat]

\* What a request has read or was sent: the time, the command, its approval_id then, and
\* for a completion the outcome reported and whether the nonce came with it.
Ctx == [now: Nat, cmd: Commands \cup {NoCommand}, approval: Grants \cup {NoGrant},
        outcome: ShellOutcomes, hasNonce: BOOLEAN]

NoTerms == [kind |-> "observe", bound |-> NoCommand, max |-> 0, expires |-> 0]
NoCtx == [now |-> 0, cmd |-> NoCommand, approval |-> NoGrant,
          outcome |-> "failed", hasNonce |-> FALSE]

TypeOK ==
    /\ status \in [Commands -> Statuses]
    /\ created \in [Commands -> Nat]
    /\ lease \in [Commands -> Nat]
    /\ approval \in [Commands -> Grants \cup {NoGrant}]
    /\ envelope \in [Commands -> Grants \cup {NoGrant}]
    /\ nonce \in [Commands -> {"none", "issued", "consumed", "replayed"}]
    /\ grantStatus \in [Grants -> {"absent", "active", "consumed", "revoked"}]
    /\ remaining \in [Grants -> Nat]
    /\ terms \in [Grants -> Terms]
    /\ \A g \in Grants : remaining[g] <= terms[g].max
    /\ enabled \subseteq KindsInUse
    /\ featureLock \in Workers \cup {"free"}
    /\ clock \in Nat
    /\ pc \in [Workers -> {"idle", "picked", "gated", "matched", "completing"}]
    /\ ctx \in [Workers -> Ctx]
    /\ chosen \in [Workers -> Grants \cup {NoGrant}]
    /\ approver \in Commands \cup {NoCommand}
    /\ claims \in [Commands -> Nat]

Init ==
    /\ status = [c \in Commands |-> "absent"]
    /\ created = [c \in Commands |-> 0]
    /\ lease = [c \in Commands |-> 0]
    /\ approval = [c \in Commands |-> NoGrant]
    /\ envelope = [c \in Commands |-> NoGrant]
    /\ nonce = [c \in Commands |-> "none"]
    /\ grantStatus = [g \in Grants |-> "absent"]
    /\ remaining = [g \in Grants |-> 0]
    /\ terms = [g \in Grants |-> NoTerms]
    /\ enabled = KindsInUse
    /\ featureLock = "free"
    /\ clock = 0
    /\ pc = [w \in Workers |-> "idle"]
    /\ ctx = [w \in Workers |-> NoCtx]
    /\ chosen = [w \in Workers |-> NoGrant]
    /\ approver = NoCommand
    /\ claims = [c \in Commands |-> 0]

-----------------------------------------------------------------------------
(* Helpers *)

LeaseStale(c, now) == status[c] = "claimed" /\ lease[c] <= now
PendingNeverStale(c, now) == FALSE
PendingStale(c, now) == status[c] = "pending" /\ created[c] + PendingTtl <= now

\* The statuses after _expire_stale_leases, and after both sweeps of a claim.
ExpireStaleLeases(now) ==
    [c \in Commands |-> IF LeaseStale(c, now) THEN "expired" ELSE status[c]]

Swept(now) ==
    [c \in Commands |-> IF LeaseStale(c, now) \/ PendingStale(c, now) THEN "expired" ELSE status[c]]

\* The pending rows a claim may pick: the oldest that the sweep leaves pending.
\* Rows created within one tick of the clock may be picked in either order.
OldestPending(now) ==
    LET live == {c \in Commands : status[c] = "pending" /\ ~PendingStale(c, now)}
    IN  {c \in live : \A d \in live : created[c] <= created[d]}

Usable(g, now) == grantStatus[g] = "active" /\ remaining[g] > 0 /\ terms[g].expires > now

FitsCommandLoosely(g, c) == terms[g].bound \in {c, NoCommand}
FitsCommand(g, c) == terms[g].kind = Kind[c] /\ terms[g].bound \in {c, NoCommand}

\* The grants _matching_approval_grant may return for c, whose approval_id was read as a.
\* DESC puts nulls first: an unbound grant is taken before a bound one.
MatchingApprovalGrants(c, a, now) ==
    LET fit == {g \in Grants : /\ Usable(g, now)
                               /\ FitsCommand(g, c)
                               /\ a # NoGrant => g = a}
        unbound == {g \in fit : terms[g].bound = NoCommand}
    IN  IF unbound # {} THEN unbound ELSE fit

\* No approval_id and no grant was ever bound to c: the command keeps waiting.
AwaitsApproval(c, a) ==
    a = NoGrant /\ \A g \in Grants : grantStatus[g] # "absent" => terms[g].bound # c

\* The WHERE clauses every write to a command row repeats.
StillOpen(c) == status[c] \in Claimable
StillThere(c) == status[c] # "absent"
StillPending(c) == status[c] = "pending"
StillClaimed(c) == status[c] = "claimed"

BeginTx(w, step, data) ==
    /\ pc' = [pc EXCEPT ![w] = step]
    /\ ctx' = [ctx EXCEPT ![w] = data]
    /\ UNCHANGED chosen

EndTx(w) ==
    /\ pc' = [pc EXCEPT ![w] = "idle"]
    /\ ctx' = [ctx EXCEPT ![w] = NoCtx]
    /\ chosen' = [chosen EXCEPT ![w] = NoGrant]

ReadUnlocked(w) == UNCHANGED featureLock
Lock(w) == featureLock' = w
Unlock(w) == featureLock' = IF featureLock = w THEN "free" ELSE featureLock

\* A commit that also moves c, if WHERE status = 'pending' still holds; otherwise a
\* rollback, which undoes the sweeps as well.
MovePendingTo(c, outcome, now) ==
    status' = IF StillPending(c) THEN [Swept(now) EXCEPT ![c] = outcome] ELSE status

-----------------------------------------------------------------------------
(* Queueing and approval *)

EnqueueDesktopCommand(c, a) ==
    /\ clock <= LastEnqueue
    /\ status[c] = "absent"
    /\ Kind[c] \in enabled
    /\ a # NoGrant => grantStatus[a] # "absent"
    /\ status' = [status EXCEPT ![c] = "pending"]
    /\ created' = [created EXCEPT ![c] = clock]
    /\ approval' = [approval EXCEPT ![c] = a]
    /\ UNCHANGED <<lease, envelope, nonce, grantVars, enabled, featureLock, clock, txVars,
                   approver, claims>>

CreateGrant(g, k, c, n, life) ==
    /\ grantStatus[g] = "absent"
    /\ grantStatus' = [grantStatus EXCEPT ![g] = "active"]
    /\ remaining' = [remaining EXCEPT ![g] = n]
    /\ terms' = [terms EXCEPT ![g] = [kind |-> k, bound |-> c, max |-> n, expires |-> clock + life]]

\* A grant that is not bound to a command: the operator's, or the one approving a request.
CreateUnboundGrant(g, k, n, life) ==
    /\ "observe" \in enabled
    /\ CreateGrant(g, k, NoCommand, n, life)
    /\ UNCHANGED <<status, leaseVars, nonce, enabled, featureLock, clock, txVars, approver, claims>>

\* A grant for one command starts by reading that the command is not terminal ...
ReadCommandForGrant(c) ==
    /\ approver = NoCommand
    /\ "observe" \in enabled
    /\ status[c] \in Claimable
    /\ approver' = c
    /\ UNCHANGED <<status, leaseVars, nonce, grantVars, enabled, featureLock, clock, txVars, claims>>

\* ... and writes later.  approval_id is written whatever the status is by then; the
\* unique index on active bound grants refuses a second one.
CreateBoundGrant(g, n, life) ==
    /\ approver # NoCommand
    /\ approver' = NoCommand
    /\ IF \E h \in Grants : grantStatus[h] = "active" /\ terms[h].bound = approver
       THEN UNCHANGED <<grantVars, approval>>
       ELSE /\ CreateGrant(g, Kind[approver], approver, n, life)
            /\ approval' = [approval EXCEPT ![approver] = g]
    /\ UNCHANGED <<status, created, lease, envelope, nonce, enabled, featureLock, clock, txVars, claims>>

\* An operator rewrites the feature row; the write waits for a claim's row lock.
SetEnabled(kinds) ==
    /\ featureLock = "free"
    /\ kinds # {} => "observe" \in kinds
    /\ kinds # enabled
    /\ enabled' = kinds
    /\ UNCHANGED <<status, leaseVars, nonce, grantVars, featureLock, clock, txVars, approver, claims>>

-----------------------------------------------------------------------------
(* claim_next_desktop_command *)

\* Nothing to claim: only the sweeps are committed.
ClaimNothing(w) ==
    /\ pc[w] = "idle"
    /\ OldestPending(clock) = {}
    /\ status' = Swept(clock)
    /\ UNCHANGED <<leaseVars, nonce, grantVars, enabled, featureLock, clock, txVars, approver, claims>>

ClaimPick(w) ==
    /\ pc[w] = "idle"
    /\ \E c \in OldestPending(clock) :
         BeginTx(w, "picked", [now |-> clock, cmd |-> c, approval |-> approval[c],
                               outcome |-> "failed", hasNonce |-> FALSE])
    /\ UNCHANGED <<status, leaseVars, nonce, grantVars, enabled, featureLock, clock, approver, claims>>

\* The feature row is locked and read.  A kind that is off, or that cannot be signed, is
\* denied; a dry run completes at once; anything else goes on under the lock.
ClaimGate(w) ==
    LET c == ctx[w].cmd
        now == ctx[w].now
        allowed == Kind[c] \in enabled
    IN
    /\ pc[w] = "picked"
    /\ featureLock = "free"
    /\ \/ /\ ~allowed \/ (Kind[c] # "dry_run" /\ Kind[c] \notin SigningReady)
          /\ MovePendingTo(c, "denied", now)
          /\ EndTx(w)
          /\ UNCHANGED <<featureLock, claims>>
       \/ /\ allowed /\ Kind[c] = "dry_run"
          /\ MovePendingTo(c, "no_op", now)
          /\ claims' = IF StillPending(c) THEN [claims EXCEPT ![c] = @ + 1] ELSE claims
          /\ EndTx(w)
          /\ UNCHANGED featureLock
       \/ /\ allowed /\ Kind[c] \in SigningReady \ {"dry_run"}
          /\ Lock(w)
          /\ pc' = [pc EXCEPT ![w] = "gated"]
          /\ UNCHANGED <<status, ctx, chosen, claims>>
    /\ UNCHANGED <<leaseVars, nonce, grantVars, enabled, clock, approver>>

\* A grant is read; without one the command waits or is denied.
ClaimMatch(w) ==
    LET c == ctx[w].cmd
        now == ctx[w].now
        found == MatchingApprovalGrants(c, ctx[w].approval, now)
    IN
    /\ pc[w] = "gated"
    /\ \/ /\ \E g \in found : chosen' = [chosen EXCEPT ![w] = g]
          /\ pc' = [pc EXCEPT ![w] = "matched"]
          /\ UNCHANGED <<status, featureLock, ctx>>
       \/ /\ found = {} /\ AwaitsApproval(c, ctx[w].approval)
          /\ status' = Swept(now)
          /\ EndTx(w) /\ Unlock(w)
       \/ /\ found = {} /\ ~AwaitsApproval(c, ctx[w].approval)
          /\ MovePendingTo(c, "denied", now)
          /\ EndTx(w) /\ Unlock(w)
    /\ UNCHANGED <<leaseVars, nonce, grantVars, enabled, clock, approver, claims>>

\* The compare-and-swap on the grant row repeats what the read checked.
ConsumableFor(g, c, now) == Usable(g, now) /\ FitsCommand(g, c)

ConsumeButLeaveActive(g) ==
    /\ remaining' = [remaining EXCEPT ![g] = @ - 1]
    /\ UNCHANGED <<grantStatus, terms>>
Consume(g) ==
    /\ remaining' = [remaining EXCEPT ![g] = @ - 1]
    /\ grantStatus' = [grantStatus EXCEPT ![g] = IF remaining[g] <= 1 THEN "consumed" ELSE @]
    /\ UNCHANGED terms

\* A claim that lost its command gives the grant back by rolling back.
SpendOnConflict(g) == Consume(g)
RollbackClaim(g) == UNCHANGED grantVars

\* Consume the grant, issue the envelope and its nonce, lease the command: one commit.
ClaimCommit(w) ==
    LET c == ctx[w].cmd
        g == chosen[w]
        now == ctx[w].now
    IN
    /\ pc[w] = "matched"
    /\ \/ /\ ConsumableFor(g, c, now) /\ StillPending(c)
          /\ Consume(g)
          /\ MovePendingTo(c, "claimed", now)
          /\ \E seconds \in Leases : lease' = [lease EXCEPT ![c] = now + seconds]
          /\ approval' = [approval EXCEPT ![c] = g]
          /\ envelope' = [envelope EXCEPT ![c] = g]
          /\ nonce' = [nonce EXCEPT ![c] = "issued"]
          /\ claims' = [claims EXCEPT ![c] = @ + 1]
       \/ /\ ConsumableFor(g, c, now) /\ ~StillPending(c)    \* 409: claimed by another
          /\ RollbackClaim(g)
          /\ UNCHANGED <<status, lease, approval, envelope, nonce, claims>>
       \/ /\ ~ConsumableFor(g, c, now)                       \* the grant went away
          /\ MovePendingTo(c, "denied", now)
          /\ UNCHANGED <<lease, approval, envelope, nonce, grantVars, claims>>
    /\ EndTx(w) /\ Unlock(w)
    /\ UNCHANGED <<created, enabled, clock, approver>>

-----------------------------------------------------------------------------
(* complete_desktop_command *)

\* A shell reports on a command it was given, with the envelope's nonce or (an older
\* shell) without.  A terminal command is answered from the row and nothing is written.
CompleteRead(w, c, outcome, hasNonce) ==
    /\ pc[w] = "idle"
    /\ status[c] = "claimed"
    /\ BeginTx(w, "completing", [now |-> clock, cmd |-> c, approval |-> approval[c],
                                 outcome |-> outcome, hasNonce |-> hasNonce])
    /\ UNCHANGED <<status, leaseVars, nonce, grantVars, enabled, featureLock, clock, approver, claims>>

\* UPDATE ... WHERE status IN ('claimed', 'running'), or 409 and a rollback.
DenyCommandForEnvelopeFailure(c, nonceStatus) ==
    /\ status' = IF StillClaimed(c) THEN [status EXCEPT ![c] = "denied"] ELSE status
    /\ nonce' = IF StillClaimed(c) THEN [nonce EXCEPT ![c] = nonceStatus] ELSE nonce

\* A completion that lost its lease gives the nonce back by rolling back.
BurnNonceOnConflict(c) == nonce' = [nonce EXCEPT ![c] = "consumed"]
RollbackCompletion(c) == UNCHANGED nonce

\* The nonce came with the report, and the signed approval_id is the one the row had.
EnvelopeBinds(w) == ctx[w].hasNonce /\ envelope[ctx[w].cmd] = ctx[w].approval

\* The handler takes its time now after the read.  An expired lease is written without
\* looking at the row again; every other outcome is a compare-and-swap.
CompleteCommit(w) ==
    LET c == ctx[w].cmd
        fresh == nonce[c] = "issued"
    IN
    /\ pc[w] = "completing"
    /\ \E now \in ctx[w].now .. clock :
         \/ /\ lease[c] <= now
            /\ status' = [status EXCEPT ![c] = "expired"]
            /\ UNCHANGED nonce
         \/ /\ lease[c] > now /\ ~EnvelopeBinds(w)
            /\ DenyCommandForEnvelopeFailure(c, nonce[c])
         \/ /\ lease[c] > now /\ EnvelopeBinds(w) /\ ~fresh
            /\ DenyCommandForEnvelopeFailure(c, "replayed")
         \/ /\ lease[c] > now /\ EnvelopeBinds(w) /\ fresh /\ StillClaimed(c)
            /\ status' = [status EXCEPT ![c] = ctx[w].outcome]
            /\ nonce' = [nonce EXCEPT ![c] = "consumed"]
         \/ /\ lease[c] > now /\ EnvelopeBinds(w) /\ fresh /\ ~StillClaimed(c)
            /\ RollbackCompletion(c)
            /\ UNCHANGED status
    /\ EndTx(w)
    /\ UNCHANGED <<leaseVars, grantVars, enabled, featureLock, clock, approver, claims>>

-----------------------------------------------------------------------------
(* preempt_desktop_commands_for_stop *)

PreemptDesktopCommandsForStop ==
    LET swept == ExpireStaleLeases(clock)
    IN
    /\ status' = [c \in Commands |-> IF swept[c] \in Claimable THEN "preempted" ELSE swept[c]]
    /\ grantStatus' = [g \in Grants |-> IF grantStatus[g] = "active" THEN "revoked"
                                        ELSE grantStatus[g]]
    /\ UNCHANGED <<leaseVars, nonce, remaining, terms, enabled, featureLock, clock, txVars,
                   approver, claims>>

Tick ==
    /\ clock < MaxClock
    /\ clock' = clock + 1
    /\ UNCHANGED <<status, leaseVars, nonce, grantVars, enabled, featureLock, txVars, approver, claims>>

-----------------------------------------------------------------------------

Claim(w) == ClaimNothing(w) \/ ClaimPick(w) \/ ClaimGate(w) \/ ClaimMatch(w) \/ ClaimCommit(w)

Complete(w) ==
    \/ \E c \in Commands, o \in ShellOutcomes, n \in BOOLEAN : CompleteRead(w, c, o, n)
    \/ CompleteCommit(w)

Approve ==
    \/ \E g \in Grants, n \in Budgets, life \in GrantLives :
         \/ \E k \in KindsInUse \ {"dry_run"} : CreateUnboundGrant(g, k, n, life)
         \/ CreateBoundGrant(g, n, life)
    \/ \E c \in Commands : ReadCommandForGrant(c)

Next ==
    \/ \E c \in Commands, a \in Grants \cup {NoGrant} : EnqueueDesktopCommand(c, a)
    \/ Approve
    \/ \E kinds \in SUBSET KindsInUse : SetEnabled(kinds)
    \/ \E w \in Workers : Claim(w) \/ Complete(w)
    \/ PreemptDesktopCommandsForStop
    \/ Tick

Spec == Init /\ [][Next]_vars

-----------------------------------------------------------------------------
(* Properties *)

\* A command is leased to a shell at most once in its life, whatever the number of workers
\* that read it as pending; with one signed envelope per claim it actuates at most once.
LeasedOnce == \A c \in Commands : claims[c] <= 1

\* The budget of a grant and the envelopes signed under it agree: an action is spent
\* exactly when an envelope is issued, also when a claim is rolled back after spending it.
GrantLedger ==
    \A g \in Grants :
        terms[g].max - remaining[g]
            = Cardinality({c \in Commands : envelope[c] = g})

\* The grant an envelope names was given for that kind of action, and for that command or
\* for none in particular; the approval_id a command was queued with may name any grant.
EnvelopeFitsApproval ==
    \A c \in Commands, g \in Grants : envelope[c] = g =>
        /\ terms[g].kind = Kind[c] /\ terms[g].bound \in {c, NoCommand}
        /\ Kind[c] \in SigningReady

\* An envelope nonce is burnt in the same commit that closes a claimed command with the
\* result the shell reported: a completion that loses its command to Stop or to the sweep
\* leaves no burnt nonce behind, and no result is stored without burning one.
NonceBurntWithResult ==
    [][\A c \in Commands :
           LET burnt == nonce[c] # "consumed" /\ nonce'[c] = "consumed"
               closed == status[c] = "claimed" /\ status'[c] \in ShellOutcomes
           IN  /\ burnt => closed
               /\ status'[c] \in {"succeeded", "failed"} => burnt \/ status'[c] = status[c]]_vars

\* Stop is never overtaken by a success, nor any outcome by another: once a command is
\* terminal, only the label "expired" may replace its status.
OutcomeOnlyExpires ==
    [][\A c \in Commands : status[c] \in Terminal
           => status'[c] \in {status[c], "expired"}]_vars

\* A revoked or exhausted grant never authorises anything again, though a claim may have
\* read it as active before Stop revoked it.
DeadGrantStaysDead ==
    [][\A g \in Grants : grantStatus[g] \in {"consumed", "revoked"}
           => grantStatus'[g] = grantStatus[g] /\ remaining'[g] = remaining[g]]_vars

\* No envelope is signed for a kind of action the tenant has switched off by then: the
\* switch may be flipped at any moment after the command was enqueued.
NoEnvelopeWhileDisabled ==
    [][\A c \in Commands : envelope'[c] # envelope[c]
           => Kind[c] \in enabled]_vars

-----------------------------------------------------------------------------
(* The inductive invariant *)

\* A running transaction works on a row that exists; from the feature check to its commit
\* it holds the row lock, so what it checked there still holds.
TxInv ==
    \A w \in Workers :
        /\ pc[w] # "idle" => /\ ctx[w].cmd \in Commands
                                /\ status[ctx[w].cmd] # "absent"
        /\ pc[w] = "completing" => status[ctx[w].cmd] # "pending"
        /\ pc[w] \in {"gated", "matched"} =>
               /\ featureLock = w
               /\ Kind[ctx[w].cmd] \in enabled
               /\ Kind[ctx[w].cmd] \in SigningReady \ {"dry_run"}
        /\ pc[w] = "matched" => chosen[w] \in Grants

\* A grant is created for a command that exists.
ApproverInv == approver # NoCommand => status[approver] # "absent"

\* Before its claim a command has neither an envelope nor a nonce; a grant that does not
\* exist yet authorises nothing; an active grant has something left to spend.
RowInv ==
    /\ \A c \in Commands : status[c] \in {"absent", "pending"} =>
           claims[c] = 0 /\ envelope[c] = NoGrant /\ nonce[c] = "none"
    /\ \A g \in Grants : grantStatus[g] = "absent" =>
           \A c \in Commands : envelope[c] # g
    /\ \A g \in Grants : grantStatus[g] = "active" => remaining[g] > 0

IInv ==
    /\ TypeOK
    /\ TxInv
    /\ ApproverInv
    /\ RowInv
    /\ LeasedOnce
    /\ EnvelopeFitsApproval
    /\ GrantLedger

\* Contract: "Status transitions use compare-and-swap semantics"; a terminal status is
\* never replaced.  The expiry branch of complete_desktop_command breaks it.
TerminalIsFinal ==
    [][\A c \in Commands : status[c] \in Terminal
           => status'[c] = status[c]]_vars

\* Contract: completion verifies the immutable signed envelope, so work that was authorised
\* is not recorded as denied because mutable state changed during the lease: a report that
\* carries the nonce is denied only when the shell itself says so.
AuthorisedWorkNotDenied ==
    [][\A w \in Workers :
           (/\ pc[w] = "completing" /\ pc'[w] = "idle"
            /\ ctx[w].hasNonce /\ ctx[w].outcome # "denied"
            /\ status[ctx[w].cmd] = "claimed")
           => status'[ctx[w].cmd] # "denied"]_vars

\* Shells poll for work every two seconds and every handler ends; time passes.
Fairness ==
    /\ WF_vars(Tick)
    /\ \A w \in Workers : WF_vars(Claim(w)) /\ WF_vars(CompleteCommit(w))

FairSpec == Spec /\ Fairness

\* No command stays open for ever: not one whose shell died holding the lease, not one
\* waiting for an approval that never comes, not one queued behind such a command.
QueueDrains ==
    \A c \in Commands : status[c] \in Claimable ~> status[c] \in Terminal

-----------------------------------------------------------------------------
(* The abstract specification this one implements *)

Phase(s) ==
    CASE s = "absent"  -> "none"
      [] s = "pending" -> "queued"
      [] s = "claimed" -> "leased"
      [] OTHER         -> "closed"

Authority == INSTANCE DesktopAuthority WITH
    phase     <- [c \in Commands |-> Phase(status[c])],
    authority <- envelope,
    budget    <- remaining,
    live      <- {g \in Grants : grantStatus[g] = "active"}

\* Seen as queue, lease and budget, every interleaving of the transactions is a run of
\* the atomic service.
ImplementsAuthority == Authority!ASpec
=============================================================================
