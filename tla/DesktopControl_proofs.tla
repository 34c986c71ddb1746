----------------------- MODULE DesktopControl_proofs -----------------------
(* Theorems about DesktopControl, for every value of its constants. *)
EXTENDS DesktopControl, FiniteSetTheorems, TLAPS

-----------------------------------------------------------------------------
(* Type correctness *)

\* A sweep keeps every status a status, and moves open rows only, to "expired".
LEMMA SweptFacts ==
    ASSUME TypeOK, NEW now \in Nat
    PROVE  /\ Swept(now) \in [Commands -> Statuses]
           /\ ExpireStaleLeases(now) \in [Commands -> Statuses]
           /\ \A c \in Commands :
                 /\ Swept(now)[c] # status[c] => status[c] \in Claimable /\ Swept(now)[c] = "expired"
                 /\ ExpireStaleLeases(now)[c] # status[c]
                        => status[c] = "claimed" /\ ExpireStaleLeases(now)[c] = "expired"
BY DEF TypeOK, Swept, ExpireStaleLeases, Statuses, Terminal, Claimable, LeaseStale, PendingStale

\* What a commit that moves a pending row does to the statuses.
LEMMA MovePendingFacts ==
    ASSUME TypeOK, NEW now \in Nat, NEW c,
           NEW outcome \in Statuses, MovePendingTo(c, outcome, now)
    PROVE  /\ status' \in [Commands -> Statuses]
           /\ c \in Commands /\ StillPending(c) => status'[c] = outcome
           /\ \A d \in Commands : status'[d] # status[d] =>
                  status[d] \in Claimable /\ status'[d] \in {"expired", outcome}
           /\ \A d \in Commands \ {c} : status'[d] # status[d] =>
                  status[d] \in Claimable /\ status'[d] = "expired"
<1>1. CASE StillPending(c)
    <2>1. PICK swept : swept = Swept(now)
        OBVIOUS
    <2>2. /\ swept \in [Commands -> Statuses]
          /\ \A d \in Commands :
                 swept[d] # status[d] => status[d] \in Claimable /\ swept[d] = "expired"
        BY <2>1, SweptFacts
    <2>3. status' = [swept EXCEPT ![c] = outcome]
        BY <1>1, <2>1 DEF MovePendingTo
    <2>4. status[c] \in Claimable
        BY <1>1 DEF StillPending, Claimable
    <2> QED
        BY <2>2, <2>3, <2>4
<1>2. CASE ~StillPending(c)
    BY <1>2 DEF MovePendingTo, TypeOK
<1> QED
    BY <1>1, <1>2

\* Every action keeps the types.
LEMMA TypeStep == TypeOK /\ [Next]_vars => TypeOK'
<1> SUFFICES ASSUME TypeOK, [Next]_vars PROVE TypeOK'
    OBVIOUS
<1> USE ConstantsAssumption DEF TypeOK, leaseVars, grantVars, txVars
<1>1. ASSUME NEW c \in Commands, NEW a \in Grants \cup {NoGrant}, EnqueueDesktopCommand(c, a)
      PROVE  TypeOK'
    BY <1>1 DEF EnqueueDesktopCommand, Statuses, Claimable
<1>2. ASSUME NEW g \in Grants, NEW n \in Budgets, NEW life \in GrantLives,
             NEW k \in KindsInUse \ {"dry_run"}, CreateUnboundGrant(g, k, n, life)
      PROVE  TypeOK'
    BY <1>2 DEF CreateUnboundGrant, CreateGrant, Terms, KindsInUse, Kinds
<1>3. ASSUME NEW g \in Grants, NEW n \in Budgets, NEW life \in GrantLives, CreateBoundGrant(g, n, life)
      PROVE  TypeOK'
    <2>1. approver \in Commands /\ Kind[approver] \in Kinds
        BY <1>3 DEF CreateBoundGrant
    <2>2. CASE UNCHANGED <<grantVars, approval>>
        BY <1>3, <2>2 DEF CreateBoundGrant
    <2>3. CASE CreateGrant(g, Kind[approver], approver, n, life) /\ approval' = [approval EXCEPT ![approver] = g]
        BY <1>3, <2>1, <2>3 DEF CreateBoundGrant, CreateGrant, Terms
    <2> QED
        BY <1>3, <2>2, <2>3 DEF CreateBoundGrant
<1>4. ASSUME NEW c \in Commands, ReadCommandForGrant(c) PROVE TypeOK'
    BY <1>4 DEF ReadCommandForGrant
<1>5. ASSUME NEW kinds \in SUBSET KindsInUse, SetEnabled(kinds) PROVE TypeOK'
    BY <1>5 DEF SetEnabled
<1>6. ASSUME NEW w \in Workers, ClaimNothing(w) PROVE TypeOK'
    BY <1>6, SweptFacts DEF ClaimNothing
<1>7. ASSUME NEW w \in Workers, ClaimPick(w) PROVE TypeOK'
    BY <1>7 DEF ClaimPick, BeginTx, Ctx, OldestPending, ShellOutcomes
<1>8. ASSUME NEW w \in Workers, ClaimGate(w) PROVE TypeOK'
    <2> DEFINE c == ctx[w].cmd
               now == ctx[w].now
    <2>1. now \in Nat /\ NoCtx \in Ctx
        BY DEF Ctx, NoCtx, ShellOutcomes
    <2>2. CASE MovePendingTo(c, "denied", now) /\ EndTx(w) /\ UNCHANGED <<featureLock, claims>>
        BY <1>8, <2>1, <2>2, MovePendingFacts DEF ClaimGate, EndTx, Statuses, Terminal
    <2>3. CASE /\ MovePendingTo(c, "no_op", now) /\ EndTx(w) /\ UNCHANGED featureLock
               /\ claims' = IF StillPending(c) THEN [claims EXCEPT ![c] = @ + 1] ELSE claims
        <3>1. claims' \in [Commands -> Nat]
            <4>1. CASE c \in Commands
                BY <2>3, <4>1
            <4>2. CASE c \notin Commands
                BY <2>3, <4>2
            <4> QED
                BY <4>1, <4>2
        <3> QED
            BY <1>8, <2>1, <2>3, <3>1, MovePendingFacts DEF ClaimGate, EndTx, Statuses, Terminal
    <2>4. CASE Lock(w) /\ pc' = [pc EXCEPT ![w] = "gated"] /\ UNCHANGED <<status, ctx, chosen, claims>>
        BY <1>8, <2>4 DEF ClaimGate, Lock
    <2> QED
        BY <1>8, <2>2, <2>3, <2>4 DEF ClaimGate
<1>9. ASSUME NEW w \in Workers, ClaimMatch(w) PROVE TypeOK'
    <2> DEFINE c == ctx[w].cmd
               now == ctx[w].now
               found == MatchingApprovalGrants(c, ctx[w].approval, now)
    <2>1. now \in Nat /\ NoCtx \in Ctx
        BY DEF Ctx, NoCtx, ShellOutcomes
    <2>2. CASE /\ \E g \in found : chosen' = [chosen EXCEPT ![w] = g]
               /\ pc' = [pc EXCEPT ![w] = "matched"]
               /\ UNCHANGED <<status, featureLock, ctx>>
        <3>1. found \subseteq Grants
            BY DEF MatchingApprovalGrants
        <3> QED
            BY <1>9, <2>2, <3>1 DEF ClaimMatch
    <2>3. CASE (status' = Swept(now) \/ MovePendingTo(c, "denied", now)) /\ EndTx(w) /\ Unlock(w)
        <3>1. status' \in [Commands -> Statuses]
            BY <2>1, <2>3, SweptFacts, MovePendingFacts DEF Statuses, Terminal
        <3> QED
            BY <1>9, <2>1, <2>3, <3>1 DEF ClaimMatch, EndTx, Unlock
    <2> QED
        BY <1>9, <2>2, <2>3 DEF ClaimMatch
<1>10. ASSUME NEW w \in Workers, ClaimCommit(w) PROVE TypeOK'
    <2> DEFINE c == ctx[w].cmd
               g == chosen[w]
               now == ctx[w].now
    <2>1. now \in Nat /\ NoCtx \in Ctx
        BY DEF Ctx, NoCtx, ShellOutcomes
    <2>2. /\ pc' \in [Workers -> {"idle", "picked", "gated", "matched", "completing"}]
          /\ ctx' \in [Workers -> Ctx] /\ chosen' \in [Workers -> Grants \cup {NoGrant}]
          /\ featureLock' \in Workers \cup {"free"}
        BY <1>10, <2>1 DEF ClaimCommit, EndTx, Unlock
    <2>3. status' \in [Commands -> Statuses]
        BY <1>10, <2>1, MovePendingFacts DEF ClaimCommit, Statuses, Terminal, Claimable
    <2>4. lease' \in [Commands -> Nat]
        BY <1>10, <2>1 DEF ClaimCommit
    <2>5. /\ approval' \in [Commands -> Grants \cup {NoGrant}]
          /\ envelope' \in [Commands -> Grants \cup {NoGrant}]
          /\ nonce' \in [Commands -> {"none", "issued", "consumed", "replayed"}]
          /\ claims' \in [Commands -> Nat]
        BY <1>10 DEF ClaimCommit
    <2>6. CASE Usable(g, now) /\ Consume(g)
        <3>1. CASE g \in Grants
            <4>1. remaining[g] \in Nat \ {0} /\ remaining' \in [Grants -> Nat]
                BY <2>6, <3>1 DEF Usable, Consume
            <4>2. grantStatus' \in [Grants -> {"absent", "active", "consumed", "revoked"}]
                BY <2>6, <3>1 DEF Consume
            <4>3. \A h \in Grants : remaining'[h] <= terms'[h].max
                BY <2>6, <3>1, <4>1 DEF Consume, Terms
            <4> QED
                BY <1>10, <2>2, <2>3, <2>4, <2>5, <2>6, <4>1, <4>2, <4>3 DEF ClaimCommit, Consume
        <3>2. CASE g \notin Grants
            <4>1. UNCHANGED grantVars
                BY <2>6, <3>2 DEF Consume
            <4> QED
                BY <1>10, <2>2, <2>3, <2>4, <2>5, <4>1 DEF ClaimCommit
        <3> QED
            BY <3>1, <3>2
    <2>7. CASE UNCHANGED grantVars
        BY <1>10, <2>2, <2>3, <2>4, <2>5, <2>7 DEF ClaimCommit
    <2> QED
        BY <1>10, <2>6, <2>7 DEF ClaimCommit, RollbackClaim, ConsumableFor
<1>11. ASSUME NEW w \in Workers, NEW c \in Commands, NEW o \in ShellOutcomes, NEW n \in BOOLEAN,
              CompleteRead(w, c, o, n)
       PROVE  TypeOK'
    BY <1>11 DEF CompleteRead, BeginTx, Ctx
<1>12. ASSUME NEW w \in Workers, CompleteCommit(w) PROVE TypeOK'
    <2> DEFINE c == ctx[w].cmd
    <2>1. NoCtx \in Ctx /\ ctx[w].outcome \in Statuses /\ {"expired", "denied"} \subseteq Statuses
        BY DEF NoCtx, Ctx, ShellOutcomes, Statuses, Terminal
    <2>2. status' \in [Commands -> Statuses]
        <3>1. \/ status' = status
              \/ \E s \in Statuses : status' = [status EXCEPT ![c] = s]
            BY <1>12, <2>1 DEF CompleteCommit, DenyCommandForEnvelopeFailure
        <3> QED
            BY <3>1
    <2>3. nonce' \in [Commands -> {"none", "issued", "consumed", "replayed"}]
        <3>1. \/ nonce' = nonce
              \/ nonce' = [nonce EXCEPT ![c] = nonce[c]]
              \/ nonce' = [nonce EXCEPT ![c] = "replayed"]
              \/ nonce' = [nonce EXCEPT ![c] = "consumed"]
            BY <1>12 DEF CompleteCommit, DenyCommandForEnvelopeFailure, RollbackCompletion
        <3> QED
            BY <3>1
    <2>4. /\ pc' \in [Workers -> {"idle", "picked", "gated", "matched", "completing"}]
          /\ ctx' \in [Workers -> Ctx] /\ chosen' \in [Workers -> Grants \cup {NoGrant}]
        BY <1>12, <2>1 DEF CompleteCommit, EndTx
    <2> QED
        BY <1>12, <2>2, <2>3, <2>4 DEF CompleteCommit
<1>13. ASSUME PreemptDesktopCommandsForStop PROVE TypeOK'
    BY <1>13, SweptFacts DEF PreemptDesktopCommandsForStop, Statuses, Terminal, Claimable
<1>14. ASSUME Tick PROVE TypeOK'
    BY <1>14 DEF Tick
<1>15. CASE UNCHANGED vars
    BY <1>15 DEF vars
<1> QED
    BY <1>1, <1>2, <1>3, <1>4, <1>5, <1>6, <1>7, <1>8, <1>9, <1>10, <1>11, <1>12, <1>13,
       <1>14, <1>15 DEF Next, Approve, Claim, Complete

-----------------------------------------------------------------------------
(* What a step does to the statuses, and to the grants and envelopes *)

\* A command never goes back: not to absent, and not to pending once it has left it.
Forward ==
    \A c \in Commands :
        /\ status[c] = "absent" => status'[c] \in {"absent", "pending"}
        /\ status[c] # "absent" => status'[c] # "absent"
        /\ status[c] \notin {"absent", "pending"} => status'[c] \notin {"absent", "pending"}

LEMMA StatusStep == TypeOK /\ TxInv /\ [Next]_vars => Forward
<1> SUFFICES ASSUME TypeOK, TxInv, [Next]_vars PROVE Forward
    OBVIOUS
<1> USE DEF Forward, Claimable
<1>1. ASSUME NEW now \in Nat, status' = Swept(now) PROVE Forward
    BY <1>1, SweptFacts
<1>2. ASSUME NEW now \in Nat, NEW c, NEW outcome \in {"denied", "no_op", "claimed"},
             MovePendingTo(c, outcome, now)
      PROVE  Forward
    BY <1>2, MovePendingFacts DEF Statuses, Terminal
<1>3. ASSUME NEW c \in Commands, NEW a \in Grants \cup {NoGrant}, EnqueueDesktopCommand(c, a)
      PROVE  Forward
    BY <1>3 DEF EnqueueDesktopCommand, TypeOK
<1>4. ASSUME NEW w \in Workers, Claim(w) PROVE Forward
    <2>1. ctx[w].now \in Nat /\ clock \in Nat
        BY DEF TypeOK, Ctx
    <2>2. CASE ClaimNothing(w)
        BY <1>1, <2>1, <2>2 DEF ClaimNothing
    <2>3. CASE ClaimPick(w)
        BY <2>3 DEF ClaimPick
    <2>4. CASE ClaimGate(w)
        BY <1>2, <2>1, <2>4 DEF ClaimGate
    <2>5. CASE ClaimMatch(w)
        BY <1>1, <1>2, <2>1, <2>5 DEF ClaimMatch
    <2>6. CASE ClaimCommit(w)
        BY <1>2, <2>1, <2>6 DEF ClaimCommit
    <2> QED
        BY <1>4, <2>2, <2>3, <2>4, <2>5, <2>6 DEF Claim
<1>5. ASSUME NEW w \in Workers, CompleteCommit(w) PROVE Forward
    <2>1. ctx[w].cmd \in Commands /\ status[ctx[w].cmd] \notin {"absent", "pending"}
        BY <1>5 DEF CompleteCommit, TxInv
    <2>2. ctx[w].outcome \in ShellOutcomes
        BY DEF TypeOK, Ctx
    <2> QED
        BY <1>5, <2>1, <2>2 DEF CompleteCommit, DenyCommandForEnvelopeFailure, TypeOK, ShellOutcomes
<1>6. CASE PreemptDesktopCommandsForStop
    BY <1>6, SweptFacts DEF PreemptDesktopCommandsForStop, TypeOK
<1>7. CASE UNCHANGED status
    BY <1>7
<1> QED
    BY <1>3, <1>4, <1>5, <1>6, <1>7 DEF Next, Approve, Complete, CreateUnboundGrant, CreateBoundGrant,
       ReadCommandForGrant, SetEnabled, CompleteRead, Tick, vars

\* Nothing is granted, spent or issued.
Quiet == UNCHANGED <<claims, envelope, grantVars>>

\* A dry run is claimed without a grant and without an envelope.
DryRunStep(c) ==
    /\ status[c] = "pending" /\ status'[c] = "no_op"
    /\ claims' = [claims EXCEPT ![c] = @ + 1]
    /\ UNCHANGED <<envelope, grantVars>>

\* An envelope is issued for c under g.
IssueStep(c, g) ==
    /\ status[c] = "pending" /\ status'[c] = "claimed"
    /\ grantStatus[g] = "active" /\ remaining[g] > 0 /\ FitsCommand(g, c)
    /\ Kind[c] \in enabled /\ Kind[c] \in SigningReady \ {"dry_run"}
    /\ Consume(g)
    /\ envelope' = [envelope EXCEPT ![c] = g]
    /\ claims' = [claims EXCEPT ![c] = @ + 1]

\* A grant is created.
GrantStep(g, k, c, n, life) ==
    CreateGrant(g, k, c, n, life) /\ UNCHANGED <<status, claims, envelope>>

\* Stop revokes the active grants.
RevokeStep ==
    /\ grantStatus' = [g \in Grants |-> IF grantStatus[g] = "active" THEN "revoked" ELSE grantStatus[g]]
    /\ UNCHANGED <<claims, envelope, remaining, terms>>

Effect ==
    \/ Quiet
    \/ \E c \in Commands : DryRunStep(c)
    \/ \E c \in Commands, g \in Grants : IssueStep(c, g)
    \/ \E g \in Grants, k \in Kinds, c \in Commands \cup {NoCommand}, n \in Budgets, life \in GrantLives :
           GrantStep(g, k, c, n, life)
    \/ RevokeStep

LEMMA EffectStep == TypeOK /\ TxInv /\ [Next]_vars => Effect
<1> SUFFICES ASSUME TypeOK, TxInv, [Next]_vars PROVE Effect
    OBVIOUS
<1> USE DEF leaseVars
<1>1. ASSUME NEW g \in Grants, NEW n \in Budgets, NEW life \in GrantLives,
             \/ \E k \in KindsInUse \ {"dry_run"} : CreateUnboundGrant(g, k, n, life)
             \/ CreateBoundGrant(g, n, life)
      PROVE  Effect
    <2>1. ASSUME NEW k \in KindsInUse \ {"dry_run"}, CreateUnboundGrant(g, k, n, life)
          PROVE  Effect
        BY <2>1, ConstantsAssumption DEF Effect, GrantStep, CreateUnboundGrant, KindsInUse, Kinds
    <2>2. ASSUME CreateBoundGrant(g, n, life) PROVE Effect
        <3>1. approver \in Commands /\ Kind[approver] \in Kinds
            BY <2>2, ConstantsAssumption DEF CreateBoundGrant, TypeOK
        <3>2. CASE UNCHANGED grantVars
            BY <2>2, <3>2 DEF CreateBoundGrant, Effect, Quiet
        <3>3. CASE CreateGrant(g, Kind[approver], approver, n, life)
            BY <2>2, <3>1, <3>3 DEF CreateBoundGrant, Effect, GrantStep
        <3> QED
            BY <2>2, <3>2, <3>3 DEF CreateBoundGrant
    <2> QED
        BY <1>1, <2>1, <2>2
<1>2. ASSUME NEW w \in Workers, ClaimGate(w) PROVE Effect
    <2>1. ctx[w].cmd \in Commands /\ ctx[w].now \in Nat
        BY <1>2 DEF ClaimGate, TxInv, TypeOK, Ctx
    <2>2. CASE claims' = claims
        BY <1>2, <2>2 DEF ClaimGate, Effect, Quiet
    <2>3. CASE claims' # claims
        <3>1. /\ StillPending(ctx[w].cmd)
              /\ MovePendingTo(ctx[w].cmd, "no_op", ctx[w].now)
              /\ claims' = [claims EXCEPT ![ctx[w].cmd] = @ + 1]
              /\ UNCHANGED <<envelope, grantVars>>
            BY <1>2, <2>3 DEF ClaimGate
        <3>2. DryRunStep(ctx[w].cmd)
            BY <2>1, <3>1, MovePendingFacts DEF DryRunStep, StillPending, Statuses, Terminal
        <3> QED
            BY <2>1, <3>2 DEF Effect
    <2> QED
        BY <2>2, <2>3
<1>3. ASSUME NEW w \in Workers, ClaimCommit(w) PROVE Effect
    <2>1. /\ ctx[w].cmd \in Commands /\ ctx[w].now \in Nat /\ chosen[w] \in Grants
          /\ Kind[ctx[w].cmd] \in enabled /\ Kind[ctx[w].cmd] \in SigningReady \ {"dry_run"}
        BY <1>3 DEF ClaimCommit, TxInv, TypeOK, Ctx
    <2>2. CASE UNCHANGED <<envelope, claims, grantVars>>
        BY <2>2 DEF Effect, Quiet
    <2>3. CASE /\ ConsumableFor(chosen[w], ctx[w].cmd, ctx[w].now) /\ StillPending(ctx[w].cmd)
               /\ Consume(chosen[w])
               /\ MovePendingTo(ctx[w].cmd, "claimed", ctx[w].now)
               /\ envelope' = [envelope EXCEPT ![ctx[w].cmd] = chosen[w]]
               /\ claims' = [claims EXCEPT ![ctx[w].cmd] = @ + 1]
        <3>1. status'[ctx[w].cmd] = "claimed"
            BY <2>1, <2>3, MovePendingFacts DEF Statuses, Claimable
        <3>2. IssueStep(ctx[w].cmd, chosen[w])
            BY <2>1, <2>3, <3>1 DEF IssueStep, ConsumableFor, Usable, StillPending
        <3> QED
            BY <2>1, <3>2 DEF Effect
    <2> QED
        BY <1>3, <2>2, <2>3 DEF ClaimCommit, RollbackClaim
<1>4. CASE PreemptDesktopCommandsForStop
    BY <1>4 DEF PreemptDesktopCommandsForStop, Effect, RevokeStep
<1>5. CASE Quiet
    BY <1>5 DEF Effect
<1> QED
    BY <1>1, <1>2, <1>3, <1>4, <1>5 DEF Next, Approve, Claim, Complete, EnqueueDesktopCommand,
       ReadCommandForGrant, SetEnabled, ClaimNothing, ClaimPick, ClaimMatch, CompleteRead,
       CompleteCommit, Tick, Quiet, vars

-----------------------------------------------------------------------------
(* The inductive invariant *)

LEMMA TxStep == TypeOK /\ TxInv /\ [Next]_vars => TxInv'
<1> SUFFICES ASSUME TypeOK, TxInv, [Next]_vars, NEW v \in Workers
             PROVE  /\ pc'[v] # "idle" => /\ ctx'[v].cmd \in Commands
                                          /\ status'[ctx'[v].cmd] # "absent"
                    /\ pc'[v] = "completing" => status'[ctx'[v].cmd] # "pending"
                    /\ pc'[v] \in {"gated", "matched"} =>
                           /\ featureLock' = v
                           /\ Kind[ctx'[v].cmd] \in enabled'
                           /\ Kind[ctx'[v].cmd] \in SigningReady \ {"dry_run"}
                    /\ pc'[v] = "matched" => chosen'[v] \in Grants
    BY DEF TxInv
<1>1. Forward
    BY StatusStep
<1> USE DEF TypeOK, TxInv, Forward, txVars
<1>2. CASE UNCHANGED <<pc[v], ctx[v], chosen[v], featureLock, enabled>>
    BY <1>1, <1>2
<1>3. CASE \E kinds \in SUBSET KindsInUse : SetEnabled(kinds)
    BY <1>1, <1>3, ConstantsAssumption DEF SetEnabled
<1>4. ASSUME NEW w \in Workers, w # v, Claim(w) \/ Complete(w)
      PROVE  /\ UNCHANGED <<pc[v], ctx[v], chosen[v], enabled>>
             /\ featureLock = v => featureLock' = v
    <2>1. CASE ClaimNothing(w) \/ ClaimPick(w) \/ \E c \in Commands, o \in ShellOutcomes, n \in BOOLEAN : CompleteRead(w, c, o, n)
        BY <1>4, <2>1 DEF ClaimNothing, ClaimPick, CompleteRead, BeginTx
    <2>2. CASE ClaimGate(w)
        BY <1>4, <2>2, ConstantsAssumption DEF ClaimGate, EndTx, Lock
    <2>3. CASE ClaimMatch(w) \/ ClaimCommit(w)
        BY <1>4, <2>3 DEF ClaimMatch, ClaimCommit, EndTx, Unlock
    <2>4. CASE CompleteCommit(w)
        BY <1>4, <2>4 DEF CompleteCommit, EndTx
    <2> QED
        BY <1>4, <2>1, <2>2, <2>3, <2>4 DEF Claim, Complete
<1>5. ASSUME NEW w \in Workers, w # v, Claim(w) \/ Complete(w)
      PROVE  /\ pc'[v] # "idle" => ctx'[v].cmd \in Commands /\ status'[ctx'[v].cmd] # "absent"
             /\ pc'[v] = "completing" => status'[ctx'[v].cmd] # "pending"
             /\ pc'[v] \in {"gated", "matched"} =>
                    /\ featureLock' = v
                    /\ Kind[ctx'[v].cmd] \in enabled'
                    /\ Kind[ctx'[v].cmd] \in SigningReady \ {"dry_run"}
             /\ pc'[v] = "matched" => chosen'[v] \in Grants
    BY <1>1, <1>4, <1>5
<1>6. CASE pc'[v] = "idle"
    BY <1>6
<1>7. CASE ClaimPick(v)
    <2>1. PICK c \in Commands : /\ status[c] = "pending"
                                /\ pc' = [pc EXCEPT ![v] = "picked"]
                                /\ ctx'[v].cmd = c
        BY <1>7 DEF ClaimPick, OldestPending, BeginTx
    <2> QED
        BY <1>1, <2>1
<1>8. CASE ClaimGate(v)
    <2>1. CASE pc'[v] = "gated" /\ UNCHANGED <<ctx, status>> /\ featureLock' = v /\ enabled' = enabled
               /\ Kind[ctx[v].cmd] \in enabled /\ Kind[ctx[v].cmd] \in SigningReady \ {"dry_run"}
        BY <1>8, <2>1 DEF ClaimGate
    <2>2. CASE EndTx(v)
        BY <1>6, <2>2 DEF EndTx
    <2> QED
        BY <1>8, <2>1, <2>2 DEF ClaimGate, Lock
<1>9. CASE ClaimMatch(v)
    <2>1. CASE /\ \E g \in MatchingApprovalGrants(ctx[v].cmd, ctx[v].approval, ctx[v].now) :
                      chosen' = [chosen EXCEPT ![v] = g]
               /\ pc' = [pc EXCEPT ![v] = "matched"]
               /\ UNCHANGED <<status, featureLock, ctx, enabled>>
        <3>1. chosen'[v] \in Grants
            BY <2>1 DEF MatchingApprovalGrants
        <3> QED
            BY <1>9, <2>1, <3>1 DEF ClaimMatch
    <2>2. CASE EndTx(v)
        BY <1>6, <2>2 DEF EndTx
    <2> QED
        BY <1>9, <2>1, <2>2 DEF ClaimMatch
<1>10. CASE \E c \in Commands, o \in ShellOutcomes, n \in BOOLEAN : CompleteRead(v, c, o, n)
    <2>1. PICK c \in Commands : /\ status[c] = "claimed" /\ status' = status
                                /\ pc' = [pc EXCEPT ![v] = "completing"]
                                /\ ctx'[v].cmd = c
        BY <1>10 DEF CompleteRead, BeginTx
    <2> QED
        BY <2>1
<1>11. CASE ClaimNothing(v)
    BY <1>2, <1>11 DEF ClaimNothing
<1>12. CASE ClaimCommit(v) \/ CompleteCommit(v)
    BY <1>6, <1>12 DEF ClaimCommit, CompleteCommit, EndTx
<1>13. CASE UNCHANGED <<txVars, featureLock, enabled>>
    BY <1>2, <1>13
<1>14. ASSUME NEW w \in Workers, Claim(w) \/ Complete(w)
       PROVE  w # v \/ pc'[v] = "idle" \/ ClaimPick(v) \/ ClaimGate(v) \/ ClaimMatch(v) \/ ClaimNothing(v)
              \/ ClaimCommit(v) \/ CompleteCommit(v)
              \/ \E c \in Commands, o \in ShellOutcomes, n \in BOOLEAN : CompleteRead(v, c, o, n)
    BY <1>14 DEF Claim, Complete
<1> QED
    BY <1>3, <1>5, <1>6, <1>7, <1>8, <1>9, <1>10, <1>11, <1>12, <1>13, <1>14
       DEF Next, Approve, EnqueueDesktopCommand, CreateUnboundGrant, CreateBoundGrant,
           ReadCommandForGrant, PreemptDesktopCommandsForStop, Tick, vars

LEMMA ApproverStep == TypeOK /\ TxInv /\ ApproverInv /\ [Next]_vars => ApproverInv'
<1> SUFFICES ASSUME TypeOK, TxInv, ApproverInv, [Next]_vars PROVE ApproverInv'
    OBVIOUS
<1> USE DEF ApproverInv
<1>1. Forward /\ approver \in Commands \cup {NoCommand}
    BY StatusStep DEF TypeOK
<1>2. CASE approver' = NoCommand
    BY <1>2
<1>3. CASE approver' = approver
    BY <1>1, <1>3 DEF Forward
<1>4. ASSUME NEW c \in Commands, ReadCommandForGrant(c) PROVE ApproverInv'
    BY <1>4 DEF ReadCommandForGrant, Claimable
<1> QED
    BY <1>2, <1>3, <1>4 DEF Next, Approve, Claim, Complete, EnqueueDesktopCommand, CreateUnboundGrant,
       CreateBoundGrant, SetEnabled, ClaimNothing, ClaimPick, ClaimGate, ClaimMatch, ClaimCommit,
       CompleteRead, CompleteCommit, PreemptDesktopCommandsForStop, Tick, vars

\* The nonce row of a command is written only once the command has left the queue.
LEMMA NonceStep ==
    TypeOK /\ TxInv /\ [Next]_vars =>
        \A c \in Commands : nonce'[c] # nonce[c] => status'[c] \notin {"absent", "pending"}
<1> SUFFICES ASSUME TypeOK, TxInv, [Next]_vars, NEW c \in Commands, nonce'[c] # nonce[c]
             PROVE  status'[c] \notin {"absent", "pending"}
    OBVIOUS
<1> USE DEF TypeOK
<1>1. Forward
    BY StatusStep
<1>2. ASSUME NEW w \in Workers, ClaimCommit(w) PROVE status'[c] \notin {"absent", "pending"}
    <2>1. ctx[w].now \in Nat /\ ctx[w].cmd = c /\ StillPending(c) /\ MovePendingTo(c, "claimed", ctx[w].now)
        BY <1>2 DEF ClaimCommit, Ctx
    <2> QED
        BY <2>1, MovePendingFacts DEF Statuses, Claimable
<1>3. ASSUME NEW w \in Workers, CompleteCommit(w) PROVE status'[c] \notin {"absent", "pending"}
    <2>1. /\ ctx[w].cmd \in Commands /\ status[ctx[w].cmd] \notin {"absent", "pending"}
          /\ \E s : nonce' = [nonce EXCEPT ![ctx[w].cmd] = s]
        BY <1>3 DEF CompleteCommit, DenyCommandForEnvelopeFailure, RollbackCompletion, TxInv
    <2>2. ctx[w].cmd = c
        BY <2>1
    <2> QED
        BY <1>1, <2>1, <2>2 DEF Forward
<1> QED
    BY <1>2, <1>3 DEF Next, Approve, Claim, Complete, EnqueueDesktopCommand, CreateUnboundGrant,
       CreateBoundGrant, ReadCommandForGrant, SetEnabled, ClaimNothing, ClaimPick, ClaimGate,
       ClaimMatch, CompleteRead, PreemptDesktopCommandsForStop, Tick, vars

\* The commands whose envelope names g.
Issued(g) == {c \in Commands : envelope[c] = g}

\* The ledger and the rows, by the effect a step has on them.
LEMMA LedgerStep == IInv /\ [Next]_vars => RowInv' /\ LeasedOnce' /\ EnvelopeFitsApproval' /\ GrantLedger'
<1> SUFFICES ASSUME IInv, [Next]_vars
             PROVE  RowInv' /\ LeasedOnce' /\ EnvelopeFitsApproval' /\ GrantLedger'
    OBVIOUS
<1> USE ConstantsAssumption DEF IInv
<1>1. Forward /\ Effect
    BY StatusStep, EffectStep
<1>2. \A c \in Commands : nonce'[c] # nonce[c] => status'[c] \notin {"absent", "pending"}
    BY NonceStep
<1>3. TypeOK'
    BY TypeStep
<1>4. CASE Quiet
    <2>1. RowInv'
        BY <1>1, <1>2, <1>4 DEF RowInv, Quiet, Forward, TypeOK, grantVars, Statuses, Claimable, Terminal
    <2>2. LeasedOnce' /\ EnvelopeFitsApproval' /\ GrantLedger'
        BY <1>4 DEF Quiet, LeasedOnce, EnvelopeFitsApproval, GrantLedger, grantVars
    <2> QED
        BY <2>1, <2>2
<1>5. ASSUME NEW c \in Commands, DryRunStep(c)
      PROVE  RowInv' /\ LeasedOnce' /\ EnvelopeFitsApproval' /\ GrantLedger'
    <2>1. RowInv'
        BY <1>1, <1>2, <1>5 DEF RowInv, DryRunStep, Forward, TypeOK, grantVars, Statuses, Claimable, Terminal
    <2>2. LeasedOnce'
        BY <1>5 DEF DryRunStep, LeasedOnce, RowInv, TypeOK
    <2>3. EnvelopeFitsApproval' /\ GrantLedger'
        BY <1>5 DEF DryRunStep, EnvelopeFitsApproval, GrantLedger, grantVars
    <2> QED
        BY <2>1, <2>2, <2>3
<1>6. ASSUME NEW c \in Commands, NEW g \in Grants, IssueStep(c, g)
      PROVE  RowInv' /\ LeasedOnce' /\ EnvelopeFitsApproval' /\ GrantLedger'
    <2>1. claims[c] = 0 /\ envelope[c] = NoGrant /\ remaining[g] \in Nat \ {0} /\ terms' = terms
        BY <1>6 DEF IssueStep, RowInv, TypeOK, Consume
    <2>2. RowInv'
        <3>1. \A d \in Commands : status'[d] \in {"absent", "pending"} =>
                  claims'[d] = 0 /\ envelope'[d] = NoGrant /\ nonce'[d] = "none"
            BY <1>1, <1>2, <1>6 DEF IssueStep, RowInv, Forward, TypeOK, Statuses, Claimable, Terminal
        <3>2. \A h \in Grants : grantStatus'[h] = "absent" => \A d \in Commands : envelope'[d] # h
            BY <1>6 DEF IssueStep, Consume, RowInv, TypeOK
        <3>3. \A h \in Grants : grantStatus'[h] = "active" => remaining'[h] > 0
            BY <1>6, <2>1 DEF IssueStep, Consume, RowInv, TypeOK
        <3> QED
            BY <3>1, <3>2, <3>3 DEF RowInv
    <2>3. LeasedOnce'
        BY <1>6, <2>1 DEF IssueStep, LeasedOnce, TypeOK
    <2>4. EnvelopeFitsApproval'
        BY <1>6, <2>1 DEF IssueStep, EnvelopeFitsApproval, FitsCommand, TypeOK
    <2>5. GrantLedger'
        <3> SUFFICES ASSUME NEW h \in Grants
                     PROVE  terms'[h].max - remaining'[h] = Cardinality(Issued(h)')
            BY DEF GrantLedger, Issued
        <3>1. terms[h].max - remaining[h] = Cardinality(Issued(h))
            BY DEF GrantLedger, Issued
        <3>2. CASE h = g
            <4>1. Issued(g)' = Issued(g) \cup {c} /\ c \notin Issued(g)
                BY <1>6, <2>1 DEF Issued, IssueStep, TypeOK
            <4>2. IsFiniteSet(Issued(g))
                BY FS_Subset DEF Issued
            <4>3. Cardinality(Issued(g)') = Cardinality(Issued(g)) + 1 /\ Cardinality(Issued(g)) \in Nat
                BY <4>1, <4>2, FS_AddElement, FS_CardinalityType
            <4>4. remaining'[g] = remaining[g] - 1 /\ terms[g].max \in Nat
                BY <1>6 DEF IssueStep, Consume, TypeOK, Terms
            <4> QED
                BY <2>1, <3>1, <3>2, <4>3, <4>4
        <3>3. CASE h # g
            <4>1. Issued(h)' = Issued(h) /\ remaining'[h] = remaining[h]
                BY <1>6, <2>1, <3>3 DEF Issued, IssueStep, Consume, TypeOK
            <4> QED
                BY <2>1, <3>1, <4>1
        <3> QED
            BY <3>2, <3>3
    <2> QED
        BY <2>2, <2>3, <2>4, <2>5
<1>7. ASSUME NEW g \in Grants, NEW k \in Kinds, NEW c \in Commands \cup {NoCommand},
             NEW n \in Budgets, NEW life \in GrantLives, GrantStep(g, k, c, n, life)
      PROVE  RowInv' /\ LeasedOnce' /\ EnvelopeFitsApproval' /\ GrantLedger'
    <2> USE <1>7 DEF GrantStep, CreateGrant
    <2>1. n \in Nat \ {0} /\ \A d \in Commands : envelope[d] # g
        BY DEF RowInv
    <2>2. RowInv'
        BY <1>1, <1>2, <2>1 DEF RowInv, Forward, TypeOK, Statuses, Claimable, Terminal
    <2>3. LeasedOnce' /\ EnvelopeFitsApproval'
        BY <2>1 DEF LeasedOnce, EnvelopeFitsApproval, TypeOK
    <2>4. GrantLedger'
        <3> SUFFICES ASSUME NEW h \in Grants
                     PROVE  terms'[h].max - remaining'[h] = Cardinality(Issued(h)')
            BY DEF GrantLedger, Issued
        <3>1. Issued(h)' = Issued(h) /\ terms[h].max - remaining[h] = Cardinality(Issued(h))
            BY DEF GrantLedger, Issued
        <3>2. CASE h = g
            <4>1. Issued(g) = {} /\ Cardinality({}) = 0
                BY <2>1, FS_EmptySet DEF Issued
            <4>2. terms'[g].max = n /\ remaining'[g] = n
                BY DEF TypeOK
            <4> QED
                BY <2>1, <3>1, <3>2, <4>1, <4>2
        <3>3. CASE h # g
            BY <3>1, <3>3 DEF TypeOK
        <3> QED
            BY <3>2, <3>3
    <2> QED
        BY <2>2, <2>3, <2>4
<1>8. CASE RevokeStep
    <2>1. RowInv'
        BY <1>1, <1>2, <1>8 DEF RowInv, RevokeStep, Forward, TypeOK, Statuses, Claimable, Terminal
    <2>2. LeasedOnce' /\ EnvelopeFitsApproval' /\ GrantLedger'
        BY <1>8 DEF RevokeStep, LeasedOnce, EnvelopeFitsApproval, GrantLedger
    <2> QED
        BY <2>1, <2>2
<1> QED
    BY <1>1, <1>4, <1>5, <1>6, <1>7, <1>8 DEF Effect

LEMMA InitIInv == Init => IInv
<1> SUFFICES ASSUME Init PROVE IInv
    OBVIOUS
<1> USE ConstantsAssumption DEF Init
<1>1. TypeOK
    BY DEF TypeOK, Statuses, Terms, NoTerms, Kinds, Ctx, NoCtx, ShellOutcomes
<1>2. TxInv /\ ApproverInv /\ RowInv /\ LeasedOnce
    BY DEF TxInv, ApproverInv, RowInv, LeasedOnce
<1>3. EnvelopeFitsApproval
    BY DEF EnvelopeFitsApproval
<1>4. GrantLedger
    <2> SUFFICES ASSUME NEW g \in Grants
                 PROVE  terms[g].max - remaining[g] = Cardinality(Issued(g))
        BY DEF GrantLedger, Issued
    <2>1. Issued(g) = {} /\ Cardinality({}) = 0
        BY FS_EmptySet DEF Issued
    <2> QED
        BY <2>1 DEF NoTerms
<1> QED
    BY <1>1, <1>2, <1>3, <1>4 DEF IInv

\* IInv is inductive: every transaction, interleaved anyhow with the others, keeps it.
THEOREM Invariance == Spec => []IInv
<1>1. IInv /\ [Next]_vars => IInv'
    <2> SUFFICES ASSUME IInv, [Next]_vars PROVE IInv'
        OBVIOUS
    <2>1. TypeOK' /\ TxInv' /\ ApproverInv'
        BY TypeStep, TxStep, ApproverStep DEF IInv
    <2> QED
        BY <2>1, LedgerStep DEF IInv
<1> QED
    BY <1>1, InitIInv, PTL DEF Spec

\* Type correctness.
THEOREM TypeCorrect == Spec => []TypeOK
BY Invariance, PTL DEF IInv

\* A command is leased at most once, for any number of workers, commands and grants.
THEOREM NeverLeasedTwice == Spec => []LeasedOnce
BY Invariance, PTL DEF IInv

\* What is spent of a grant is the number of envelopes signed under it.
THEOREM LedgerBalances == Spec => []GrantLedger
BY Invariance, PTL DEF IInv

\* An envelope is only ever signed under a grant given for that kind and that command.
THEOREM EnvelopesFit == Spec => []EnvelopeFitsApproval
BY Invariance, PTL DEF IInv

-----------------------------------------------------------------------------
(* Action properties *)

\* A command moves by an UPDATE that found it open, or is relabelled "expired".
Settles(d) ==
    \/ status'[d] = status[d]
    \/ status[d] \in Claimable /\ status'[d] \in Terminal
    \/ status[d] \in Terminal /\ status'[d] = "expired"

Leased(d) == status[d] = "pending" /\ status'[d] = "claimed" /\ envelope'[d] # envelope[d]

Enqueued == \E c \in Commands, a \in Grants \cup {NoGrant} : EnqueueDesktopCommand(c, a)

LEMMA SettleStep ==
    TypeOK /\ TxInv /\ RowInv /\ [Next]_vars => Enqueued \/ \A d \in Commands : Settles(d) \/ Leased(d)
<1> SUFFICES ASSUME TypeOK, TxInv, RowInv, [Next]_vars, ~Enqueued, NEW d \in Commands
             PROVE  Settles(d) \/ Leased(d)
    OBVIOUS
<1> USE DEF Settles
<1>1. ASSUME NEW now \in Nat, status' = Swept(now) PROVE Settles(d)
    BY <1>1, SweptFacts DEF Terminal
<1>2. ASSUME NEW now \in Nat, NEW c, NEW outcome \in {"denied", "no_op"}, MovePendingTo(c, outcome, now)
      PROVE  Settles(d)
    BY <1>2, MovePendingFacts DEF Terminal, Statuses
<1>3. ASSUME NEW w \in Workers, Claim(w) PROVE Settles(d) \/ Leased(d)
    <2>1. ctx[w].now \in Nat /\ clock \in Nat
        BY DEF TypeOK, Ctx
    <2>2. CASE ClaimNothing(w) \/ ClaimPick(w) \/ ClaimGate(w) \/ ClaimMatch(w)
        BY <1>1, <1>2, <2>1, <2>2 DEF ClaimNothing, ClaimPick, ClaimGate, ClaimMatch
    <2>3. CASE ClaimCommit(w)
        <3>1. chosen[w] \in Grants /\ ctx[w].cmd \in Commands
            BY <2>3 DEF ClaimCommit, TxInv
        <3>2. CASE MovePendingTo(ctx[w].cmd, "denied", ctx[w].now) \/ UNCHANGED status
            BY <1>2, <2>1, <3>2
        <3>3. CASE /\ MovePendingTo(ctx[w].cmd, "claimed", ctx[w].now) /\ StillPending(ctx[w].cmd)
                   /\ envelope' = [envelope EXCEPT ![ctx[w].cmd] = chosen[w]]
            <4>1. CASE d = ctx[w].cmd
                <5>1. status[d] = "pending" /\ status'[d] = "claimed"
                    BY <2>1, <3>1, <3>3, <4>1, MovePendingFacts DEF Statuses, Claimable, StillPending
                <5>2. envelope[d] = NoGrant /\ envelope'[d] = chosen[w]
                    BY <3>1, <3>3, <4>1, <5>1 DEF RowInv, TypeOK
                <5> QED
                    BY <3>1, <5>1, <5>2, ConstantsAssumption DEF Leased
            <4>2. CASE d # ctx[w].cmd
                BY <2>1, <3>3, <4>2, MovePendingFacts DEF Statuses, Claimable, Terminal
            <4> QED
                BY <4>1, <4>2
        <3> QED
            BY <2>3, <3>2, <3>3 DEF ClaimCommit
    <2> QED
        BY <1>3, <2>2, <2>3 DEF Claim
<1>4. ASSUME NEW w \in Workers, CompleteCommit(w) PROVE Settles(d)
    <2>1. ctx[w].cmd \in Commands /\ status[ctx[w].cmd] \in Claimable \cup Terminal
        BY <1>4 DEF CompleteCommit, TxInv, TypeOK, Statuses
    <2>2. ctx[w].outcome \in ShellOutcomes
        BY DEF TypeOK, Ctx
    <2> QED
        BY <1>4, <2>1, <2>2 DEF CompleteCommit, DenyCommandForEnvelopeFailure, StillClaimed, TypeOK,
           ShellOutcomes, Terminal, Claimable
<1>5. CASE PreemptDesktopCommandsForStop
    BY <1>5, SweptFacts DEF PreemptDesktopCommandsForStop, TypeOK, Claimable, Terminal
<1>6. CASE UNCHANGED status
    BY <1>6
<1> QED
    BY <1>3, <1>4, <1>5, <1>6 DEF Next, Enqueued, Approve, Complete, CreateUnboundGrant,
       CreateBoundGrant, ReadCommandForGrant, SetEnabled, CompleteRead, Tick, vars

\* Only "expired" ever replaces an outcome.
THEOREM OutcomesOnlyExpire == Spec => OutcomeOnlyExpires
<1>1. IInv /\ [Next]_vars =>
          [\A c \in Commands : status[c] \in Terminal => status'[c] \in {status[c], "expired"}]_vars
    <2> SUFFICES ASSUME IInv, [Next]_vars, NEW c \in Commands, status[c] \in Terminal
                 PROVE  status'[c] \in {status[c], "expired"}
        OBVIOUS
    <2>1. CASE Enqueued
        BY <2>1 DEF Enqueued, EnqueueDesktopCommand, IInv, TypeOK, Terminal
    <2>2. CASE Settles(c) \/ Leased(c)
        BY <2>2 DEF Settles, Leased, Terminal, Claimable
    <2> QED
        BY <2>1, <2>2, SettleStep DEF IInv
<1> QED
    BY <1>1, Invariance, PTL DEF Spec, OutcomeOnlyExpires

\* A grant that Stop revoked, or that is used up, never comes back.
THEOREM DeadGrantsStayDead == Spec => DeadGrantStaysDead
<1>1. IInv /\ [Next]_vars =>
          [\A g \in Grants : grantStatus[g] \in {"consumed", "revoked"}
              => grantStatus'[g] = grantStatus[g] /\ remaining'[g] = remaining[g]]_vars
    <2> SUFFICES ASSUME IInv, [Next]_vars, NEW g \in Grants, grantStatus[g] \in {"consumed", "revoked"}
                 PROVE  grantStatus'[g] = grantStatus[g] /\ remaining'[g] = remaining[g]
        OBVIOUS
    <2> USE DEF IInv, TypeOK
    <2>1. ASSUME NEW c \in Commands, NEW h \in Grants, IssueStep(c, h)
          PROVE  grantStatus'[g] = grantStatus[g] /\ remaining'[g] = remaining[g]
        BY <2>1 DEF IssueStep, Consume
    <2>2. CASE Quiet \/ RevokeStep \/ \E c \in Commands : DryRunStep(c)
        BY <2>2 DEF Quiet, RevokeStep, DryRunStep, grantVars
    <2>3. ASSUME NEW h \in Grants, NEW k, NEW c, NEW n, NEW life, GrantStep(h, k, c, n, life)
          PROVE  grantStatus'[g] = grantStatus[g] /\ remaining'[g] = remaining[g]
        BY <2>3 DEF GrantStep, CreateGrant
    <2> QED
        BY <2>1, <2>2, <2>3, EffectStep DEF Effect
<1> QED
    BY <1>1, Invariance, PTL DEF Spec, DeadGrantStaysDead

\* The row lock makes the feature check hold until the envelope is signed.
THEOREM DisabledKindsGetNoEnvelope == Spec => NoEnvelopeWhileDisabled
<1>1. IInv /\ [Next]_vars =>
          [\A c \in Commands : envelope'[c] # envelope[c] => Kind[c] \in enabled]_vars
    <2> SUFFICES ASSUME IInv, [Next]_vars, NEW c \in Commands, envelope'[c] # envelope[c]
                 PROVE  Kind[c] \in enabled
        OBVIOUS
    <2>1. PICK d \in Commands, g \in Grants : IssueStep(d, g)
        BY EffectStep DEF IInv, Effect, Quiet, RevokeStep, DryRunStep, GrantStep
    <2>2. d = c
        BY <2>1 DEF IssueStep, IInv, TypeOK
    <2> QED
        BY <2>1, <2>2 DEF IssueStep
<1> QED
    BY <1>1, Invariance, PTL DEF Spec, NoEnvelopeWhileDisabled

\* The nonce is burnt by the commit that stores the result, and by no other.
THEOREM NoncesBurnWithResults == Spec => NonceBurntWithResult
<1> DEFINE Burnt(c) == nonce[c] # "consumed" /\ nonce'[c] = "consumed"
           Closed(c) == status[c] = "claimed" /\ status'[c] \in ShellOutcomes
           Good(c) == /\ Burnt(c) => Closed(c)
                      /\ status'[c] \in {"succeeded", "failed"} => Burnt(c) \/ status'[c] = status[c]
<1>1. IInv /\ [Next]_vars => \A c \in Commands : Good(c)
    <2> SUFFICES ASSUME IInv, [Next]_vars, NEW c \in Commands PROVE Good(c)
        OBVIOUS
    <2> USE DEF IInv, TypeOK
    <2>1. ASSUME nonce'[c] = nonce[c], status'[c] \in {status[c], "expired", "denied", "no_op", "pending", "preempted"}
          PROVE  Good(c)
        BY <2>1
    <2>2. ASSUME NEW w \in Workers, Claim(w) PROVE Good(c)
        <3>1. ctx[w].now \in Nat /\ clock \in Nat
            BY DEF Ctx
        <3>2. ASSUME NEW now \in Nat, status' = Swept(now) PROVE status'[c] \in {status[c], "expired"}
            BY <3>2, SweptFacts
        <3>3. ASSUME NEW now \in Nat, NEW x, NEW outcome \in {"denied", "no_op", "claimed"},
                     MovePendingTo(x, outcome, now)
              PROVE  status'[c] \in {status[c], "expired", outcome}
            BY <3>3, MovePendingFacts DEF Statuses, Terminal, Claimable
        <3>4. CASE ClaimNothing(w) \/ ClaimPick(w) \/ ClaimGate(w) \/ ClaimMatch(w)
            BY <2>1, <3>1, <3>2, <3>3, <3>4 DEF ClaimNothing, ClaimPick, ClaimGate, ClaimMatch
        <3>5. CASE ClaimCommit(w)
            <4>1. status'[c] \in {status[c], "expired", "denied", "claimed"}
                BY <3>1, <3>3, <3>5 DEF ClaimCommit
            <4>2. nonce'[c] # nonce[c] => nonce'[c] = "issued"
                BY <3>5 DEF ClaimCommit
            <4> QED
                BY <4>1, <4>2
        <3> QED
            BY <2>2, <3>4, <3>5 DEF Claim
    <2>3. ASSUME NEW w \in Workers, CompleteCommit(w) PROVE Good(c)
        <3>1. ctx[w].cmd \in Commands /\ ctx[w].outcome \in ShellOutcomes
            BY <2>3 DEF CompleteCommit, TxInv, Ctx
        <3>2. CASE ctx[w].cmd # c
            <4>1. nonce'[c] = nonce[c] /\ status'[c] = status[c]
                BY <2>3, <3>1, <3>2 DEF CompleteCommit, DenyCommandForEnvelopeFailure, RollbackCompletion
            <4> QED
                BY <2>1, <4>1
        <3>3. CASE ctx[w].cmd = c
            <4>1. \/ nonce'[c] \in {nonce[c], "replayed"} /\ status'[c] \in {status[c], "expired", "denied"}
                  \/ /\ nonce[c] = "issued" /\ nonce'[c] = "consumed"
                     /\ status[c] = "claimed" /\ status'[c] \in ShellOutcomes
                BY <2>3, <3>1, <3>3 DEF CompleteCommit, DenyCommandForEnvelopeFailure, RollbackCompletion,
                   StillClaimed
            <4> QED
                BY <4>1
        <3> QED
            BY <3>2, <3>3
    <2>4. CASE PreemptDesktopCommandsForStop
        <3>1. status'[c] \in {status[c], "expired", "preempted"}
            BY <2>4, SweptFacts DEF PreemptDesktopCommandsForStop
        <3> QED
            BY <2>1, <2>4, <3>1 DEF PreemptDesktopCommandsForStop
    <2>5. ASSUME NEW d \in Commands, NEW a \in Grants \cup {NoGrant}, EnqueueDesktopCommand(d, a)
          PROVE  Good(c)
        BY <2>1, <2>5 DEF EnqueueDesktopCommand
    <2>6. CASE UNCHANGED <<status, nonce>>
        BY <2>6
    <2> QED
        BY <2>2, <2>3, <2>4, <2>5, <2>6 DEF Next, Approve, Complete, CreateUnboundGrant,
           CreateBoundGrant, ReadCommandForGrant, SetEnabled, CompleteRead, Tick, vars
<1> QED
    BY <1>1, Invariance, PTL DEF Spec, NonceBurntWithResult

(***************************************************************************)
(* The refinement: DesktopControl implements DesktopAuthority. Each commit *)
(* of a transaction is one step of the atomic service, each read is none.  *)
(***************************************************************************)

\* The phase of each status.
LEMMA PhaseFacts ==
    /\ Phase("absent") = "none" /\ Phase("pending") = "queued" /\ Phase("claimed") = "leased"
    /\ \A s \in Terminal : Phase(s) = "closed"
    /\ \A s \in Claimable : Phase(s) \in {"queued", "leased"}
BY DEF Phase, Terminal, Claimable

\* The commands a step closes.
Closed == {d \in Commands : status[d] \in Claimable /\ status'[d] \in Terminal}
Live == {g \in Grants : grantStatus[g] = "active"}
PhaseOf == [c \in Commands |-> Phase(status[c])]

\* Closing commands shows as the abstract Closing.
LEMMA ClosingStep ==
    ASSUME \A d \in Commands : Settles(d)
    PROVE  /\ Closed \subseteq Authority!Open
           /\ PhaseOf' = Authority!Closing(Closed)
<1>1. Closed \subseteq Authority!Open
    BY PhaseFacts DEF Authority!Open, Closed
<1>2. ASSUME NEW d \in Commands
      PROVE  Phase(status'[d]) = IF d \in Closed THEN "closed" ELSE Phase(status[d])
    BY PhaseFacts DEF Settles, Closed, Terminal
<1> QED
    BY <1>1, <1>2 DEF PhaseOf, Authority!Closing

\* A claim that issues an envelope is Authorise.
LEMMA IssueIsAuthorise ==
    ASSUME TypeOK, NEW c \in Commands, NEW g \in Grants, IssueStep(c, g),
           \A d \in Commands \ {c} : Settles(d)
    PROVE  Authority!ANext
<1>0. PICK S \in SUBSET Commands : S = Closed \ {c}
    BY DEF Closed
<1>1. /\ PhaseOf[c] = "queued" /\ PhaseOf'[c] = "leased"
      /\ g \in Live /\ remaining[g] \in Nat \ {0}
    BY PhaseFacts DEF IssueStep, PhaseOf, Live, TypeOK
<1>2. S \subseteq Authority!Open \ {c}
    BY <1>0, PhaseFacts DEF Authority!Open, Closed
<1>3. PhaseOf' = [Authority!Closing(S) EXCEPT ![c] = "leased"]
    <2>1. ASSUME NEW d \in Commands \ {c}
          PROVE  Phase(status'[d]) = IF d \in S THEN "closed" ELSE Phase(status[d])
        BY <1>0, PhaseFacts DEF Settles, Closed, Terminal
    <2> QED
        BY <1>1, <2>1 DEF PhaseOf, Authority!Closing
<1>4. Live' = IF remaining[g] = 1 THEN Live \ {g} ELSE Live
    BY <1>1 DEF IssueStep, Consume, Live, TypeOK
<1>5. remaining' = [remaining EXCEPT ![g] = @ - 1] /\ envelope' = [envelope EXCEPT ![c] = g]
    BY DEF IssueStep, Consume
<1>6. Authority!Authorise(c, g, S)
    <2>1. PhaseOf[c] = "queued" /\ g \in Live /\ remaining[g] > 0
        BY <1>1
    <2> QED
        BY <2>1, <1>2, <1>3, <1>4, <1>5 DEF PhaseOf, Live, Authority!Authorise
<1> QED
    BY <1>6 DEF Authority!ANext

\* Every step of the transactions is a step of the atomic service, or none.
LEMMA StepRefines == IInv /\ [Next]_vars => [Authority!ANext]_(Authority!avars)
<1> SUFFICES ASSUME IInv, [Next]_vars PROVE Authority!ANext \/ UNCHANGED Authority!avars
    OBVIOUS
<1> USE DEF IInv
<1>1. CASE Enqueued
    <2>1. PICK c \in Commands, a \in Grants \cup {NoGrant} : EnqueueDesktopCommand(c, a)
        BY <1>1 DEF Enqueued
    <2>2. PhaseOf[c] = "none" /\ PhaseOf' = [PhaseOf EXCEPT ![c] = "queued"]
        BY <2>1, PhaseFacts DEF EnqueueDesktopCommand, PhaseOf, TypeOK
    <2>3. UNCHANGED <<envelope, remaining, Live>>
        BY <2>1 DEF EnqueueDesktopCommand, grantVars, Live
    <2>4. Authority!Queue(c)
        BY <2>2, <2>3 DEF Authority!Queue, PhaseOf, Live
    <2> QED
        BY <2>4 DEF Authority!ANext
<1>2. CASE ~Enqueued
    <2>1. \A d \in Commands : Settles(d) \/ Leased(d)
        BY <1>2, SettleStep
    <2>2. Effect
        BY EffectStep
    <2>3. ASSUME NEW c \in Commands, NEW g \in Grants, IssueStep(c, g) PROVE Authority!ANext
        <3>1. \A d \in Commands \ {c} : Settles(d)
            BY <2>1, <2>3 DEF IssueStep, Leased, TypeOK
        <3> QED
            BY <2>3, <3>1, IssueIsAuthorise
    <2>4. ASSUME UNCHANGED <<envelope, remaining>>, Live' \subseteq Live
          PROVE  Authority!ANext
        <3>1. \A d \in Commands : Settles(d)
            BY <2>1, <2>4 DEF Leased
        <3>2. PICK S \in SUBSET Commands, R \in SUBSET Grants : S = Closed /\ R = Live \ Live'
            BY DEF Closed, Live
        <3>3. Authority!Close(S, R)
            BY <2>4, <3>1, <3>2, ClosingStep DEF Authority!Close, PhaseOf, Live
        <3> QED
            BY <3>3 DEF Authority!ANext
    <2>5. CASE Quiet \/ RevokeStep \/ \E c \in Commands : DryRunStep(c)
        <3>1. UNCHANGED <<envelope, remaining>>
            BY <2>5 DEF Quiet, RevokeStep, DryRunStep, grantVars
        <3>2. \A g \in Grants : grantStatus'[g] = "active" => grantStatus[g] = "active"
            BY <2>5 DEF Quiet, RevokeStep, DryRunStep, grantVars
        <3>3. Live' \subseteq Live
            BY <3>2 DEF Live
        <3> QED
            BY <2>4, <3>1, <3>3
    <2>6. ASSUME NEW g \in Grants, NEW k \in Kinds, NEW c \in Commands \cup {NoCommand},
                 NEW n \in Budgets, NEW life \in GrantLives, GrantStep(g, k, c, n, life)
          PROVE  Authority!ANext
        <3>1. /\ g \notin Live /\ n > 0 /\ \A d \in Commands : envelope[d] # g
              /\ Live' = Live \cup {g} /\ remaining' = [remaining EXCEPT ![g] = n]
              /\ UNCHANGED <<status, envelope>>
            BY <2>6, ConstantsAssumption DEF GrantStep, CreateGrant, Live, RowInv, TypeOK
        <3>2. Authority!Approve(g, n)
            BY <3>1 DEF Authority!Approve, Live
        <3> QED
            BY <3>2 DEF Authority!ANext
    <2> QED
        BY <2>2, <2>3, <2>5, <2>6 DEF Effect
<1> QED
    BY <1>1, <1>2

\* The service with its transactions, locks and clock implements the atomic one.
THEOREM Refinement == Spec => ImplementsAuthority
<1>1. Init => Authority!AInit
    BY PhaseFacts DEF Init, Authority!AInit
<1> QED
    BY <1>1, StepRefines, Invariance, PTL DEF Spec, ImplementsAuthority, Authority!ASpec
=============================================================================
