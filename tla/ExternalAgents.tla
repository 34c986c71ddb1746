--------------------------- MODULE ExternalAgents ---------------------------
(***************************************************************************)
(* Calls to external agents: external_agent_reliability.py with the adapter *)
(* and the two callers. A call tries its agent a few times, counts a        *)
(* failure of all tries in Redis, where enough of them open the agent's     *)
(* breaker, marks the agent's row, and goes on to the agent's fallback.     *)
(*                                                                         *)
(* The marks are flushed in the caller's transaction: the row stays locked *)
(* until the caller ends it (POST /test-task commits, a workflow step      *)
(* rolls back), or until the next dispatch to an agent with a credential,  *)
(* because reading a credential commits. Postgres breaks a cycle of such   *)
(* waits by aborting one of its calls.                                     *)
(***************************************************************************)
EXTENDS Naturals

CONSTANTS
    Agents, NoAgent,
    Graphs,        \* the fallbacks a tenant may configure, [Agents -> Agents \cup {NoAgent}]
    Keyed,         \* agents with an active credential
    Calls,
    Tested,        \* calls by POST /test-task, which commits; the others roll back
    MaxAttempts,   \* MAX_ATTEMPTS
    Threshold      \* BREAKER_THRESHOLD

ASSUME AgentsAssumption ==
    /\ NoAgent \notin Agents
    /\ Graphs \subseteq [Agents -> Agents \cup {NoAgent}]
    /\ Keyed \subseteq Agents /\ Tested \subseteq Calls
    /\ MaxAttempts \in Nat \ {0} /\ Threshold \in Nat \ {0}

VARIABLES
    fallback,   \* metadata_['fallback_agent_id'] of each agent
    status,     \* the committed external_agents.status
    breaker,    \* agents whose breaker key exists
    fails,      \* the failure counter of each agent
    call,       \* the local state of each external_agent_call
    writes      \* per call, the marks its transaction has flushed: agent -> status

vars == <<fallback, status, breaker, fails, call, writes>>

AgentStatuses == {"online", "offline", "error", "breaker_open"}
Idle == [at |-> "idle", agent |-> NoAgent, depth |-> 0, attempt |-> 0, seen |-> "offline",
         sends |-> 0, answered |-> FALSE, result |-> "none"]
NoWrites == [a \in {} |-> "offline"]

Init ==
    /\ fallback \in Graphs
    /\ status = [a \in Agents |-> "offline"]
    /\ breaker = {}
    /\ fails = [a \in Agents |-> 0]
    /\ call = [c \in Calls |-> Idle]
    /\ writes = [c \in Calls |-> NoWrites]

-----------------------------------------------------------------------------
(* The transaction of a call *)

Committed(c) == [a \in Agents |-> IF a \in DOMAIN writes[c] THEN writes[c][a] ELSE status[a]]

\* The session writes a mark only if it changes what it read of the row.
Flushes(c, s) == call[c].seen # s
BlockedBy(c, d) ==
    /\ d # c /\ call[c].agent \in DOMAIN writes[d]
    /\ \/ call[c].at = "shed" /\ Flushes(c, "breaker_open")
       \/ call[c].at = "markOnline" /\ Flushes(c, "online")
       \/ call[c].at = "markError" /\ Flushes(c, "error")
Waits(c) == \E d \in Calls : BlockedBy(c, d)

\* agent.status = s; db.add(agent); db.flush()
Mark(c, s) ==
    /\ ~Waits(c)
    /\ writes' = IF Flushes(c, s)
                 THEN [writes EXCEPT ![c] = [a \in DOMAIN @ \cup {call[c].agent} |->
                                                IF a = call[c].agent THEN s ELSE @[a]]]
                 ELSE writes

-----------------------------------------------------------------------------
(* external_agent_call *)

Step(c, at) == call[c].at = at
Go(c, at) == call' = [call EXCEPT ![c].at = at]

\* The caller has loaded the agent's row and calls.
Begin(c, a) ==
    /\ Step(c, "idle")
    /\ call' = [call EXCEPT ![c] = [Idle EXCEPT !.at = "gate", !.agent = a, !.attempt = 1, !.seen = status[a]]]
    /\ UNCHANGED <<fallback, status, breaker, fails, writes>>

TooDeep(depth) == depth > 1

\* Goes on to the fallback of r's agent, one level deep, or raises.
Fallback(r) ==
    LET next == fallback[r.agent] IN
    IF next = NoAgent \/ TooDeep(r.depth + 1)
    THEN [r EXCEPT !.at = "end", !.result = "raised"]
    ELSE [r EXCEPT !.at = "gate", !.agent = next, !.depth = r.depth + 1, !.attempt = 1,
                   !.seen = IF next = r.agent THEN @ ELSE status[next]]

Gate(c) ==
    /\ Step(c, "gate")
    /\ Go(c, IF call[c].agent \in breaker THEN "shed" ELSE "send")
    /\ UNCHANGED <<fallback, status, breaker, fails, writes>>

\* The breaker is open: mark the agent, and leave it alone.
Shed(c) ==
    /\ Step(c, "shed")
    /\ Mark(c, "breaker_open")
    /\ call' = [call EXCEPT ![c] = Fallback([@ EXCEPT !.seen = "breaker_open"])]
    /\ UNCHANGED <<fallback, status, breaker, fails>>

\* adapter.dispatch: reading the credential commits, and the row is read again.
Send(c) ==
    LET keyed == call[c].agent \in Keyed
        seen == IF keyed THEN Committed(c)[call[c].agent] ELSE call[c].seen
    IN
    /\ Step(c, "send")
    /\ status' = IF keyed THEN Committed(c) ELSE status
    /\ writes' = IF keyed THEN [writes EXCEPT ![c] = NoWrites] ELSE writes
    /\ call' = [call EXCEPT ![c] = [call[c] EXCEPT !.at = "sent", !.sends = @ + 1, !.seen = seen]]
    /\ UNCHANGED <<fallback, breaker, fails>>

\* Mutation: the answer to the last attempt is taken for a failure.
AnsweredLate(r) ==
    [r EXCEPT !.at = IF r.attempt < MaxAttempts THEN "markOnline" ELSE "count", !.answered = TRUE]
Answered(r) == [r EXCEPT !.at = "markOnline", !.answered = TRUE]
Failed(r) ==
    IF r.attempt < MaxAttempts THEN [r EXCEPT !.at = "send", !.attempt = @ + 1]
    ELSE [r EXCEPT !.at = "count"]
Dispatched(c) ==
    /\ Step(c, "sent")
    /\ \E r \in {Answered(call[c]), Failed(call[c])} : call' = [call EXCEPT ![c] = r]
    /\ UNCHANGED <<fallback, status, breaker, fails, writes>>

MarkOnline(c) ==
    /\ Step(c, "markOnline")
    /\ Mark(c, "online")
    /\ call' = [call EXCEPT ![c].at = "clear", ![c].seen = "online"]
    /\ UNCHANGED <<fallback, status, breaker, fails>>

\* _record_success: one DEL of both keys.
RecordSuccess(c) ==
    /\ Step(c, "clear")
    /\ breaker' = breaker \ {call[c].agent}
    /\ fails' = [fails EXCEPT ![call[c].agent] = 0]
    /\ call' = [call EXCEPT ![c].at = "end", ![c].result = "returned"]
    /\ UNCHANGED <<fallback, status, writes>>

\* _record_failure: INCR, then SET NX if what INCR returned has reached the threshold.
RecordFailure(c) ==
    /\ Step(c, "count")
    /\ fails' = [fails EXCEPT ![call[c].agent] = @ + 1]
    /\ Go(c, IF fails'[call[c].agent] >= Threshold THEN "trip" ELSE "markError")
    /\ UNCHANGED <<fallback, status, breaker, writes>>
Trip(c) ==
    /\ Step(c, "trip")
    /\ breaker' = breaker \cup {call[c].agent}
    /\ Go(c, "markError")
    /\ UNCHANGED <<fallback, status, fails, writes>>

MarkError(c) ==
    /\ Step(c, "markError")
    /\ Mark(c, "error")
    /\ call' = [call EXCEPT ![c] = Fallback([@ EXCEPT !.seen = "error"])]
    /\ UNCHANGED <<fallback, status, breaker, fails>>

\* A wait in a cycle: Postgres aborts the transaction, and the failed flush raises.
InCycle(c) ==
    \E ring \in SUBSET Calls :
        /\ c \in ring
        /\ \A d \in ring : (\E e \in ring : BlockedBy(d, e)) /\ (\E e \in ring : BlockedBy(e, d))
Abort(c) ==
    /\ InCycle(c)
    /\ writes' = [writes EXCEPT ![c] = NoWrites]
    /\ call' = [call EXCEPT ![c].at = "end", ![c].result = "raised"]
    /\ UNCHANGED <<fallback, status, breaker, fails>>

\* Mutation: the caller forgets to close its session.
NotReleased(c) == writes
\* The caller ends its transaction.
Released(c) == [writes EXCEPT ![c] = NoWrites]
End(c) ==
    /\ Step(c, "end")
    /\ status' = IF c \in Tested THEN Committed(c) ELSE status
    /\ writes' = Released(c)
    /\ Go(c, "ended")
    /\ UNCHANGED <<fallback, breaker, fails>>

-----------------------------------------------------------------------------
(* What else happens to the keys and the rows *)

\* The keys' times to live; the counter's is the longer one, and renewed by each INCR.
BreakerExpires(a) ==
    /\ a \in breaker
    /\ breaker' = breaker \ {a}
    /\ UNCHANGED <<fallback, status, fails, call, writes>>
CounterExpires(a) ==
    /\ a \notin breaker /\ fails[a] > 0
    /\ \A c \in Calls : ~(Step(c, "trip") /\ call[c].agent = a)
    /\ fails' = [fails EXCEPT ![a] = 0]
    /\ UNCHANGED <<fallback, status, breaker, call, writes>>

\* POST /health-check
HealthCheck(a) ==
    /\ \A c \in Calls : a \notin DOMAIN writes[c]
    /\ \E s \in {"online", "offline"} : status' = [status EXCEPT ![a] = s]
    /\ UNCHANGED <<fallback, breaker, fails, call, writes>>

Runs(c) ==
    \/ Gate(c) \/ Shed(c) \/ Send(c) \/ Dispatched(c) \/ MarkOnline(c) \/ RecordSuccess(c)
    \/ RecordFailure(c) \/ Trip(c) \/ MarkError(c) \/ Abort(c) \/ End(c)

Next ==
    \/ \E c \in Calls : Runs(c) \/ \E a \in Agents : Begin(c, a)
    \/ \E a \in Agents : BreakerExpires(a) \/ CounterExpires(a) \/ HealthCheck(a)

Spec == Init /\ [][Next]_vars

\* Threads run, every dispatch has a timeout, and Postgres looks for cycles of waits.
FairSpec == Spec /\ \A c \in Calls : WF_vars(Runs(c))

-----------------------------------------------------------------------------
(* Properties *)

CallRecords ==
    [at : {"idle", "gate", "shed", "send", "sent", "markOnline", "clear", "count", "trip", "markError",
           "end", "ended"},
     agent : Agents \cup {NoAgent}, depth : 0..1, attempt : 0..MaxAttempts, seen : AgentStatuses,
     sends : Nat, answered : BOOLEAN, result : {"none", "returned", "raised"}]

TypeOK ==
    /\ fallback \in Graphs
    /\ status \in [Agents -> AgentStatuses]
    /\ breaker \subseteq Agents
    /\ fails \in [Agents -> Nat]
    /\ call \in [Calls -> CallRecords]
    /\ \A c \in Calls : call[c].at # "idle" => call[c].agent \in Agents
    /\ writes \in [Calls -> UNION {[marked -> AgentStatuses] : marked \in SUBSET Agents}]

\* No chain of fallbacks comes back to an agent it left: in every set of agents there
\* is one whose fallback is outside, or itself.
Acyclic(g) == \A among \in SUBSET Agents \ {{}} : \E a \in among : g[a] \notin among \ {a}

\* What an agent answered reaches the caller: unless the tenant's fallbacks form a
\* cycle, no wait for a row is broken by the database after the dispatch succeeded.
AnswerIsReturned ==
    Acyclic(fallback) =>
        \A c \in Calls : call[c].at = "ended" /\ call[c].answered => call[c].result = "returned"

\* A call sends its task MAX_ATTEMPTS times to its agent and as often to the
\* fallback, and no more, whatever fallback the fallback has
\* (test_external_agent_reliability.py:127).
TriesBounded == \A c \in Calls : call[c].sends <= 2 * MaxAttempts

\* Every call ends, whoever else holds or wants the rows it marks.
CallsEnd == \A c \in Calls : call[c].at = "gate" ~> call[c].at = "ended"

\* "a concurrent _record_success that just deleted the key can't be raced into
\* reopening it" (external_agent_reliability.py:32): a breaker only opens on as many
\* failures as the counter holds. Violated: INCR and SET are two commands, and a
\* success that deletes both keys between them is overwritten.
StaleFailureNeverReopens ==
    [][\A a \in breaker' \ breaker : fails[a] >= Threshold]_vars

\* The same as AnswerIsReturned for every graph. Violated: with two agents that are
\* each other's fallback, the call aborted may be the one that was answered.
AnswerIsAlwaysReturned ==
    \A c \in Calls : call[c].at = "ended" /\ call[c].answered => call[c].result = "returned"

\* "Surfaces breaker state in external_agents.status" (:20). Violated: the marks of a
\* workflow step are rolled back, and a health check overwrites those of a request.
BreakerIsSurfaced ==
    (\A c \in Calls : call[c].at = "ended") => \A a \in breaker : status[a] # "online"

=============================================================================
