-------------------------- MODULE Fallbacks_proofs --------------------------
(***************************************************************************)
(* The three places where a provider that fails hands over to the next:    *)
(* an external agent to its fallback (ExternalAgents), the executor along  *)
(* the chain of a request (ResilientExecutor), and the turns of a tenant   *)
(* along the chains they resolve (CliRouting).                             *)
(*                                                                         *)
(* External agents, for any number of agents and calls and any fallbacks:  *)
(* a call that waits for a row holds at most the row of the agent whose    *)
(* fallback it is at; so a cycle of waits is a cycle of fallbacks, and     *)
(* where there is none no call is aborted.                                 *)
(*                                                                         *)
(* The executor, for any platforms, chains and lineages: what is attempted *)
(* is the chain up to the cursor, so the events, the mirrored decisions    *)
(* and the result can be counted against it; every step is one of          *)
(* FallbackChain.                                                          *)
(*                                                                         *)
(* Routing, for any turns and platforms: a walk has tried every platform   *)
(* it has left and the floor is in its chain, so it cannot end silently    *)
(* before the floor; no chain holds a platform that a legacy turn had      *)
(* found limited when its turn began; both walkers do FallbackChain steps. *)
(***************************************************************************)
EXTENDS ExternalAgents, ResilientExecutor, CliRouting, Integers, FiniteSetTheorems, TLAPS

-----------------------------------------------------------------------------
(* External agents *)

\* A call is at a step of its present agent at which it has marked no row of it yet.
Marking == {"gate", "shed", "send", "sent", "markOnline", "count", "trip", "markError"}

\* r waits with at most the row of the agent it has left for its present one.
Owns(r, marks) ==
    /\ r.at = "idle" \/ (r.at \in Marking /\ r.depth = 0) => DOMAIN marks = {}
    /\ r.at \in Marking /\ r.depth = 1 => \E p \in Agents : fallback[p] = r.agent /\ DOMAIN marks \subseteq {p}

\* The sends of r so far, with the one that is due.
Due(r) == IF r.at \in {"gate", "shed", "send"} THEN 1 ELSE 0
Sends(r) == r.sends + Due(r) <= (IF r.depth = 0 THEN 0 ELSE MaxAttempts) + r.attempt

Answers(r) ==
    r.answered =>
        \/ r.at \in {"markOnline", "clear"}
        \/ r.at \in {"end", "ended"} /\ r.result = "returned"

Sound(r, marks) == Owns(r, marks) /\ Sends(r) /\ (Acyclic(fallback) => Answers(r))

\* Rows are locked by one transaction at a time.
Alone(c, marks) == \A d \in Calls \ {c} : DOMAIN marks \cap DOMAIN writes[d] = {}

IInv ==
    /\ TypeOK
    /\ \A c \in Calls : Alone(c, writes[c]) /\ Sound(call[c], writes[c])

-----------------------------------------------------------------------------
\* A cycle of waits is a cycle of fallbacks.
LEMMA NoCycle ==
    ASSUME IInv, Acyclic(fallback), NEW c \in Calls, InCycle(c)
    PROVE  FALSE
<1>1. PICK ring \in SUBSET Calls :
           /\ c \in ring
           /\ \A d \in ring : (\E e \in ring : BlockedBy(d, e)) /\ (\E e \in ring : BlockedBy(e, d))
    BY DEF InCycle
<1> DEFINE Holds(p, d) == DOMAIN writes[d] = {p} /\ fallback[p] = call[d].agent
           among == {p \in Agents : \E d \in ring : Holds(p, d)}
<1>2. ASSUME NEW d \in ring
      PROVE  \E p \in Agents : Holds(p, d)
    <2>1. call[d].at \in Marking /\ DOMAIN writes[d] # {}
        BY <1>1 DEF BlockedBy, Marking
    <2>2. call[d].depth \in {0, 1}
        BY DEF IInv, TypeOK, CallRecords
    <2> QED
        BY <2>1, <2>2 DEF IInv, Sound, Owns
<1>3. ASSUME NEW p \in among
      PROVE  fallback[p] \in among \ {p}
    <2>1. PICK d \in ring : Holds(p, d)
        OBVIOUS
    <2>2. PICK e \in ring : BlockedBy(d, e)
        BY <1>1
    <2>3. PICK q \in Agents : Holds(q, e)
        BY <1>2
    <2>4. fallback[p] = q /\ q \in among
        BY <2>1, <2>2, <2>3 DEF BlockedBy
    <2>5. q # p
        BY <2>1, <2>2, <2>3 DEF BlockedBy, IInv, Alone
    <2> QED
        BY <2>4, <2>5
<1>4. among # {}
    BY <1>1, <1>2
<1> QED
    BY <1>3, <1>4 DEF Acyclic
-----------------------------------------------------------------------------
(* Steps *)

Marks == UNION {[marked -> AgentStatuses] : marked \in SUBSET Agents}

\* A step of call c leaves it at r with the marks m.
LEMMA StepOfCall ==
    ASSUME IInv, NEW c \in Calls, NEW r \in CallRecords, NEW m \in Marks,
           call' = [call EXCEPT ![c] = r], writes' = [writes EXCEPT ![c] = m],
           fallback' = fallback, status' \in [Agents -> AgentStatuses], breaker' \subseteq Agents,
           fails' \in [Agents -> Nat],
           r.at # "idle" => r.agent \in Agents, Alone(c, m), Sound(r, m)
    PROVE  IInv'
<1>1. TypeOK'
    BY DEF IInv, TypeOK, Marks
<1>2. ASSUME NEW d \in Calls
      PROVE  Sound(call[d], writes[d])'
    <2>1. Sound(call'[d], writes'[d])
        BY DEF IInv, TypeOK
    <2> QED
        BY <2>1 DEF Sound, Owns, Sends, Due, Answers, Acyclic
<1>3. ASSUME NEW d \in Calls
      PROVE  Alone(d, writes[d])'
    BY DEF IInv, TypeOK, Alone
<1> QED
    BY <1>1, <1>2, <1>3 DEF IInv

\* What a flush adds is the row of the call's agent, which nobody else has.
LEMMA Flushing ==
    ASSUME IInv, NEW c \in Calls, NEW s \in AgentStatuses, Mark(c, s),
           call[c].at \in {"shed", "markOnline", "markError"},
           call[c].at = "shed" => s = "breaker_open",
           call[c].at = "markOnline" => s = "online", call[c].at = "markError" => s = "error"
    PROVE  /\ writes' = [writes EXCEPT ![c] = writes'[c]]
           /\ writes'[c] \in Marks
           /\ DOMAIN writes'[c] \subseteq DOMAIN writes[c] \cup {call[c].agent}
           /\ Alone(c, writes'[c])
<1>1. writes \in [Calls -> Marks] /\ call[c].agent \in Agents
    BY DEF IInv, TypeOK, Marks
<1>2. CASE ~Flushes(c, s)
    BY <1>1, <1>2 DEF Mark, IInv
<1>3. CASE Flushes(c, s)
    <2> DEFINE m == [a \in DOMAIN writes[c] \cup {call[c].agent} |->
                        IF a = call[c].agent THEN s ELSE writes[c][a]]
    <2>1. writes' = [writes EXCEPT ![c] = m] /\ ~Waits(c)
        BY <1>3 DEF Mark
    <2>2. m \in Marks
        <3>1. PICK marked \in SUBSET Agents : writes[c] \in [marked -> AgentStatuses]
            BY <1>1 DEF Marks
        <3>2. m \in [marked \cup {call[c].agent} -> AgentStatuses]
            BY <3>1
        <3> QED
            BY <3>2, <1>1 DEF Marks
    <2>3. Alone(c, m)
        BY <2>1, <1>3 DEF Alone, Waits, BlockedBy, IInv
    <2> QED
        BY <1>1, <2>1, <2>2, <2>3
<1> QED
    BY <1>2, <1>3

\* Going on to the fallback.
LEMMA GoingOn ==
    ASSUME IInv, NEW r \in CallRecords, NEW m \in Marks, r.at \in Marking, r.agent \in Agents,
           r.depth = 0 => DOMAIN m \subseteq {r.agent},
           Sends(r), Acyclic(fallback) => ~r.answered
    PROVE  /\ Fallback(r) \in CallRecords /\ Fallback(r).agent \in Agents
           /\ Sound(Fallback(r), m)
<1> DEFINE next == fallback[r.agent]
<1>1. next \in Agents \cup {NoAgent} /\ MaxAttempts \in Nat \ {0}
    BY AgentsAssumption DEF IInv, TypeOK
<1>2. CASE next = NoAgent \/ r.depth = 1
    <2>1. Fallback(r) = [r EXCEPT !.at = "end", !.result = "raised"]
        BY <1>2 DEF Fallback, TooDeep, CallRecords
    <2>2. Fallback(r) \in CallRecords /\ Fallback(r).agent \in Agents
        BY <2>1 DEF CallRecords
    <2>3. Sends(Fallback(r))
        <3>1. r.sends + 0 <= (IF r.depth = 0 THEN 0 ELSE MaxAttempts) + r.attempt
            BY <1>1 DEF CallRecords, Sends, Due
        <3> QED
            BY <2>1, <3>1 DEF Sends, Due, CallRecords
    <2> QED
        BY <2>1, <2>2, <2>3 DEF Sound, Owns, Answers, Marking
<1>3. CASE next \in Agents /\ r.depth = 0
    <2>1. Fallback(r) = [r EXCEPT !.at = "gate", !.agent = next, !.depth = 1, !.attempt = 1,
                                  !.seen = IF next = r.agent THEN r.seen ELSE status[next]]
        BY <1>3, AgentsAssumption DEF Fallback, TooDeep
    <2>2. Fallback(r) \in CallRecords
        <3>1. status[next] \in AgentStatuses /\ r.seen \in AgentStatuses
            BY <1>3 DEF IInv, TypeOK, CallRecords
        <3>2. 1 \in 0..MaxAttempts /\ 1 \in 0..1
            BY <1>1
        <3> QED
            BY <2>1, <3>1, <3>2, <1>3 DEF CallRecords
    <2> QED
        BY <2>1, <2>2, <1>1, <1>3 DEF CallRecords, Sound, Owns, Sends, Due, Answers, Marking
<1> QED
    BY <1>1, <1>2, <1>3 DEF CallRecords
-----------------------------------------------------------------------------
(* One step of a call *)

LEMMA Types ==
    ASSUME IInv, NEW c \in Calls
    PROVE  /\ call[c] \in CallRecords
           /\ call[c].at # "idle" => call[c].agent \in Agents
           /\ writes[c] \in Marks /\ Alone(c, writes[c]) /\ Sound(call[c], writes[c])
           /\ call = [call EXCEPT ![c] = call[c]] /\ writes = [writes EXCEPT ![c] = writes[c]]
           /\ NoWrites \in Marks /\ Alone(c, NoWrites)
<1>1. NoWrites \in [{} -> AgentStatuses] /\ DOMAIN NoWrites = {}
    BY DEF NoWrites
<1>2. NoWrites \in Marks
    BY <1>1 DEF Marks
<1>3. Alone(c, NoWrites)
    BY <1>1 DEF Alone
<1> QED
    BY <1>2, <1>3 DEF IInv, TypeOK, Marks

\* Steps that leave the call's marks alone.
LEMMA LocalStep ==
    ASSUME IInv, NEW c \in Calls,
           \/ Gate(c) \/ Dispatched(c) \/ RecordSuccess(c) \/ RecordFailure(c) \/ Trip(c)
           \/ \E a \in Agents : Begin(c, a)
    PROVE  IInv'
<1>0. /\ call[c] \in CallRecords /\ (call[c].at # "idle" => call[c].agent \in Agents)
      /\ writes[c] \in Marks /\ Alone(c, writes[c]) /\ Sound(call[c], writes[c])
      /\ writes = [writes EXCEPT ![c] = writes[c]]
    BY Types
<1>1. status' \in [Agents -> AgentStatuses] /\ breaker' \subseteq Agents /\ fails' \in [Agents -> Nat]
      /\ fallback' = fallback /\ writes' = [writes EXCEPT ![c] = writes[c]]
    <2>1. status' = status /\ fallback' = fallback /\ writes' = writes
        BY DEF Gate, Dispatched, RecordSuccess, RecordFailure, Trip, Begin
    <2>2. breaker' \subseteq breaker \cup {call[c].agent} /\ (breaker' # breaker => call[c].agent \in Agents)
        BY <1>0 DEF Gate, Dispatched, RecordSuccess, RecordFailure, Trip, Begin, Step
    <2>3. \/ fails' = fails
          \/ \E n \in Nat : fails' = [fails EXCEPT ![call[c].agent] = n]
          \/ fails' = [fails EXCEPT ![call[c].agent] = fails[call[c].agent] + 1]
        BY DEF Gate, Dispatched, RecordSuccess, RecordFailure, Trip, Begin
    <2> QED
        BY <1>0, <2>1, <2>2, <2>3 DEF IInv, TypeOK
<1>2. \E r \in CallRecords : /\ call' = [call EXCEPT ![c] = r] /\ (r.at # "idle" => r.agent \in Agents)
                              /\ Sound(r, writes[c])
    <2>1. CASE Gate(c) \/ RecordFailure(c) \/ Trip(c)
        <3>1. PICK to \in {"shed", "send", "trip", "markError"} :
                 /\ call' = [call EXCEPT ![c] = [call[c] EXCEPT !.at = to]]
                 /\ call[c].at \in IF to \in {"shed", "send"} THEN {"gate"} ELSE {"count", "trip"}
            BY <2>1, <1>0 DEF Gate, RecordFailure, Trip, Step, Go, IInv, TypeOK
        <3> DEFINE r == [call[c] EXCEPT !.at = to]
        <3>2. r \in CallRecords /\ r.agent \in Agents
            BY <3>1, <1>0 DEF CallRecords
        <3>3. Sound(r, writes[c])
            BY <3>1, <1>0 DEF CallRecords, Sound, Owns, Sends, Due, Answers, Marking
        <3> QED
            BY <3>1, <3>2, <3>3
    <2>4. CASE RecordSuccess(c)
        <3> DEFINE r == [call[c] EXCEPT !.at = "end", !.result = "returned"]
        <3>1. call' = [call EXCEPT ![c] = r] /\ call[c].at = "clear"
            BY <2>4, <1>0 DEF RecordSuccess, Step, IInv, TypeOK
        <3>2. r \in CallRecords /\ r.agent \in Agents /\ Sound(r, writes[c])
            BY <3>1, <1>0 DEF CallRecords, Sound, Owns, Sends, Due, Answers, Marking
        <3> QED
            BY <3>1, <3>2
    <2>2. CASE Dispatched(c)
        <3> DEFINE good == [call[c] EXCEPT !.at = "markOnline", !.answered = TRUE]
                   again == [call[c] EXCEPT !.at = "send", !.attempt = @ + 1]
                   bad == [call[c] EXCEPT !.at = "count"]
        <3>1. call[c].at = "sent" /\ MaxAttempts \in Nat \ {0}
            BY <2>2, AgentsAssumption DEF Dispatched, Step
        <3>2. CASE call' = [call EXCEPT ![c] = good]
            <4>1. good \in CallRecords /\ good.agent \in Agents
                BY <3>1, <1>0 DEF CallRecords
            <4>2. Owns(good, writes[c])
                BY <3>1, <1>0 DEF CallRecords, Sound, Owns, Marking
            <4>4. good.at = "markOnline"
                BY <1>0 DEF CallRecords
            <4>3. Sends(good)
                BY <3>1, <1>0 DEF CallRecords, Sound, Sends, Due
            <4> HIDE DEF good
            <4>5. Answers(good)
                BY <4>4 DEF Answers
            <4> QED
                BY <3>2, <4>1, <4>2, <4>3, <4>5 DEF Sound
        <3>3. CASE call' = [call EXCEPT ![c] = again] /\ call[c].attempt < MaxAttempts
            <4>1. again \in CallRecords /\ again.agent \in Agents
                <5>1. call[c].attempt + 1 \in 0..MaxAttempts
                    BY <3>1, <3>3, <1>0 DEF CallRecords
                <5> QED
                    BY <5>1, <3>1, <1>0 DEF CallRecords
            <4>2. Sound(again, writes[c])
                BY <3>1, <3>3, <1>0 DEF CallRecords, Sound, Owns, Sends, Due, Answers, Marking
            <4> QED
                BY <3>3, <4>1, <4>2
        <3>4. CASE call' = [call EXCEPT ![c] = bad]
            <4>1. bad \in CallRecords /\ bad.agent \in Agents /\ Sound(bad, writes[c])
                BY <3>1, <1>0 DEF CallRecords, Sound, Owns, Sends, Due, Answers, Marking
            <4> QED
                BY <3>4, <4>1
        <3> QED
            BY <2>2, <3>2, <3>3, <3>4 DEF Dispatched, Answered, Failed
    <2>3. ASSUME NEW a \in Agents, Begin(c, a)
          PROVE  \E r \in CallRecords : /\ call' = [call EXCEPT ![c] = r] /\ (r.at # "idle" => r.agent \in Agents)
                                         /\ Sound(r, writes[c])
        <3> DEFINE r == [Idle EXCEPT !.at = "gate", !.agent = a, !.attempt = 1, !.seen = status[a]]
        <3>1. r \in CallRecords
            <4>1. status[a] \in AgentStatuses /\ 1 \in 0..MaxAttempts /\ 0 \in 0..1
                BY AgentsAssumption DEF IInv, TypeOK
            <4> QED
                BY <4>1 DEF Idle, CallRecords
        <3>2. Owns(r, writes[c])
            <4>1. call[c].at = "idle" /\ r.at = "gate" /\ r.depth = 0
                BY <2>3 DEF Begin, Step, Idle
            <4> QED
                BY <4>1, <1>0 DEF Sound, Owns
        <3>3. Sends(r) /\ Answers(r) /\ r.agent \in Agents
            BY AgentsAssumption DEF Idle, Sends, Due, Answers
        <3>4. call' = [call EXCEPT ![c] = r]
            BY <2>3 DEF Begin
        <3> HIDE DEF r
        <3> QED
            BY <3>1, <3>2, <3>3, <3>4 DEF Sound
    <2> QED
        BY <2>1, <2>2, <2>3, <2>4
<1> QED
    BY <1>0, <1>1, <1>2, StepOfCall

LEMMA MarkingStep ==
    ASSUME IInv, NEW c \in Calls, Shed(c) \/ MarkOnline(c) \/ MarkError(c)
    PROVE  IInv'
<1>0. /\ call[c] \in CallRecords /\ (call[c].at # "idle" => call[c].agent \in Agents)
      /\ writes[c] \in Marks /\ Alone(c, writes[c]) /\ Sound(call[c], writes[c])
      /\ writes = [writes EXCEPT ![c] = writes[c]]
    BY Types
<1>1. status' \in [Agents -> AgentStatuses] /\ breaker' \subseteq Agents /\ fails' \in [Agents -> Nat]
      /\ fallback' = fallback
    BY DEF IInv, TypeOK, Shed, MarkOnline, MarkError
<1>2. /\ writes' = [writes EXCEPT ![c] = writes'[c]] /\ writes'[c] \in Marks
      /\ DOMAIN writes'[c] \subseteq DOMAIN writes[c] \cup {call[c].agent}
      /\ Alone(c, writes'[c])
    BY <1>0, Flushing DEF Shed, MarkOnline, MarkError, Step, AgentStatuses
<1>3. CASE Shed(c) \/ MarkError(c)
    <2>1. PICK s \in {"breaker_open", "error"} : call' = [call EXCEPT ![c] = Fallback([call[c] EXCEPT !.seen = s])]
        BY <1>3 DEF Shed, MarkError
    <2> DEFINE r == [call[c] EXCEPT !.seen = s]
    <2>2. /\ r \in CallRecords /\ r.at \in Marking /\ r.agent \in Agents
          /\ r.depth = 0 => DOMAIN writes'[c] \subseteq {r.agent}
          /\ Sends(r) /\ (Acyclic(fallback) => ~r.answered)
        BY <1>3, <1>2, <1>0 DEF Shed, MarkError, Step, CallRecords, AgentStatuses, Marking, Sound, Owns, Sends, Due, Answers
    <2>3. /\ Fallback(r) \in CallRecords /\ Fallback(r).agent \in Agents
          /\ Sound(Fallback(r), writes'[c])
        BY <2>2, <1>2, GoingOn
    <2> QED
        BY <1>1, <1>2, <2>1, <2>3, StepOfCall
<1>4. CASE MarkOnline(c)
    <2> DEFINE r == [call[c] EXCEPT !.at = "clear", !.seen = "online"]
    <2>1. call' = [call EXCEPT ![c] = r] /\ call[c].at = "markOnline"
        BY <1>4 DEF MarkOnline, Step
    <2>2. r \in CallRecords /\ r.agent \in Agents /\ Sound(r, writes'[c])
        BY <2>1, <1>2, <1>0 DEF CallRecords, AgentStatuses, Marking, Sound, Owns, Sends, Due, Answers
    <2> QED
        BY <1>1, <1>2, <2>1, <2>2, StepOfCall
<1> QED
    BY <1>3, <1>4

LEMMA SendStep ==
    ASSUME IInv, NEW c \in Calls, Send(c)
    PROVE  IInv'
<1>0. /\ call[c] \in CallRecords /\ call[c].agent \in Agents /\ call[c].at = "send"
      /\ writes[c] \in Marks /\ Alone(c, writes[c]) /\ Sound(call[c], writes[c])
      /\ NoWrites \in Marks /\ DOMAIN NoWrites = {} /\ Alone(c, NoWrites)
    BY Types DEF Send, Step, NoWrites
<1>1. \A a \in Agents : Committed(c)[a] \in AgentStatuses
    BY <1>0 DEF Committed, Marks, IInv, TypeOK
<1>2. status' \in [Agents -> AgentStatuses] /\ breaker' = breaker /\ fails' = fails /\ fallback' = fallback
    BY <1>1 DEF Send, Committed, IInv, TypeOK
<1>3. PICK m \in {writes[c], NoWrites} : writes' = [writes EXCEPT ![c] = m]
    BY DEF Send, IInv, TypeOK
<1>4. PICK s \in AgentStatuses :
          call' = [call EXCEPT ![c] = [call[c] EXCEPT !.at = "sent", !.sends = @ + 1, !.seen = s]]
    <2> DEFINE s == IF call[c].agent \in Keyed THEN Committed(c)[call[c].agent] ELSE call[c].seen
    <2>1. s \in AgentStatuses
        BY <1>0, <1>1 DEF CallRecords
    <2>2. call' = [call EXCEPT ![c] = [call[c] EXCEPT !.at = "sent", !.sends = @ + 1, !.seen = s]]
        BY DEF Send
    <2> QED
        BY <2>1, <2>2
<1> DEFINE r == [call[c] EXCEPT !.at = "sent", !.sends = @ + 1, !.seen = s]
<1>5. r \in CallRecords /\ r.agent \in Agents
    <2>1. call[c].sends + 1 \in Nat
        BY <1>0 DEF CallRecords
    <2> QED
        BY <2>1, <1>0 DEF CallRecords
<1>6. Sends(r)
    BY <1>0, AgentsAssumption DEF CallRecords, Sound, Sends, Due
<1>7. Owns(r, m) /\ (Acyclic(fallback) => Answers(r))
    BY <1>0 DEF CallRecords, Sound, Owns, Answers, Marking
<1> HIDE DEF r
<1> QED
    BY <1>0, <1>2, <1>3, <1>4, <1>5, <1>6, <1>7, StepOfCall DEF Sound, r, IInv, TypeOK

LEMMA EndStep ==
    ASSUME IInv, NEW c \in Calls, Abort(c) \/ End(c)
    PROVE  IInv'
<1>0. /\ call[c] \in CallRecords /\ (call[c].at # "idle" => call[c].agent \in Agents)
      /\ writes[c] \in Marks /\ Sound(call[c], writes[c])
      /\ NoWrites \in Marks /\ DOMAIN NoWrites = {} /\ Alone(c, NoWrites)
    BY Types DEF NoWrites
<1>1. \A a \in Agents : Committed(c)[a] \in AgentStatuses
    BY <1>0 DEF Committed, Marks, IInv, TypeOK
<1>2. /\ status' \in [Agents -> AgentStatuses] /\ breaker' = breaker /\ fails' = fails /\ fallback' = fallback
      /\ writes' = [writes EXCEPT ![c] = NoWrites]
    BY <1>1 DEF Abort, End, Released, Committed, IInv, TypeOK
<1>3. CASE End(c)
    <2> DEFINE r == [call[c] EXCEPT !.at = "ended"]
    <2>1. call' = [call EXCEPT ![c] = r] /\ call[c].at = "end"
        BY <1>3, <1>0 DEF End, Step, Go, IInv, TypeOK
    <2>2. r \in CallRecords /\ r.agent \in Agents /\ Sound(r, NoWrites)
        BY <1>0, <2>1 DEF CallRecords, Sound, Owns, Sends, Due, Answers, Marking
    <2> QED
        BY <1>0, <1>2, <2>1, <2>2, StepOfCall DEF IInv, TypeOK
<1>4. CASE Abort(c)
    <2> DEFINE r == [call[c] EXCEPT !.at = "end", !.result = "raised"]
    <2>1. call' = [call EXCEPT ![c] = r] /\ call[c].at # "idle"
        <3>1. call[c].at # "idle"
            BY <1>4 DEF Abort, InCycle, BlockedBy
        <3> QED
            BY <1>4, <3>1, <1>0 DEF Abort, IInv, TypeOK
    <2>2. ~Acyclic(fallback)
        BY <1>4, NoCycle DEF Abort
    <2>3. r \in CallRecords /\ r.agent \in Agents
        BY <1>0, <2>1 DEF CallRecords
    <2>4. Sound(r, NoWrites)
        <3>1. Owns(r, NoWrites)
            BY <1>0, <2>1 DEF CallRecords, Owns, Marking
        <3>2. Sends(r)
            BY <1>0, <2>1, AgentsAssumption DEF CallRecords, Sound, Sends, Due
        <3> QED
            BY <2>2, <3>1, <3>2 DEF Sound
    <2> QED
        BY <1>0, <1>2, <2>1, <2>3, <2>4, StepOfCall DEF IInv, TypeOK
<1> QED
    BY <1>3, <1>4

-----------------------------------------------------------------------------
(* The theorems *)

LEMMA InitIInv == Init => IInv
<1> SUFFICES ASSUME Init PROVE IInv
    OBVIOUS
<1>1. Idle \in CallRecords
    BY AgentsAssumption DEF Idle, CallRecords, AgentStatuses
<1>2. NoWrites \in [{} -> AgentStatuses] /\ DOMAIN NoWrites = {}
    BY DEF NoWrites
<1>3. TypeOK
    BY <1>1, <1>2, AgentsAssumption DEF Init, TypeOK, AgentStatuses, Idle
<1>4. ASSUME NEW c \in Calls
      PROVE  Alone(c, writes[c]) /\ Sound(call[c], writes[c])
    <2>1. Sound(Idle, NoWrites)
        BY <1>2 DEF Sound, Owns, Sends, Due, Answers, Idle, Marking
    <2> QED
        BY <2>1, <1>2 DEF Init, Alone
<1> QED
    BY <1>3, <1>4 DEF IInv

LEMMA NextIInv == IInv /\ [Next]_vars => IInv'
<1> SUFFICES ASSUME IInv, [Next]_vars PROVE IInv'
    OBVIOUS
<1>1. ASSUME NEW c \in Calls, Runs(c) \/ \E a \in Agents : Begin(c, a)
      PROVE  IInv'
    BY <1>1, LocalStep, MarkingStep, SendStep, EndStep DEF Runs
<1>2. ASSUME NEW a \in Agents, BreakerExpires(a) \/ CounterExpires(a) \/ HealthCheck(a)
      PROVE  IInv'
    <2>1. call' = call /\ writes' = writes /\ fallback' = fallback
        BY <1>2 DEF BreakerExpires, CounterExpires, HealthCheck
    <2>2. TypeOK'
        BY <1>2, <2>1 DEF BreakerExpires, CounterExpires, HealthCheck, IInv, TypeOK, AgentStatuses
    <2>3. \A c \in Calls : (Alone(c, writes[c]) /\ Sound(call[c], writes[c]))'
        BY <2>1 DEF IInv, Alone, Sound, Owns, Sends, Due, Answers, Acyclic
    <2> QED
        BY <2>2, <2>3 DEF IInv
<1>3. CASE UNCHANGED vars
    BY <1>3 DEF vars, IInv, TypeOK, Alone, Sound, Owns, Sends, Due, Answers, Acyclic
<1> QED
    BY <1>1, <1>2, <1>3 DEF Next

\* Every reachable state is sound: the rows a waiting call holds, its sends, its answer.
THEOREM Invariance == Spec => []IInv
BY InitIInv, NextIInv, PTL DEF Spec

\* What an agent answered reaches the caller, for any number of agents and calls and
\* any fallbacks without a cycle.
THEOREM AnswersAlwaysReturned == Spec => []AnswerIsReturned
<1>1. IInv => AnswerIsReturned
    BY DEF IInv, Sound, Answers, AnswerIsReturned
<1> QED
    BY <1>1, Invariance, PTL

\* No call sends its task more often than twice MAX_ATTEMPTS.
THEOREM TriesAlwaysBounded == Spec => []TriesBounded
<1>1. IInv => TriesBounded
    BY AgentsAssumption DEF IInv, TypeOK, CallRecords, Sound, Sends, Due, TriesBounded
<1> QED
    BY <1>1, Invariance, PTL

-----------------------------------------------------------------------------
(* A call of the executor *)

\* How often a sequence of events has events of a kind.
Count(events, kind) == Cardinality({n \in DOMAIN events : events[n].event = kind})

\* What the log is made of.
Entries ==
    [event : {"started"}]
      \cup [event : {"attempt_failed"}, platform : Platforms, status : Statuses, index : Nat]
      \cup [event : {"fallback_triggered"}, from : Platforms, to : Platforms \cup {<<>>}]
      \cup [event : {"mirrored"}, status : Statuses, decisions : [retry : Nat, fallback : Nat]]
      \cup [event : {"succeeded", "failed"}, status : Statuses]

CallType == CallTypeOK /\ log \in Seq(Entries)

\* What each stage of a call says about the rest.
Stages ==
    /\ at = "start" =>
          /\ log = <<>> /\ result = <<>> /\ last = <<>> /\ index = 1 /\ tries = 1 /\ attempted = <<>>
          /\ decisions = [retry |-> 0, fallback |-> 0]
    /\ at \in {"preflight", "run"} => log # <<>> /\ ~ Refused /\ result = <<>>
    /\ at = "preflight" => tries = 1
    /\ at = "run" => index <= Len(req.chain) /\ req.chain[index] \in Registered
    /\ at = "done" => result # <<>> /\ log # <<>>
    /\ at # "done" /\ last # <<>> => last.status # "execution_succeeded"

\* What has been attempted is the chain up to the cursor, and every registered platform
\* the cursor has left was announced with the one it was left for.
Trail ==
    /\ at = "preflight" => Len(attempted) = index - 1
    /\ at = "run" => Len(attempted) = IF tries = 1 THEN index - 1 ELSE index
    /\ Len(attempted) <= index /\ Len(attempted) <= Len(req.chain)
    /\ \A k \in 1..Len(attempted) : attempted[k] = req.chain[k]
    /\ \A k \in 1..Len(req.chain) : k < index /\ k < Len(req.chain) /\ req.chain[k] \in Registered =>
          \E n \in DOMAIN log : /\ log[n].event = "fallback_triggered"
                                /\ log[n].from = req.chain[k] /\ log[n].to = req.chain[k + 1]

\* The decisions counted are the events sent.
Tally ==
    /\ at # "done" =>
          /\ decisions.fallback = Count(log, "fallback_triggered")
          /\ decisions.retry + decisions.fallback = Count(log, "attempt_failed")
    /\ at = "preflight" => log[Len(log)].event # "attempt_failed"

\* What is mirrored when the call ends.
Told ==
    at = "done" =>
        LET told == log[Len(log) - 1].decisions
            stopped == IF /\ Count(log, "attempt_failed") # 0 /\ result.status # "execution_succeeded"
                          /\ log[Len(log) - 2].event = "attempt_failed" THEN 1 ELSE 0
        IN  /\ told.fallback = Count(log, "fallback_triggered")
            /\ told.retry = Count(log, "attempt_failed") - told.fallback - stopped

CallInv == CallType /\ Stages
MirrorInv == Trail /\ Tally /\ Told

-----------------------------------------------------------------------------
\* Sequences of events.
LEMMA Appended ==
    ASSUME NEW S, NEW s \in Seq(S), NEW a \in S, NEW b \in S
    PROVE  /\ s \o <<>> = s /\ s \o <<a>> = Append(s, a) /\ s \o <<a, b>> = Append(Append(s, a), b)
OBVIOUS

LEMMA CountAppend ==
    ASSUME NEW S, NEW s \in Seq(S), NEW e \in S, NEW kind
    PROVE  /\ Count(s, kind) \in Nat
           /\ Count(Append(s, e), kind) = Count(s, kind) + IF e.event = kind THEN 1 ELSE 0
<1> DEFINE Of(u) == {n \in DOMAIN u : u[n].event = kind}
<1>1. Len(s) \in Nat /\ DOMAIN s = 1..Len(s)
    OBVIOUS
<1>2. IsFiniteSet(Of(s)) /\ Cardinality(Of(s)) \in Nat
    <2>1. IsFiniteSet(1..Len(s))
        BY <1>1, FS_Interval
    <2>2. Of(s) \subseteq 1..Len(s)
        BY <1>1
    <2> QED
        BY <2>1, <2>2, FS_Subset, FS_CardinalityType
<1>3. Of(Append(s, e)) = IF e.event = kind THEN Of(s) \cup {Len(s) + 1} ELSE Of(s)
    <2>1. /\ DOMAIN Append(s, e) = 1..(Len(s) + 1) /\ Append(s, e)[Len(s) + 1] = e
          /\ \A n \in 1..Len(s) : Append(s, e)[n] = s[n]
        BY <1>1
    <2>2. 1..(Len(s) + 1) = 1..Len(s) \cup {Len(s) + 1}
        BY <1>1
    <2>3. ASSUME NEW n
          PROVE  n \in Of(Append(s, e)) <=> n \in Of(s) \/ (n = Len(s) + 1 /\ e.event = kind)
        BY <1>1, <2>1, <2>2
    <2> QED
        BY <2>3
<1>4. Len(s) + 1 \notin Of(s)
    BY <1>1
<1>5. Cardinality(Of(Append(s, e))) = Cardinality(Of(s)) + IF e.event = kind THEN 1 ELSE 0
    <2> HIDE DEF Of
    <2>1. CASE e.event = kind
        BY <1>2, <1>3, <1>4, <2>1, FS_AddElement
    <2>2. CASE e.event # kind
        <3>1. Of(Append(s, e)) = Of(s)
            BY <1>3, <2>2
        <3> QED
            BY <1>2, <2>2, <3>1
    <2> QED
        BY <2>1, <2>2
<1> QED
    BY <1>2, <1>5 DEF Count

LEMMA CountNothing ==
    ASSUME NEW kind
    PROVE  Count(<<>>, kind) = 0
<1>1. {n \in DOMAIN <<>> : <<>>[n].event = kind} = {}
    OBVIOUS
<1> QED
    BY <1>1, FS_EmptySet DEF Count

\* The ends of a sequence that has grown by one.
LEMMA LastOfAppend ==
    ASSUME NEW S, NEW s \in Seq(S), NEW e \in S
    PROVE  /\ Append(s, e) \in Seq(S) /\ Append(s, e) # <<>>
           /\ Len(Append(s, e)) = Len(s) + 1 /\ Len(s) \in Nat
           /\ Append(s, e)[Len(s) + 1] = e
           /\ s # <<>> => Len(s) >= 1 /\ Append(s, e)[Len(s)] = s[Len(s)]
           /\ \A n \in DOMAIN s : n \in DOMAIN Append(s, e) /\ Append(s, e)[n] = s[n]
           /\ Len(s) + 1 \in DOMAIN Append(s, e)
OBVIOUS

-----------------------------------------------------------------------------
\* The events a call sends.
LEMMA ChainTyped ==
    ASSUME CallType
    PROVE  /\ req.chain \in Seq(Platforms) /\ Len(req.chain) \in Nat /\ index \in Nat /\ index >= 1
           /\ index <= Len(req.chain) + 1
           /\ index <= Len(req.chain) => Platform \in Platforms /\ Platform = req.chain[index]
           /\ index <= Len(req.chain) => NextPlatform \in Platforms \cup {<<>>}
           /\ index < Len(req.chain) => NextPlatform = req.chain[index + 1]
<1>1. req.chain \in Chains
    BY DEF CallType, CallTypeOK
<1>2. req.chain \in Seq(Platforms) /\ Len(req.chain) \in Nat
    BY <1>1, ExecutorAssumption
<1>3. index \in 1..(Len(req.chain) + 1)
    BY DEF CallType, CallTypeOK
<1> QED
    BY <1>2, <1>3 DEF Platform, NextPlatform

LEMMA EventsSent ==
    ASSUME CallType, index <= Len(req.chain), NEW n \in Nat,
           NEW s \in Statuses, NEW k \in Nat
    PROVE  LET o == Outcome(s, Platform, k)
           IN  /\ AttemptFailed(o, n) \in Entries /\ AttemptFailed(o, n).event = "attempt_failed"
               /\ FallbackTriggered \in Entries /\ FallbackTriggered.event = "fallback_triggered"
               /\ FallbackTriggered.from = req.chain[index]
               /\ index < Len(req.chain) => FallbackTriggered.to = req.chain[index + 1]
<1>1. /\ Platform \in Platforms /\ Platform = req.chain[index]
      /\ NextPlatform \in Platforms \cup {<<>>}
      /\ index < Len(req.chain) => NextPlatform = req.chain[index + 1]
    BY ChainTyped
<1>2. PICK p \in Platforms : p = Platform
    BY <1>1
<1>3. PICK q \in Platforms \cup {<<>>} : q = NextPlatform
    BY <1>1
<1>4. [event |-> "attempt_failed", platform |-> p, status |-> s, index |-> n] \in Entries
    BY DEF Entries
<1>5. [event |-> "fallback_triggered", from |-> p, to |-> q] \in Entries
    BY DEF Entries
<1> QED
    BY <1>1, <1>2, <1>3, <1>4, <1>5 DEF Outcome, AttemptFailed, FallbackTriggered

LEMMA EndSent ==
    ASSUME CallType, NEW o, o.status \in Statuses
    PROVE  /\ Mirrored(o) \in Entries /\ Mirrored(o).event = "mirrored"
           /\ Mirrored(o).decisions = decisions
           /\ Ended(o) \in Entries /\ Ended(o).event \in {"succeeded", "failed"}
<1>1. decisions \in [retry : Nat, fallback : Nat]
    BY DEF CallType, CallTypeOK
<1>2. PICK s \in Statuses : s = o.status
    OBVIOUS
<1>3. [event |-> "mirrored", status |-> s, decisions |-> decisions] \in Entries
    BY <1>1 DEF Entries
<1>4. \A e \in {"succeeded", "failed"} : [event |-> e, status |-> s] \in Entries
    BY DEF Entries
<1>5. Ended(o) = [event |-> IF s = "execution_succeeded" THEN "succeeded" ELSE "failed", status |-> s]
    BY <1>2 DEF Ended
<1>6. CASE s = "execution_succeeded"
    BY <1>2, <1>3, <1>4, <1>5, <1>6 DEF Mirrored
<1>7. CASE s # "execution_succeeded"
    BY <1>2, <1>3, <1>4, <1>5, <1>7 DEF Mirrored
<1> QED
    BY <1>6, <1>7

-----------------------------------------------------------------------------
\* What a failure of the platform under the cursor comes to, in a preflight or a run:
\* the end of the call, another try, the next platform, or, if one try is all there
\* is, the next platform without a word.
Failing(o, n) ==
    /\ at \in {"preflight", "run"} /\ index <= Len(req.chain) /\ req.chain[index] \in Registered
    /\ last' = o /\ UNCHANGED req
    /\ attempted' = IF at = "run" THEN Attempting ELSE Append(attempted, Platform)
    /\ \/ /\ log' = Append(Append(Append(log, AttemptFailed(o, n)), Mirrored(o)), Ended(o))
          /\ at' = "done" /\ result' # <<>> /\ result'.status = o.status
          /\ UNCHANGED <<index, tries, decisions>>
       \/ /\ log' = Append(log, AttemptFailed(o, n))
          /\ at = "run" /\ tries = 1 /\ 1 < AttemptCap /\ tries' = 2
          /\ decisions' = [decisions EXCEPT !.retry = @ + 1]
          /\ UNCHANGED <<index, at, result>>
       \/ /\ log' = Append(Append(log, AttemptFailed(o, n)), FallbackTriggered)
          /\ index' = index + 1 /\ tries' = 1 /\ at' = "preflight"
          /\ decisions' = [decisions EXCEPT !.fallback = @ + 1]
          /\ UNCHANGED result
       \/ /\ log' = Append(log, AttemptFailed(o, n))
          /\ at = "run" /\ AttemptCap = 1
          /\ index' = index + 1 /\ tries' = 1 /\ at' = "preflight"
          /\ UNCHANGED <<decisions, result>>

LEMMA FailureKinds ==
    ASSUME CallType, Stages, NEW s \in FailureStatuses,
           NEW raised \in BOOLEAN, PreflightFails(s) \/ RunFails(s, raised)
    PROVE  \E k \in 0..AttemptCap, n \in Nat : Failing(Outcome(s, Platform, k), n)
<1>1. /\ tries \in 1..AttemptCap /\ AttemptCap \in Nat \ {0} /\ log \in Seq(Entries)
      /\ 1 \in 0..AttemptCap /\ 0 \in 0..AttemptCap /\ tries \in 0..AttemptCap /\ tries \in Nat
    BY ExecutorAssumption DEF CallType, CallTypeOK
<1>2. s \in Statuses
    BY DEF Statuses
<1>3. ASSUME NEW o, NEW n \in Nat, NEW tried, NEW hint, index <= Len(req.chain), NEW k \in Nat,
             o = Outcome(s, Platform, k), Finish(o, tried, hint, <<AttemptFailed(o, n)>>)
      PROVE  /\ log' = Append(Append(Append(log, AttemptFailed(o, n)), Mirrored(o)), Ended(o))
             /\ at' = "done" /\ result' # <<>> /\ result'.status = o.status
    <2>1. o.status \in Statuses
        BY <1>2, <1>3 DEF Outcome
    <2>2. AttemptFailed(o, n) \in Entries
        BY <1>2, <1>3, EventsSent
    <2>3. Mirrored(o) \in Entries /\ Ended(o) \in Entries
        BY <2>1, EndSent
    <2>4. log \o <<AttemptFailed(o, n)>> = Append(log, AttemptFailed(o, n))
        BY <1>1, <2>2, Appended
    <2>5. Append(log, AttemptFailed(o, n)) \in Seq(Entries)
        BY <1>1, <2>2
    <2>6. Append(log, AttemptFailed(o, n)) \o <<Mirrored(o), Ended(o)>>
             = Append(Append(Append(log, AttemptFailed(o, n)), Mirrored(o)), Ended(o))
        BY <2>3, <2>5, Appended
    <2>7. log' = log \o <<AttemptFailed(o, n)>> \o <<Mirrored(o), Ended(o)>>
        BY <1>3 DEF Finish
    <2>8. /\ at' = "done"
          /\ result' = [status |-> o.status, platform |-> o.platform, attempts |-> o.attempts,
                        attempted |-> tried, hint |-> hint]
        BY <1>3 DEF Finish
    <2>9. result'.status = o.status /\ "status" \in DOMAIN result'
        BY <2>8
    <2>10. "status" \notin DOMAIN <<>>
        OBVIOUS
    <2> QED
        BY <2>4, <2>6, <2>7, <2>8, <2>9, <2>10
<1>4. ASSUME NEW o, NEW n \in Nat, index <= Len(req.chain), NEW k \in Nat, o = Outcome(s, Platform, k)
      PROVE  log \o <<AttemptFailed(o, n), FallbackTriggered>>
               = Append(Append(log, AttemptFailed(o, n)), FallbackTriggered)
    BY <1>1, <1>2, <1>4, EventsSent, Appended
<1>5. CASE PreflightFails(s)
    <2> DEFINE d == Decide(s, 1, Platform, NextPlatform)
    <2>1. PICK o : o = Outcome(s, Platform, 0)
        OBVIOUS
    <2>2. /\ at = "preflight" /\ index <= Len(req.chain) /\ req.chain[index] \in Registered
          /\ attempted' = Append(attempted, Platform) /\ last' = o /\ UNCHANGED req
          /\ Stops(o, d, 0) \/ FallsBack(o, d, 0)
        BY <1>5, <2>1 DEF PreflightFails, Platform
    <2> HIDE DEF d
    <2>3. CASE Stops(o, d, 0)
        <3>1. Finish(o, attempted', d.hint, <<AttemptFailed(o, 0)>>) /\ UNCHANGED <<index, tries, decisions>>
            BY <2>3 DEF Stops
        <3> QED
            BY <1>1, <1>3, <2>1, <2>2, <3>1 DEF Failing
    <2>4. CASE FallsBack(o, d, 0)
        <3>1. /\ log' = log \o <<AttemptFailed(o, 0), FallbackTriggered>>
              /\ decisions' = [decisions EXCEPT !.fallback = @ + 1]
              /\ index' = index + 1 /\ tries' = 1 /\ at' = "preflight" /\ UNCHANGED result
            BY <2>4 DEF FallsBack, Advance
        <3> QED
            BY <1>1, <1>4, <2>1, <2>2, <3>1 DEF Failing
    <2> QED
        BY <2>2, <2>3, <2>4
<1>6. CASE RunFails(s, raised)
    <2> DEFINE d == Decide(s, tries, Platform, NextPlatform)
    <2>1. PICK k \in 0..AttemptCap : k = IF raised THEN tries ELSE 1
        BY <1>1
    <2>2. PICK o : o = Outcome(s, Platform, k)
        OBVIOUS
    <2>3. /\ at = "run" /\ attempted' = Attempting /\ last' = o /\ UNCHANGED req
          /\ Stops(o, d, tries) \/ Retries(o, d) \/ FallsBack(o, d, tries)
        BY <1>6, <2>1, <2>2 DEF RunFails
    <2>4. index <= Len(req.chain) /\ req.chain[index] \in Registered
        BY <2>3 DEF Stages
    <2>5. d.action = "retry" => tries = 1
        BY DEF Decide
    <2> HIDE DEF d
    <2>6. CASE Stops(o, d, tries)
        <3>1. Finish(o, attempted', d.hint, <<AttemptFailed(o, tries)>>) /\ UNCHANGED <<index, tries, decisions>>
            BY <2>6 DEF Stops
        <3> QED
            BY <1>1, <1>3, <2>2, <2>3, <2>4, <3>1 DEF Failing
    <2>7. CASE FallsBack(o, d, tries)
        <3>1. /\ log' = log \o <<AttemptFailed(o, tries), FallbackTriggered>>
              /\ decisions' = [decisions EXCEPT !.fallback = @ + 1]
              /\ index' = index + 1 /\ tries' = 1 /\ at' = "preflight" /\ UNCHANGED result
            BY <2>7 DEF FallsBack, Advance
        <3> QED
            BY <1>1, <1>4, <2>2, <2>3, <2>4, <3>1 DEF Failing
    <2>8. CASE Retries(o, d)
        <3>1. tries = 1 /\ log' = Append(log, AttemptFailed(o, tries)) /\ UNCHANGED result
            BY <2>5, <2>8 DEF Retries
        <3>2. \/ /\ 1 < AttemptCap /\ decisions' = [decisions EXCEPT !.retry = @ + 1] /\ tries' = 2
                 /\ UNCHANGED <<index, at>>
              \/ /\ AttemptCap = 1 /\ index' = index + 1 /\ tries' = 1 /\ at' = "preflight"
                 /\ UNCHANGED decisions
            BY <1>1, <2>8, <3>1 DEF Retries, Advance
        <3> QED
            BY <1>1, <2>2, <2>3, <2>4, <3>1, <3>2 DEF Failing
    <2> QED
        BY <2>3, <2>6, <2>7, <2>8
<1> QED
    BY <1>5, <1>6

\* A call that ends sends the metadata and then the terminal webhook.
LEMMA EndOf ==
    ASSUME CallType, NEW o, o.status \in Statuses, NEW tried, NEW hint, NEW sent,
           sent = <<>> \/ sent = <<Started>>, Finish(o, tried, hint, sent)
    PROVE  /\ at' = "done" /\ result' # <<>> /\ result'.status = o.status
           /\ sent = <<>> => log' = Append(Append(log, Mirrored(o)), Ended(o))
           /\ sent = <<Started>> =>
                 log' = Append(Append(Append(log, Started), Mirrored(o)), Ended(o))
<1>1. log \in Seq(Entries) /\ Mirrored(o) \in Entries /\ Ended(o) \in Entries
    BY EndSent DEF CallType
<1>2. Started \in Entries
    BY DEF Started, Entries
<1>3. ASSUME NEW l \in Seq(Entries), l = log \o sent
      PROVE  log' = Append(Append(l, Mirrored(o)), Ended(o))
    <2>1. log' = log \o sent \o <<Mirrored(o), Ended(o)>>
        BY DEF Finish
    <2>2. l \o <<Mirrored(o), Ended(o)>> = Append(Append(l, Mirrored(o)), Ended(o))
        BY <1>1, Appended
    <2> QED
        BY <1>3, <2>1, <2>2
<1>4. ASSUME sent = <<>>
      PROVE  log' = Append(Append(log, Mirrored(o)), Ended(o))
    <2>1. log \o sent = log
        BY <1>1, <1>2, <1>4, Appended
    <2> QED
        BY <1>1, <1>3, <2>1
<1>5. ASSUME sent = <<Started>>
      PROVE  log' = Append(Append(Append(log, Started), Mirrored(o)), Ended(o))
    <2>1. log \o sent = Append(log, Started) /\ Append(log, Started) \in Seq(Entries)
        BY <1>1, <1>2, <1>5, Appended
    <2> QED
        BY <1>1, <1>3, <2>1
<1>6. /\ at' = "done"
      /\ result' = [status |-> o.status, platform |-> o.platform, attempts |-> o.attempts,
                    attempted |-> tried, hint |-> hint]
    BY DEF Finish
<1>7. result'.status = o.status /\ "status" \in DOMAIN result'
    BY <1>6
<1>8. "status" \notin DOMAIN <<>>
    OBVIOUS
<1> QED
    BY <1>4, <1>5, <1>6, <1>7, <1>8

\* What is left of Next: the gate, a platform without an adapter, a preflight that
\* passes, an answer, and a chain that is used up.
LEMMA StartKinds ==
    ASSUME CallType, Stages, Start
    PROVE  /\ at = "start" /\ UNCHANGED <<req, index, tries, attempted, last, decisions>>
           /\ \/ /\ Refused /\ at' = "done" /\ result' # <<>> /\ result'.status = "provider_unavailable"
                 /\ \E o : /\ o.status = "provider_unavailable"
                           /\ log' = Append(Append(Append(log, Started), Mirrored(o)), Ended(o))
              \/ ~ Refused /\ at' = "preflight" /\ log' = Append(log, Started) /\ UNCHANGED result
<1>1. at = "start" /\ UNCHANGED <<req, index, tries, attempted, last, decisions>> /\ log = <<>>
    BY DEF Start, Stages
<1>2. CASE Refused
    <2>1. PICK o : o = IF req.chain = <<>> THEN EmptyChain
                       ELSE Outcome("provider_unavailable", Head(req.chain), 0)
        OBVIOUS
    <2>2. o.status = "provider_unavailable" /\ o.status \in Statuses
        BY <2>1 DEF EmptyChain, Outcome, Statuses, FailureStatuses
    <2>3. PICK hint : Finish(o, <<>>, hint, <<Started>>)
        BY <1>2, <2>1 DEF Start
    <2> QED
        BY <1>1, <1>2, <2>2, <2>3, EndOf
<1>3. CASE ~ Refused
    <2>1. log' = <<Started>> /\ at' = "preflight" /\ UNCHANGED result
        BY <1>3 DEF Start
    <2>2. Append(<<>>, Started) = <<Started>>
        OBVIOUS
    <2> QED
        BY <1>1, <1>3, <2>1, <2>2
<1> QED
    BY <1>2, <1>3

LEMMA SuccessKind ==
    ASSUME CallType, Stages, RunSucceeds
    PROVE  /\ at = "run" /\ at' = "done" /\ result' # <<>> /\ result'.status = "execution_succeeded"
           /\ attempted' = Attempting /\ last' = Outcome("execution_succeeded", Platform, 1)
           /\ UNCHANGED <<req, index, tries, decisions>>
           /\ \E o : /\ o.status = "execution_succeeded"
                     /\ log' = Append(Append(log, Mirrored(o)), Ended(o))
<1>1. PICK o : o = Outcome("execution_succeeded", Platform, 1)
    OBVIOUS
<1>2. o.status = "execution_succeeded" /\ o.status \in Statuses
    BY <1>1 DEF Outcome, Statuses
<1>3. Finish(o, attempted', carry, <<>>)
    BY <1>1 DEF RunSucceeds
<1> QED
    BY <1>1, <1>2, <1>3, EndOf DEF RunSucceeds

LEMMA ExhaustedKind ==
    ASSUME CallType, Stages, Exhausted
    PROVE  /\ at = "preflight" /\ at' = "done" /\ result' # <<>> /\ result'.status # "execution_succeeded"
           /\ index > Len(req.chain)
           /\ UNCHANGED <<req, index, tries, attempted, last, decisions>>
           /\ \E o : /\ o.status \in Statuses \ {"execution_succeeded"} /\ result'.status = o.status
                     /\ log' = Append(Append(log, Mirrored(o)), Ended(o))
<1>1. PICK o : o = IF last = <<>> THEN EmptyChain ELSE [last EXCEPT !.attempts = Len(attempted)]
    OBVIOUS
<1>2. at = "preflight" /\ index > Len(req.chain) /\ UNCHANGED <<req, index, tries, attempted, last, decisions>>
    BY DEF Exhausted
<1>3. o.status \in Statuses \ {"execution_succeeded"}
    <2>1. CASE last = <<>>
        BY <1>1, <2>1 DEF EmptyChain, Outcome, Statuses, FailureStatuses
    <2>2. CASE last # <<>>
        <3>1. last \in [status : Statuses, platform : Platforms, attempts : 0..AttemptCap]
            BY <2>2 DEF CallType, CallTypeOK, NoResult
        <3>2. last.status # "execution_succeeded"
            BY <1>2, <2>2 DEF Stages
        <3>3. o.status = last.status
            BY <1>1, <2>2, <3>1
        <3> QED
            BY <3>1, <3>2, <3>3
    <2> QED
        BY <2>1, <2>2
<1>4. Finish(o, attempted, carry, <<>>)
    BY <1>1 DEF Exhausted, NoResult
<1> QED
    BY <1>2, <1>3, <1>4, EndOf

-----------------------------------------------------------------------------
LEMMA InitCall ==
    ASSUME CallInit
    PROVE  CallInv
<1>1. <<>> \in Seq(Platforms) /\ <<>> \in Seq(Entries)
    OBVIOUS
<1>2. req \in [chain : Chains, lineage : Lineages] /\ req.chain \in Seq(Platforms)
    BY ExecutorAssumption DEF CallInit
<1>3. Len(req.chain) \in Nat /\ AttemptCap \in Nat \ {0}
    BY <1>2, ExecutorAssumption
<1>4. [retry |-> 0, fallback |-> 0] \in [retry : Nat, fallback : Nat]
    OBVIOUS
<1>5. CallType
    BY <1>1, <1>2, <1>3, <1>4 DEF CallInit, CallType, CallTypeOK, NoResult
<1>6. Stages
    BY DEF CallInit, Stages, NoResult
<1> QED
    BY <1>5, <1>6 DEF CallInv

LEMMA AttemptingTyped ==
    ASSUME CallType, index <= Len(req.chain)
    PROVE  Attempting \in Seq(Platforms) /\ Append(attempted, Platform) \in Seq(Platforms)
<1>1. PICK p \in Platforms : p = Platform
    BY ChainTyped
<1>2. attempted \in Seq(Platforms)
    BY DEF CallType, CallTypeOK
<1>3. Append(attempted, p) \in Seq(Platforms)
    BY <1>1, <1>2
<1> QED
    BY <1>1, <1>2, <1>3 DEF Attempting

LEMMA FailingCall ==
    ASSUME CallInv, NEW s \in FailureStatuses, NEW k \in 0..AttemptCap, NEW n \in Nat,
           Failing(Outcome(s, Platform, k), n)
    PROVE  CallInv'
<1>0. CallType /\ Stages
    BY DEF CallInv
<1>1. PICK o : o = Outcome(s, Platform, k)
    OBVIOUS
<1>2. /\ index <= Len(req.chain) /\ last' = o /\ req' = req /\ at \in {"preflight", "run"}
      /\ attempted' = IF at = "run" THEN Attempting ELSE Append(attempted, Platform)
    BY <1>1 DEF Failing
<1>3. /\ req \in [chain : Chains, lineage : Lineages] /\ req.chain \in Seq(Platforms) /\ Len(req.chain) \in Nat
      /\ index \in 1..(Len(req.chain) + 1) /\ tries \in 1..AttemptCap /\ AttemptCap \in Nat \ {0}
      /\ decisions \in [retry : Nat, fallback : Nat] /\ log \in Seq(Entries)
    BY <1>0, ChainTyped, ExecutorAssumption DEF CallType, CallTypeOK
<1>4. s \in Statuses /\ s # "execution_succeeded"
    BY DEF Statuses, FailureStatuses, SetupStatuses, RetriedStatuses
<1>5. /\ o \in [status : Statuses, platform : Platforms, attempts : 0..AttemptCap]
      /\ o.status # "execution_succeeded" /\ o.status \in Statuses
    <2>1. PICK p \in Platforms : p = Platform
        BY <1>0, <1>2, ChainTyped
    <2> QED
        BY <1>1, <1>4, <2>1 DEF Outcome
<1>6. attempted' \in Seq(Platforms)
    BY <1>0, <1>2, AttemptingTyped
<1>7. PICK f \in Entries, t \in Entries, m \in Entries, e \in Entries :
          /\ f = AttemptFailed(o, n) /\ t = FallbackTriggered
          /\ m = Mirrored(o) /\ e = Ended(o)
    <2>1. k \in Nat
        BY <1>3
    <2> QED
        BY <1>0, <1>1, <1>2, <1>4, <1>5, <2>1, EventsSent, EndSent
<1>8. /\ Append(log, f) \in Seq(Entries) /\ Append(log, f) # <<>>
      /\ Append(Append(log, f), t) \in Seq(Entries) /\ Append(Append(log, f), t) # <<>>
      /\ Append(Append(Append(log, f), m), e) \in Seq(Entries) /\ Append(Append(Append(log, f), m), e) # <<>>
    <2>1. Append(log, f) \in Seq(Entries) /\ Append(log, f) # <<>>
        BY <1>3, LastOfAppend
    <2>2. Append(Append(log, f), t) \in Seq(Entries) /\ Append(Append(log, f), t) # <<>>
        BY <2>1, LastOfAppend
    <2>3. Append(Append(log, f), m) \in Seq(Entries)
        BY <2>1, LastOfAppend
    <2>4. Append(Append(Append(log, f), m), e) \in Seq(Entries) /\ Append(Append(Append(log, f), m), e) # <<>>
        BY <2>3, LastOfAppend
    <2> QED
        BY <2>1, <2>2, <2>4
<1>9. \/ /\ log' = Append(Append(Append(log, f), m), e)
         /\ at' = "done" /\ result' # <<>> /\ UNCHANGED <<index, tries, decisions>>
      \/ /\ log' = Append(log, f) /\ at = "run" /\ 1 < AttemptCap /\ tries' = 2
         /\ decisions' = [decisions EXCEPT !.retry = @ + 1] /\ UNCHANGED <<index, at, result>>
      \/ /\ log' = Append(Append(log, f), t) /\ index' = index + 1 /\ tries' = 1 /\ at' = "preflight"
         /\ decisions' = [decisions EXCEPT !.fallback = @ + 1] /\ UNCHANGED result
      \/ /\ log' = Append(log, f) /\ index' = index + 1 /\ tries' = 1 /\ at' = "preflight"
         /\ UNCHANGED <<decisions, result>>
    BY <1>1, <1>7 DEF Failing
<1>10. log' \in Seq(Entries) /\ log' # <<>>
    BY <1>8, <1>9
<1>11. decisions' \in [retry : Nat, fallback : Nat]
    <2>1. /\ [decisions EXCEPT !.retry = @ + 1] \in [retry : Nat, fallback : Nat]
          /\ [decisions EXCEPT !.fallback = @ + 1] \in [retry : Nat, fallback : Nat]
        BY <1>3
    <2>2. decisions' \in {decisions, [decisions EXCEPT !.retry = @ + 1], [decisions EXCEPT !.fallback = @ + 1]}
        BY <1>9
    <2> QED
        BY <1>3, <2>1, <2>2
<1>12. index' \in 1..(Len(req.chain) + 1) /\ tries' \in 1..AttemptCap /\ at' \in {"preflight", "run", "done"}
    BY <1>2, <1>3, <1>9
<1>13. CallType'
    BY <1>2, <1>3, <1>5, <1>6, <1>10, <1>11, <1>12 DEF CallType, CallTypeOK
<1>14. Stages'
    <2>1. /\ result = <<>> /\ ~ Refused
          /\ at = "run" => index <= Len(req.chain) /\ req.chain[index] \in Registered
          /\ (at = "preflight" => tries = 1)
        BY <1>0, <1>2 DEF Stages
    <2>2. Refused' = Refused
        BY <1>2 DEF Refused
    <2> HIDE DEF Refused
    <2> QED
        BY <1>2, <1>5, <1>9, <1>10, <1>12, <2>1, <2>2 DEF Stages
<1> QED
    BY <1>13, <1>14 DEF CallInv

LEMMA NextCall ==
    ASSUME CallInv, [CallNext]_callVars
    PROVE  CallInv'
<1>0. CallType /\ Stages
    BY DEF CallInv
<1>1. /\ req \in [chain : Chains, lineage : Lineages] /\ req.chain \in Seq(Platforms) /\ Len(req.chain) \in Nat
      /\ index \in 1..(Len(req.chain) + 1) /\ tries \in 1..AttemptCap /\ AttemptCap \in Nat \ {0}
      /\ decisions \in [retry : Nat, fallback : Nat] /\ log \in Seq(Entries) /\ attempted \in Seq(Platforms)
      /\ last # <<>> => last \in [status : Statuses, platform : Platforms, attempts : 0..AttemptCap]
    BY <1>0, ChainTyped, ExecutorAssumption DEF CallType, CallTypeOK, NoResult
<1>2. ASSUME NEW o, o.status \in Statuses, NEW l \in Seq(Entries),
             log' = Append(Append(l, Mirrored(o)), Ended(o))
      PROVE  log' \in Seq(Entries) /\ log' # <<>>
    <2>1. Mirrored(o) \in Entries /\ Ended(o) \in Entries
        BY <1>0, <1>2, EndSent
    <2>2. Append(l, Mirrored(o)) \in Seq(Entries)
        BY <2>1, LastOfAppend
    <2> QED
        BY <1>2, <2>1, <2>2, LastOfAppend
<1>3. Started \in Entries
    BY DEF Started, Entries
<1>4. Append(log, Started) \in Seq(Entries) /\ Append(log, Started) # <<>>
    BY <1>1, <1>3, LastOfAppend
<1>5. CASE Start
    <2>1. /\ at = "start" /\ UNCHANGED <<req, index, tries, attempted, last, decisions>>
          /\ \/ /\ Refused /\ at' = "done" /\ result' # <<>>
                /\ \E o : /\ o.status = "provider_unavailable"
                          /\ log' = Append(Append(Append(log, Started), Mirrored(o)), Ended(o))
             \/ ~ Refused /\ at' = "preflight" /\ log' = Append(log, Started) /\ UNCHANGED result
        BY <1>0, <1>5, StartKinds
    <2>2. log' \in Seq(Entries) /\ log' # <<>>
        <3>1. "provider_unavailable" \in Statuses
            BY DEF Statuses, FailureStatuses
        <3> QED
            BY <1>2, <1>4, <2>1, <3>1
    <2>3. CallType'
        BY <1>1, <2>1, <2>2 DEF CallType, CallTypeOK, NoResult
    <2>4. Stages'
        <3>1. Refused' = Refused
            BY <2>1 DEF Refused
        <3> QED
            BY <1>0, <2>1, <2>2, <3>1 DEF Stages
    <2> QED
        BY <2>3, <2>4 DEF CallInv
<1>6. CASE MissingAdapter
    <2>1. PICK p \in Platforms : p = Platform
        BY <1>0, <1>6, ChainTyped DEF MissingAdapter
    <2>2. /\ at = "preflight" /\ at' = "preflight" /\ index <= Len(req.chain) /\ index' = index + 1 /\ tries' = 1
          /\ attempted' = Append(attempted, p)
          /\ last' = [status |-> "provider_unavailable", platform |-> p, attempts |-> 0]
          /\ UNCHANGED <<req, decisions, log, result>>
        BY <1>6, <2>1 DEF MissingAdapter, Advance, Outcome
    <2>3. attempted' \in Seq(Platforms) /\ index' \in 1..(Len(req.chain) + 1)
        BY <1>1, <2>2
    <2>4. /\ last' \in [status : Statuses, platform : Platforms, attempts : 0..AttemptCap]
          /\ last'.status # "execution_succeeded"
        <3>1. "provider_unavailable" \in Statuses /\ 0 \in 0..AttemptCap
            BY <1>1 DEF Statuses, FailureStatuses
        <3> QED
            BY <2>2, <3>1
    <2>5. CallType'
        BY <1>0, <1>1, <2>2, <2>3, <2>4 DEF CallType, CallTypeOK, NoResult
    <2>6. Stages'
        <3>1. Refused' = Refused
            BY <2>2 DEF Refused
        <3> QED
            BY <1>0, <2>2, <2>4, <3>1 DEF Stages
    <2> QED
        BY <2>5, <2>6 DEF CallInv
<1>7. CASE PreflightPasses
    <2>1. /\ at = "preflight" /\ at' = "run" /\ index <= Len(req.chain) /\ req.chain[index] \in Registered
          /\ UNCHANGED <<req, index, tries, attempted, last, decisions, log, result>>
        BY <1>7 DEF PreflightPasses, Platform
    <2>2. CallType'
        BY <1>0, <2>1 DEF CallType, CallTypeOK
    <2>3. Refused' = Refused
        BY <2>1 DEF Refused
    <2>4. Stages'
        BY <1>0, <2>1, <2>3 DEF Stages
    <2> QED
        BY <2>2, <2>4 DEF CallInv
<1>8. ASSUME NEW s \in FailureStatuses, NEW raised \in BOOLEAN,
             PreflightFails(s) \/ RunFails(s, raised)
      PROVE  CallInv'
    BY <1>0, <1>8, FailureKinds, FailingCall
<1>9. CASE RunSucceeds
    <2>1. /\ at = "run" /\ at' = "done" /\ result' # <<>>
          /\ attempted' = Attempting /\ last' = Outcome("execution_succeeded", Platform, 1)
          /\ UNCHANGED <<req, index, tries, decisions>>
          /\ \E o : /\ o.status = "execution_succeeded"
                    /\ log' = Append(Append(log, Mirrored(o)), Ended(o))
        BY <1>0, <1>9, SuccessKind
    <2>2. "execution_succeeded" \in Statuses
        BY DEF Statuses
    <2>3. log' \in Seq(Entries) /\ log' # <<>>
        BY <1>1, <1>2, <2>1, <2>2
    <2>4. index <= Len(req.chain)
        BY <1>0, <2>1 DEF Stages
    <2>5. attempted' \in Seq(Platforms)
        BY <1>0, <2>1, <2>4, AttemptingTyped
    <2>6. PICK p \in Platforms : p = Platform
        BY <1>0, <2>4, ChainTyped
    <2>7. last' \in [status : Statuses, platform : Platforms, attempts : 0..AttemptCap]
        BY <1>1, <2>1, <2>2, <2>6 DEF Outcome
    <2>8. CallType'
        BY <1>1, <2>1, <2>3, <2>5, <2>7 DEF CallType, CallTypeOK
    <2>9. Stages'
        BY <2>1, <2>3 DEF Stages
    <2> QED
        BY <2>8, <2>9 DEF CallInv
<1>10. CASE Exhausted
    <2>1. /\ at' = "done" /\ result' # <<>> /\ UNCHANGED <<req, index, tries, attempted, last, decisions>>
          /\ \E o : /\ o.status \in Statuses \ {"execution_succeeded"}
                    /\ log' = Append(Append(log, Mirrored(o)), Ended(o))
        BY <1>0, <1>10, ExhaustedKind
    <2>2. log' \in Seq(Entries) /\ log' # <<>>
        BY <1>1, <1>2, <2>1
    <2>3. CallType'
        BY <1>0, <2>1, <2>2 DEF CallType, CallTypeOK
    <2>4. Stages'
        BY <2>1, <2>2 DEF Stages
    <2> QED
        BY <2>3, <2>4 DEF CallInv
<1>11. CASE UNCHANGED callVars
    <2>1. UNCHANGED <<req, at, index, tries, attempted, last, decisions, log, result>>
        BY <1>11 DEF callVars
    <2>2. Refused' = Refused
        BY <2>1 DEF Refused
    <2> QED
        BY <1>0, <2>1, <2>2 DEF CallInv, CallType, Stages, CallTypeOK
<1>12. \A s \in PreflightStatuses : s \in FailureStatuses
    BY DEF PreflightStatuses, FailureStatuses
<1> QED
    BY <1>5, <1>6, <1>7, <1>8, <1>9, <1>10, <1>11, <1>12 DEF CallNext, AdapterAnswers

-----------------------------------------------------------------------------
\* A failure is a step of the walk: it ends, repeats its platform, or moves on by one.
LEMMA FailingWalks ==
    ASSUME CallInv, CallInv', NEW s \in FailureStatuses, NEW k \in 0..AttemptCap,
           NEW n \in Nat, Failing(Outcome(s, Platform, k), n)
    PROVE  CallWalk!Next
<1>0. CallType /\ Stages /\ Stages'
    BY DEF CallInv
<1>1. PICK o : o = Outcome(s, Platform, k)
    OBVIOUS
<1>2. o.status # "execution_succeeded"
    BY <1>1 DEF Outcome, FailureStatuses, SetupStatuses, RetriedStatuses
<1>3. /\ at \in {"preflight", "run"} /\ index <= Len(req.chain) /\ req' = req
      /\ \/ at' = "done" /\ result' # <<>> /\ result'.status = o.status /\ UNCHANGED <<index, tries>>
         \/ at = "run" /\ tries = 1 /\ 1 < AttemptCap /\ tries' = 2 /\ UNCHANGED <<index, at, result>>
         \/ index' = index + 1 /\ tries' = 1 /\ at' = "preflight" /\ UNCHANGED result
    BY <1>1 DEF Failing
<1>4. log # <<>> /\ ~ Refused /\ result = <<>>
    BY <1>0, <1>3 DEF Stages
<1>5. log' # <<>> /\ Refused' = Refused
    <2>1. Refused' = Refused
        BY <1>3 DEF Refused
    <2>2. log' # <<>>
        BY <1>0, <1>3 DEF Stages
    <2> QED
        BY <2>1, <2>2
<1>6. /\ req.chain \in Seq(Platforms) /\ Len(req.chain) \in Nat /\ index \in 1..(Len(req.chain) + 1)
      /\ AttemptCap \in Nat /\ tries \in Nat
    BY <1>0, ChainTyped, ExecutorAssumption DEF CallType, CallTypeOK
<1> USE DEF NoResult
<1> HIDE DEF Refused
<1>7. CASE at' = "done" /\ result' # <<>> /\ result'.status = o.status /\ UNCHANGED <<index, tries>>
    <2>1. CallWalk!GiveUp
        BY <1>2, <1>3, <1>4, <1>5, <1>7 DEF CallWalk!GiveUp
    <2> QED
        BY <2>1 DEF CallWalk!Next
<1>8. CASE at = "run" /\ tries = 1 /\ 1 < AttemptCap /\ tries' = 2 /\ UNCHANGED <<index, at, result>>
    <2>1. CallWalk!TryAgain
        BY <1>3, <1>4, <1>5, <1>6, <1>8 DEF CallWalk!TryAgain
    <2> QED
        BY <2>1 DEF CallWalk!Next
<1>9. CASE index' = index + 1 /\ tries' = 1 /\ at' = "preflight" /\ UNCHANGED result
    <2>1. CallWalk!MoveOn
        BY <1>3, <1>4, <1>5, <1>6, <1>9 DEF CallWalk!MoveOn
    <2> QED
        BY <2>1 DEF CallWalk!Next
<1> QED
    BY <1>3, <1>7, <1>8, <1>9

LEMMA CallWalks ==
    ASSUME CallInv, CallInv', [CallNext]_callVars
    PROVE  [CallWalk!Next]_(CallWalk!walk)
<1>0. CallType /\ Stages /\ Stages'
    BY DEF CallInv
<1>1. /\ req.chain \in Seq(Platforms) /\ Len(req.chain) \in Nat /\ index \in 1..(Len(req.chain) + 1)
    BY <1>0, ChainTyped
<1>2. req' = req
    BY DEF CallNext, Start, MissingAdapter, AdapterAnswers, PreflightPasses, PreflightFails,
           RunSucceeds, RunFails, Exhausted, callVars
<1>3. Refused' = Refused
    BY <1>2 DEF Refused
<1> USE DEF NoResult
<1>4. CASE Start
    <2>1. /\ at = "start" /\ UNCHANGED <<req, index, tries>>
          /\ \/ Refused /\ at' = "done" /\ result' # <<>> /\ result'.status = "provider_unavailable"
             \/ ~ Refused /\ at' = "preflight" /\ UNCHANGED result
        BY <1>0, <1>4, StartKinds
    <2>2. log = <<>> /\ result = <<>> /\ index = 1 /\ tries = 1 /\ log' # <<>>
        BY <1>0, <2>1 DEF Stages
    <2>3. CASE Refused
        <3>1. CallWalk!GiveUp
            BY <1>3, <2>1, <2>2, <2>3 DEF CallWalk!GiveUp
        <3> QED
            BY <3>1 DEF CallWalk!Next
    <2>4. CASE ~ Refused
        <3>1. CallWalk!FixChain
            BY <1>1, <1>2, <1>3, <2>1, <2>2, <2>4 DEF CallWalk!FixChain
        <3> QED
            BY <3>1 DEF CallWalk!Next
    <2> QED
        BY <2>3, <2>4
<1>5. CASE MissingAdapter
    <2>1. /\ at = "preflight" /\ index <= Len(req.chain) /\ index' = index + 1 /\ tries' = 1
          /\ UNCHANGED <<log, result>>
        BY <1>5 DEF MissingAdapter, Advance
    <2>2. log # <<>> /\ ~ Refused /\ result = <<>>
        BY <1>0, <2>1 DEF Stages
    <2>3. CallWalk!MoveOn
        BY <1>1, <1>2, <1>3, <2>1, <2>2 DEF CallWalk!MoveOn
    <2> QED
        BY <2>3 DEF CallWalk!Next
<1>6. CASE PreflightPasses
    BY <1>3, <1>6 DEF PreflightPasses, CallWalk!walk
<1>7. ASSUME NEW s \in FailureStatuses, NEW raised \in BOOLEAN,
             PreflightFails(s) \/ RunFails(s, raised)
      PROVE  CallWalk!Next
    BY <1>0, <1>7, FailureKinds, FailingWalks
<1>8. CASE RunSucceeds
    <2>1. /\ at = "run" /\ at' = "done" /\ result' # <<>> /\ result'.status = "execution_succeeded"
          /\ UNCHANGED <<req, index, tries>>
        BY <1>0, <1>8, SuccessKind
    <2>2. log # <<>> /\ ~ Refused /\ result = <<>> /\ index <= Len(req.chain) /\ log' # <<>>
        BY <1>0, <2>1 DEF Stages
    <2>3. CallWalk!Answer
        BY <1>1, <1>3, <2>1, <2>2 DEF CallWalk!Answer
    <2> QED
        BY <2>3 DEF CallWalk!Next
<1>9. CASE Exhausted
    <2>1. /\ at = "preflight" /\ at' = "done" /\ result' # <<>> /\ result'.status # "execution_succeeded"
          /\ UNCHANGED <<req, index, tries>>
        BY <1>0, <1>9, ExhaustedKind
    <2>2. log # <<>> /\ ~ Refused /\ result = <<>> /\ log' # <<>>
        BY <1>0, <2>1 DEF Stages
    <2>3. CallWalk!GiveUp
        BY <1>3, <2>1, <2>2 DEF CallWalk!GiveUp
    <2> QED
        BY <2>3 DEF CallWalk!Next
<1>10. CASE UNCHANGED callVars
    BY <1>3, <1>10 DEF callVars, CallWalk!walk
<1>11. \A s \in PreflightStatuses : s \in FailureStatuses
    BY DEF PreflightStatuses, FailureStatuses
<1> QED
    BY <1>4, <1>5, <1>6, <1>7, <1>8, <1>9, <1>10, <1>11 DEF CallNext, AdapterAnswers

\* A call of execute implements FallbackChain: platforms in order, each left once, tries
\* below the cap, and nothing after an answer (executor.py).
THEOREM CallImplementsFallbackChain == CallSpec => ImplementsFallbackChain
<1>1. CallInit => CallInv
    BY InitCall
<1>2. CallInv /\ [CallNext]_callVars => CallInv'
    BY NextCall
<1>3. CallInit => CallWalk!Init
    <2> SUFFICES ASSUME CallInit
                 PROVE  CallWalk!Init
        OBVIOUS
    <2>1. req.chain \in Seq(Platforms)
        BY ExecutorAssumption DEF CallInit
    <2> QED
        BY <2>1 DEF CallInit, NoResult, CallWalk!Init
<1>4. CallInv /\ CallInv' /\ [CallNext]_callVars => [CallWalk!Next]_(CallWalk!walk)
    BY CallWalks
<1> QED
    BY <1>1, <1>2, <1>3, <1>4, PTL DEF CallSpec, ImplementsFallbackChain, CallWalk!Spec

\* Every variable of a call keeps its type: the cursor stays within one of the chain, and
\* the tries within the cap.
THEOREM CallIsTyped == CallSpec => []CallTypeOK
<1>1. CallInit => CallInv
    BY InitCall
<1>2. CallInv /\ [CallNext]_callVars => CallInv'
    BY NextCall
<1>3. CallInv => CallTypeOK
    BY DEF CallInv, CallType
<1> QED
    BY <1>1, <1>2, <1>3, PTL DEF CallSpec

-----------------------------------------------------------------------------
\* resolve_cli_chain names no platform twice (cli_platform_resolver.py, _add), and the
\* executor allows two tries (_PER_PLATFORM_ATTEMPT_CAP).
Usual == AttemptCap >= 2 /\ \A c \in Chains : IsInjective(c)

\* On its first try a platform is new to those attempted; on a retry it is there.
LEMMA AttemptingExtends ==
    ASSUME Usual, CallInv, Trail, at = "run"
    PROVE  Attempting = IF tries = 1 THEN Append(attempted, Platform) ELSE attempted
<1>1. /\ req.chain \in Seq(Platforms) /\ Len(req.chain) \in Nat /\ index \in Nat /\ index >= 1
      /\ index <= Len(req.chain) /\ Platform = req.chain[index] /\ attempted \in Seq(Platforms)
      /\ tries \in Nat /\ tries >= 1
    BY ChainTyped DEF CallInv, Stages, CallType, CallTypeOK
<1>2. IsInjective(req.chain)
    BY DEF Usual, CallInv, CallType, CallTypeOK
<1>3. CASE tries = 1
    <2>1. Len(attempted) = index - 1
        BY <1>3 DEF Trail
    <2>2. ~ Contains(attempted, req.chain[index])
        <3> SUFFICES ASSUME NEW k \in 1..Len(attempted), attempted[k] = req.chain[index]
                     PROVE  FALSE
            BY DEF Contains
        <3>1. req.chain[k] = req.chain[index] /\ k # index /\ k \in DOMAIN req.chain /\ index \in DOMAIN req.chain
            BY <1>1, <2>1 DEF Trail
        <3> QED
            BY <1>2, <3>1 DEF IsInjective
    <2> QED
        BY <1>1, <1>3, <2>2 DEF Attempting
<1>4. CASE tries # 1
    <2>1. Len(attempted) = index
        BY <1>4 DEF Trail
    <2>2. index \in 1..Len(attempted) /\ attempted[index] = req.chain[index]
        BY <1>1, <2>1 DEF Trail
    <2>3. Contains(attempted, req.chain[index])
        BY <2>2 DEF Contains
    <2> QED
        BY <1>1, <1>4, <2>3 DEF Attempting
<1> QED
    BY <1>3, <1>4

\* The chain up to the cursor, with the platform under it.
LEMMA PrefixGrows ==
    ASSUME NEW c \in Seq(Platforms), NEW j \in 1..Len(c), NEW tried \in Seq(Platforms), Len(tried) = j - 1,
           \A k \in 1..Len(tried) : tried[k] = c[k]
    PROVE  /\ Append(tried, c[j]) \in Seq(Platforms) /\ Len(Append(tried, c[j])) = j
           /\ \A k \in 1..j : Append(tried, c[j])[k] = c[k]
<1>1. c[j] \in Platforms /\ Len(c) \in Nat /\ j \in Nat
    OBVIOUS
<1>2. /\ Append(tried, c[j]) \in Seq(Platforms) /\ Len(Append(tried, c[j])) = j /\ Append(tried, c[j])[j] = c[j]
      /\ \A k \in 1..(j - 1) : Append(tried, c[j])[k] = tried[k]
    BY <1>1
<1>3. \A k \in 1..j : k \in 1..(j - 1) \/ k = j
    BY <1>1
<1> QED
    BY <1>2, <1>3

\* After a failure the platforms attempted are the chain up to the one that failed.
LEMMA FailingTried ==
    ASSUME Usual, CallInv, Trail, NEW o, NEW n, Failing(o, n)
    PROVE  Len(attempted') = index /\ \A k \in 1..index : attempted'[k] = req.chain[k]
<1>1. /\ req.chain \in Seq(Platforms) /\ index \in 1..Len(req.chain) /\ Platform = req.chain[index]
      /\ attempted \in Seq(Platforms) /\ \A k \in 1..Len(attempted) : attempted[k] = req.chain[k]
    BY ChainTyped DEF Failing, Trail, CallInv, CallType, CallTypeOK
<1>2. CASE at = "preflight" \/ (at = "run" /\ tries = 1)
    <2>1. Len(attempted) = index - 1
        BY <1>2 DEF Trail
    <2>2. attempted' = Append(attempted, req.chain[index])
        BY <1>1, <1>2, AttemptingExtends DEF Failing
    <2> QED
        BY <1>1, <2>1, <2>2, PrefixGrows
<1>3. CASE at = "run" /\ tries # 1
    <2>1. Len(attempted) = index
        BY <1>3 DEF Trail
    <2>2. attempted' = attempted
        BY <1>3, AttemptingExtends DEF Failing
    <2> QED
        BY <1>1, <2>1, <2>2
<1> QED
    BY <1>2, <1>3 DEF Failing

\* What was announced stays in a log that grows.
Announced(k) ==
    k < Len(req.chain) /\ req.chain[k] \in Registered =>
        \E n \in DOMAIN log : /\ log[n].event = "fallback_triggered"
                              /\ log[n].from = req.chain[k] /\ log[n].to = req.chain[k + 1]
LEMMA AnnouncedStays ==
    ASSUME NEW k, Announced(k), req' = req, DOMAIN log \subseteq DOMAIN log', \A n \in DOMAIN log : log'[n] = log[n]
    PROVE  Announced(k)'
BY DEF Announced

LEMMA FailingTrail ==
    ASSUME Usual, CallInv, MirrorInv, NEW s \in FailureStatuses,
           NEW j \in 0..AttemptCap, NEW n \in Nat, Failing(Outcome(s, Platform, j), n)
    PROVE  Trail'
<1> USE DEF MirrorInv
<1>1. PICK o : o = Outcome(s, Platform, j)
    OBVIOUS
<1>2. /\ req.chain \in Seq(Platforms) /\ Len(req.chain) \in Nat /\ index \in 1..Len(req.chain) /\ index \in Nat
      /\ log \in Seq(Entries) /\ req' = req
    BY ChainTyped DEF Failing, CallInv, CallType
<1>3. Len(attempted') = index /\ \A k \in 1..index : attempted'[k] = req.chain[k]
    BY FailingTried
<1>4. PICK f \in Entries, t \in Entries, m \in Entries, e \in Entries :
          /\ f = AttemptFailed(o, n) /\ t = FallbackTriggered
          /\ m = Mirrored(o) /\ e = Ended(o)
          /\ t.event = "fallback_triggered" /\ t.from = req.chain[index]
          /\ index < Len(req.chain) => t.to = req.chain[index + 1]
    <2>1. j \in Nat /\ s \in Statuses
        BY ExecutorAssumption DEF Statuses
    <2>2. o.status \in Statuses
        BY <1>1, <2>1 DEF Outcome
    <2> QED
        BY <1>1, <1>2, <2>1, <2>2, EventsSent, EndSent DEF CallInv
<1>5. \/ /\ log' = Append(Append(Append(log, f), m), e) /\ at' = "done" /\ UNCHANGED <<index, tries>>
      \/ /\ log' = Append(log, f) /\ at' = "run" /\ tries' = 2 /\ UNCHANGED index
      \/ /\ log' = Append(Append(log, f), t) /\ index' = index + 1 /\ tries' = 1 /\ at' = "preflight"
    <2>1. AttemptCap # 1
        BY ExecutorAssumption DEF Usual
    <2> QED
        BY <1>1, <1>4, <2>1 DEF Failing
<1>6. /\ DOMAIN log \subseteq DOMAIN log' /\ \A k \in DOMAIN log : log'[k] = log[k]
      /\ index' = index + 1 => Len(log) + 2 \in DOMAIN log' /\ log'[Len(log) + 2] = t
    <2>1. PICK l1 \in Seq(Entries) : l1 = Append(log, f)
        BY <1>2, LastOfAppend
    <2>2. /\ Len(l1) = Len(log) + 1 /\ Len(log) \in Nat /\ DOMAIN log \subseteq DOMAIN l1
          /\ \A k \in DOMAIN log : l1[k] = log[k]
        BY <1>2, <2>1, LastOfAppend
    <2>3. PICK l2 \in Seq(Entries) : l2 = Append(l1, t)
        BY LastOfAppend
    <2>4. /\ DOMAIN l1 \subseteq DOMAIN l2 /\ \A k \in DOMAIN l1 : l2[k] = l1[k]
          /\ Len(log) + 2 \in DOMAIN l2 /\ l2[Len(log) + 2] = t
        <3>1. Len(l1) + 1 \in DOMAIN l2 /\ l2[Len(l1) + 1] = t
            BY <2>3, LastOfAppend
        <3>2. Len(l1) + 1 = Len(log) + 2
            BY <2>2
        <3>3. \A k \in DOMAIN l1 : k \in DOMAIN l2 /\ l2[k] = l1[k]
            BY <2>3, LastOfAppend
        <3> QED
            BY <3>1, <3>2, <3>3
    <2>5. PICK l3 \in Seq(Entries) : l3 = Append(l1, m)
        BY LastOfAppend
    <2>6. PICK l4 \in Seq(Entries) : l4 = Append(l3, e)
        BY LastOfAppend
    <2>7. DOMAIN l1 \subseteq DOMAIN l4 /\ \A k \in DOMAIN l1 : l4[k] = l1[k]
        <3>1. \A k \in DOMAIN l1 : k \in DOMAIN l3 /\ l3[k] = l1[k]
            BY <2>5, LastOfAppend
        <3>2. \A k \in DOMAIN l3 : k \in DOMAIN l4 /\ l4[k] = l3[k]
            BY <2>6, LastOfAppend
        <3> QED
            BY <3>1, <3>2
    <2>8. (index' = index => log' \in {l1, l4}) /\ (index' = index + 1 => log' = l2) /\ log' \in {l1, l2, l4}
        <3>1. index # index + 1
            BY <1>2
        <3> QED
            BY <1>5, <2>1, <2>3, <2>5, <2>6, <3>1
    <2> QED
        BY <2>2, <2>4, <2>7, <2>8
<1>7. ASSUME NEW k, k = index, index' = index + 1
      PROVE  Announced(k)'
    BY <1>2, <1>4, <1>6, <1>7 DEF Announced
<1>8. ASSUME NEW k \in 1..Len(req.chain), k < index'
      PROVE  Announced(k)'
    <2>1. CASE k < index
        BY <1>2, <1>6, <2>1, AnnouncedStays DEF Trail, Announced
    <2>2. CASE ~ (k < index)
        <3>1. k = index /\ index' = index + 1
            BY <1>2, <1>5, <1>8, <2>2
        <3> QED
            BY <1>7, <3>1
    <2> QED
        BY <2>1, <2>2
<1>9. /\ Len(attempted') <= index' /\ Len(attempted') <= Len(req.chain)
      /\ at' = "preflight" => Len(attempted') = index' - 1
      /\ at' = "run" => Len(attempted') = IF tries' = 1 THEN index' - 1 ELSE index'
    BY <1>2, <1>3, <1>5
<1> QED
    BY <1>2, <1>3, <1>8, <1>9 DEF Trail, Announced

\* The counts after a failure, and the end of the log.
LEMMA FailingTally ==
    ASSUME Usual, CallInv, MirrorInv, NEW s \in FailureStatuses,
           NEW j \in 0..AttemptCap, NEW n \in Nat, Failing(Outcome(s, Platform, j), n)
    PROVE  Tally' /\ Told'
<1>1. PICK o : o = Outcome(s, Platform, j)
    OBVIOUS
<1>2. /\ log \in Seq(Entries) /\ decisions \in [retry : Nat, fallback : Nat] /\ at # "done"
      /\ decisions.fallback = Count(log, "fallback_triggered")
      /\ decisions.retry + decisions.fallback = Count(log, "attempt_failed")
    BY DEF Failing, CallInv, CallType, CallTypeOK, MirrorInv, Tally
<1>3. PICK f \in Entries, t \in Entries, m \in Entries, e \in Entries :
          /\ f = AttemptFailed(o, n) /\ t = FallbackTriggered
          /\ m = Mirrored(o) /\ e = Ended(o)
          /\ f.event = "attempt_failed" /\ t.event = "fallback_triggered"
          /\ m.event = "mirrored" /\ m.decisions = decisions /\ e.event \in {"succeeded", "failed"}
    <2>1. j \in Nat /\ s \in Statuses
        BY ExecutorAssumption DEF Statuses
    <2>2. o.status \in Statuses
        BY <1>1, <2>1 DEF Outcome
    <2>3. index <= Len(req.chain)
        BY DEF Failing
    <2> QED
        BY <1>1, <2>1, <2>2, <2>3, EventsSent, EndSent DEF CallInv
<1>4. PICK l1 \in Seq(Entries) : l1 = Append(log, f)
    BY <1>2, LastOfAppend
<1>5. /\ l1 # <<>> /\ Len(l1) >= 1 /\ Len(l1) \in Nat /\ l1[Len(l1)] = f
      /\ Count(l1, "attempt_failed") = Count(log, "attempt_failed") + 1
      /\ Count(l1, "fallback_triggered") = Count(log, "fallback_triggered")
      /\ Count(log, "attempt_failed") \in Nat /\ Count(log, "fallback_triggered") \in Nat
    <2>1. Len(l1) = Len(log) + 1 /\ Len(log) \in Nat /\ l1[Len(log) + 1] = f /\ l1 # <<>>
        BY <1>2, <1>4, LastOfAppend
    <2> QED
        BY <1>2, <1>3, <1>4, <2>1, CountAppend
<1>6. \/ /\ log' = Append(Append(l1, m), e) /\ at' = "done" /\ result'.status = o.status /\ UNCHANGED decisions
      \/ log' = l1 /\ at' = "run" /\ decisions' = [decisions EXCEPT !.retry = @ + 1]
      \/ log' = Append(l1, t) /\ at' = "preflight" /\ decisions' = [decisions EXCEPT !.fallback = @ + 1]
    <2>1. AttemptCap # 1
        BY ExecutorAssumption DEF Usual
    <2> QED
        BY <1>1, <1>3, <1>4, <2>1 DEF Failing
<1>7. CASE log' = l1 /\ at' = "run" /\ decisions' = [decisions EXCEPT !.retry = @ + 1]
    <2>1. decisions'.retry = decisions.retry + 1 /\ decisions'.fallback = decisions.fallback
        BY <1>2, <1>7
    <2>2. decisions.retry \in Nat /\ decisions.fallback \in Nat
        BY <1>2
    <2> QED
        BY <1>2, <1>5, <1>7, <2>1, <2>2 DEF Tally, Told
<1>8. CASE log' = Append(l1, t) /\ at' = "preflight" /\ decisions' = [decisions EXCEPT !.fallback = @ + 1]
    <2>1. decisions'.retry = decisions.retry /\ decisions'.fallback = decisions.fallback + 1
        BY <1>2, <1>8
    <2>2. decisions.retry \in Nat /\ decisions.fallback \in Nat
        BY <1>2
    <2>3. /\ Count(log', "attempt_failed") = Count(l1, "attempt_failed")
          /\ Count(log', "fallback_triggered") = Count(l1, "fallback_triggered") + 1
        BY <1>3, <1>5, <1>8, CountAppend
    <2>4. log'[Len(log')].event # "attempt_failed"
        <3>1. Len(log') = Len(l1) + 1 /\ log'[Len(l1) + 1] = t
            BY <1>8, LastOfAppend
        <3> QED
            BY <1>3, <3>1
    <2> QED
        BY <1>2, <1>5, <1>8, <2>1, <2>2, <2>3, <2>4 DEF Tally, Told
<1>9. CASE /\ log' = Append(Append(l1, m), e) /\ at' = "done" /\ result'.status = o.status /\ UNCHANGED decisions
    <2>1. PICK l2 \in Seq(Entries) : l2 = Append(l1, m)
        BY LastOfAppend
    <2>2. /\ Len(l2) = Len(l1) + 1 /\ l2[Len(l1) + 1] = m /\ l2[Len(l1)] = f
          /\ Len(l1) + 1 \in DOMAIN l2 /\ Len(l1) \in DOMAIN l2
        <3>1. Len(l1) \in DOMAIN l1
            BY <1>5
        <3> QED
            BY <1>5, <2>1, <3>1, LastOfAppend
    <2>3. Len(log') = Len(l2) + 1 /\ log'[Len(l1) + 1] = m /\ log'[Len(l1)] = f
        BY <1>9, <2>1, <2>2, LastOfAppend
    <2>4. Len(log') - 1 = Len(l1) + 1 /\ Len(log') - 2 = Len(l1)
        BY <1>5, <2>2, <2>3
    <2>5. /\ Count(log', "attempt_failed") = Count(log, "attempt_failed") + 1
          /\ Count(log', "fallback_triggered") = Count(log, "fallback_triggered")
        <3>1. /\ Count(l2, "attempt_failed") = Count(l1, "attempt_failed")
              /\ Count(l2, "fallback_triggered") = Count(l1, "fallback_triggered")
            BY <1>3, <1>5, <2>1, CountAppend
        <3>2. /\ Count(l2, "attempt_failed") \in Nat /\ Count(l2, "fallback_triggered") \in Nat
            BY <1>5, <3>1
        <3>3. /\ Count(Append(l2, e), "attempt_failed") = Count(l2, "attempt_failed")
              /\ Count(Append(l2, e), "fallback_triggered") = Count(l2, "fallback_triggered")
            BY <1>3, <3>2, CountAppend
        <3> QED
            BY <1>5, <1>9, <2>1, <3>1, <3>3
    <2>6. o.status # "execution_succeeded"
        BY <1>1 DEF Outcome, FailureStatuses, SetupStatuses, RetriedStatuses
    <2>7. Tally'
        BY <1>9 DEF Tally
    <2>8. decisions.retry \in Nat /\ decisions.fallback \in Nat
        BY <1>2
    <2>9. Told'
        <3>1. log'[Len(log') - 1].decisions = decisions /\ log'[Len(log') - 2].event = "attempt_failed"
            BY <1>3, <2>3, <2>4
        <3>2. Count(log', "attempt_failed") # 0 /\ result'.status # "execution_succeeded"
            BY <1>5, <1>9, <2>5, <2>6
        <3>3. /\ decisions.fallback = Count(log', "fallback_triggered")
              /\ decisions.retry = Count(log', "attempt_failed") - decisions.fallback - 1
            BY <1>2, <1>5, <2>5, <2>8
        <3> QED
            BY <3>1, <3>2, <3>3 DEF Told
    <2> QED
        BY <2>7, <2>9
<1> QED
    BY <1>6, <1>7, <1>8, <1>9

\* The end of a call without a failure of its own: two events that are no failures.
LEMMA CountsAtEnd ==
    ASSUME CallType, NEW l \in Seq(Entries), l # <<>>, NEW o, o.status \in Statuses,
           log' = Append(Append(l, Mirrored(o)), Ended(o))
    PROVE  /\ log'[Len(log') - 1].decisions = decisions /\ log'[Len(log') - 2] = l[Len(l)]
           /\ \A kind \in {"attempt_failed", "fallback_triggered"} : Count(log', kind) = Count(l, kind)
           /\ \A k \in DOMAIN l : k \in DOMAIN log' /\ log'[k] = l[k]
<1>1. PICK m \in Entries, e \in Entries : /\ m = Mirrored(o) /\ e = Ended(o) /\ m.event = "mirrored"
                                          /\ m.decisions = decisions /\ e.event \in {"succeeded", "failed"}
    BY EndSent
<1>2. PICK l2 \in Seq(Entries) : l2 = Append(l, m)
    BY LastOfAppend
<1>3. log' = Append(l2, e)
    BY <1>1, <1>2
<1>4. /\ Len(l) \in DOMAIN l /\ Len(l2) = Len(l) + 1 /\ l2[Len(l) + 1] = m /\ l2[Len(l)] = l[Len(l)]
      /\ Len(l) + 1 \in DOMAIN l2 /\ Len(l) \in Nat
      /\ \A k \in DOMAIN l : k \in DOMAIN l2 /\ l2[k] = l[k]
    <2>1. Len(l) \in DOMAIN l
        OBVIOUS
    <2> QED
        BY <1>2, <2>1, LastOfAppend
<1>5. /\ Len(log') = Len(l2) + 1 /\ \A k \in DOMAIN l2 : k \in DOMAIN log' /\ log'[k] = l2[k]
    BY <1>3, LastOfAppend
<1>6. Len(log') - 1 = Len(l) + 1 /\ Len(log') - 2 = Len(l)
    BY <1>4, <1>5
<1>7. ASSUME NEW kind \in {"attempt_failed", "fallback_triggered"}
      PROVE  Count(log', kind) = Count(l, kind)
    <2>1. Count(l2, kind) = Count(l, kind) /\ Count(l, kind) \in Nat
        BY <1>1, <1>2, CountAppend
    <2>2. Count(Append(l2, e), kind) = Count(l2, kind)
        BY <1>1, <2>1, CountAppend
    <2> QED
        BY <1>3, <2>1, <2>2
<1> QED
    BY <1>1, <1>4, <1>5, <1>6, <1>7

LEMMA CountStarted ==
    ASSUME NEW kind \in {"attempt_failed", "fallback_triggered"}
    PROVE  Count(Append(<<>>, Started), kind) = 0
<1>1. PICK e \in Entries : e = Started /\ e.event = "started"
    <2>1. Started \in Entries /\ Started.event = "started"
        BY DEF Started, Entries
    <2> QED
        BY <2>1
<1>2. PICK l \in Seq(Entries) : l = <<>>
    <2>1. <<>> \in Seq(Entries)
        OBVIOUS
    <2> QED
        BY <2>1
<1>3. Count(Append(l, e), kind) = Count(l, kind) + IF e.event = kind THEN 1 ELSE 0
    BY CountAppend
<1>4. Count(l, kind) = 0 /\ e.event # kind
    BY <1>1, <1>2, CountNothing
<1> QED
    BY <1>1, <1>2, <1>3, <1>4

LEMMA StartMirror ==
    ASSUME CallInv, MirrorInv, Start
    PROVE  MirrorInv'
<1>1. /\ at = "start" /\ UNCHANGED <<req, index, tries, attempted, last, decisions>>
      /\ log = <<>> /\ index = 1 /\ attempted = <<>> /\ decisions.retry = 0 /\ decisions.fallback = 0
      /\ req.chain \in Seq(Platforms) /\ CallType
    BY StartKinds, ChainTyped DEF CallInv, Stages
<1>2. PICK l \in Seq(Entries) : l = Append(<<>>, Started)
    <2>1. Started \in Entries /\ <<>> \in Seq(Entries)
        BY DEF Started, Entries
    <2> QED
        BY <2>1, LastOfAppend
<1>3. /\ l # <<>> /\ Len(l) = 1 /\ l[Len(l)].event = "started"
      /\ \A kind \in {"attempt_failed", "fallback_triggered"} : Count(l, kind) = 0
    <2>1. Len(l) = 1 /\ l[1] = Started /\ l # <<>>
        BY <1>2
    <2> QED
        BY <1>2, <2>1, CountStarted DEF Started
<1>4. at' \in {"preflight", "done"}
    BY StartKinds DEF CallInv
<1>5. Trail'
    <2>1. Len(<<>>) = 0 /\ Len(req.chain) \in Nat
        BY <1>1
    <2> QED
        BY <1>1, <1>4, <2>1 DEF Trail
<1>6. CASE at' = "preflight"
    <2>1. log' = l
        BY <1>1, <1>2, <1>6, StartKinds DEF CallInv
    <2>2. decisions'.retry = 0 /\ decisions'.fallback = 0
        BY <1>1
    <2>3. Count(log', "attempt_failed") = 0 /\ Count(log', "fallback_triggered") = 0
        BY <1>3, <2>1
    <2>4. log'[Len(log')].event # "attempt_failed"
        BY <1>3, <2>1
    <2>5. Tally' /\ Told'
        BY <1>6, <2>2, <2>3, <2>4 DEF Tally, Told
    <2> QED
        BY <1>5, <2>5 DEF MirrorInv
<1>7. CASE at' = "done"
    <2>1. PICK o : o.status = "provider_unavailable" /\ log' = Append(Append(l, Mirrored(o)), Ended(o))
        BY <1>1, <1>2, <1>7, StartKinds DEF CallInv
    <2>2. o.status \in Statuses
        BY <2>1 DEF Statuses, FailureStatuses
    <2>3. /\ log'[Len(log') - 1].decisions = decisions
          /\ \A kind \in {"attempt_failed", "fallback_triggered"} : Count(log', kind) = 0
        BY <1>1, <1>3, <2>1, <2>2, CountsAtEnd
    <2> QED
        BY <1>1, <1>5, <1>7, <2>3 DEF MirrorInv, Tally, Told
<1> QED
    BY <1>4, <1>6, <1>7

LEMMA EndMirror ==
    ASSUME Usual, CallInv, MirrorInv, RunSucceeds \/ Exhausted
    PROVE  MirrorInv'
<1>1. CallType /\ Stages /\ log \in Seq(Entries) /\ decisions.retry \in Nat /\ decisions.fallback \in Nat
    BY DEF CallInv, CallType, CallTypeOK
<1>2. PICK o : /\ o.status \in Statuses /\ result'.status = o.status
               /\ log' = Append(Append(log, Mirrored(o)), Ended(o))
    <2>1. "execution_succeeded" \in Statuses
        BY DEF Statuses
    <2> QED
        BY <1>1, <2>1, SuccessKind, ExhaustedKind
<1>3. /\ at \in {"preflight", "run"} /\ at' = "done" /\ UNCHANGED <<req, index, tries, decisions>>
    BY <1>1, SuccessKind, ExhaustedKind
<1>4. log # <<>>
    BY <1>1, <1>3 DEF Stages
<1>5. /\ log'[Len(log') - 1].decisions = decisions /\ log'[Len(log') - 2] = log[Len(log)]
      /\ \A kind \in {"attempt_failed", "fallback_triggered"} : Count(log', kind) = Count(log, kind)
      /\ \A k \in DOMAIN log : k \in DOMAIN log' /\ log'[k] = log[k]
    BY <1>1, <1>2, <1>4, CountsAtEnd
<1>6. /\ decisions.fallback = Count(log, "fallback_triggered")
      /\ decisions.retry + decisions.fallback = Count(log, "attempt_failed")
    BY <1>3 DEF MirrorInv, Tally
<1>7. Tally'
    BY <1>3 DEF Tally
<1>8. result'.status = "execution_succeeded" \/ log[Len(log)].event # "attempt_failed"
    <2>1. CASE RunSucceeds
        BY <1>1, <2>1, SuccessKind
    <2>2. CASE Exhausted
        BY <1>1, <2>2, ExhaustedKind DEF MirrorInv, Tally
    <2> QED
        BY <2>1, <2>2
<1>9. Told'
    <2>1. /\ decisions.fallback = Count(log', "fallback_triggered")
          /\ decisions.retry = Count(log', "attempt_failed") - decisions.fallback - 0
        BY <1>1, <1>5, <1>6
    <2> QED
        BY <1>5, <1>8, <2>1 DEF Told
<1>10. Trail'
    <2>1. /\ req.chain \in Seq(Platforms) /\ Len(req.chain) \in Nat /\ index \in Nat /\ index >= 1
        BY <1>1, ChainTyped
    <2>2. /\ Len(attempted') <= index /\ Len(attempted') <= Len(req.chain)
          /\ \A k \in 1..Len(attempted') : attempted'[k] = req.chain[k]
        <3>1. CASE Exhausted
            BY <1>1, <3>1, ExhaustedKind DEF MirrorInv, Trail
        <3>2. CASE RunSucceeds
            <4>1. at = "run" /\ attempted' = Attempting
                BY <1>1, <3>2, SuccessKind
            <4>2. index \in 1..Len(req.chain) /\ Platform = req.chain[index] /\ attempted \in Seq(Platforms)
                BY <1>1, <2>1, <4>1, ChainTyped DEF Stages, CallType, CallTypeOK
            <4>3. CASE tries = 1
                <5>1. attempted' = Append(attempted, req.chain[index]) /\ Len(attempted) = index - 1
                      /\ \A k \in 1..Len(attempted) : attempted[k] = req.chain[k]
                    BY <4>1, <4>2, <4>3, AttemptingExtends DEF MirrorInv, Trail
                <5>2. Len(attempted') = index /\ \A k \in 1..index : attempted'[k] = req.chain[k]
                    BY <2>1, <4>2, <5>1, PrefixGrows
                <5> QED
                    BY <2>1, <4>2, <5>2
            <4>4. CASE tries # 1
                BY <4>1, <4>4, AttemptingExtends DEF MirrorInv, Trail
            <4> QED
                BY <4>3, <4>4
        <3> QED
            BY <3>1, <3>2
    <2>3. \A k \in 1..Len(req.chain) : k < index => Announced(k)
        BY DEF MirrorInv, Trail, Announced
    <2>4. ASSUME NEW k \in 1..Len(req.chain), k < index
          PROVE  Announced(k)'
        BY <1>3, <1>5, <2>3, <2>4, AnnouncedStays
    <2> QED
        BY <1>3, <2>2, <2>4 DEF Trail, Announced
<1> QED
    BY <1>7, <1>9, <1>10 DEF MirrorInv

LEMMA NextMirror ==
    ASSUME Usual, CallInv, MirrorInv, [CallNext]_callVars
    PROVE  MirrorInv'
<1>1. CASE MissingAdapter
    <2>1. /\ at = "preflight" /\ at' = "preflight" /\ index \in 1..Len(req.chain) /\ index' = index + 1 /\ tries' = 1
          /\ req.chain[index] \notin Registered /\ attempted' = Append(attempted, req.chain[index])
          /\ UNCHANGED <<req, decisions, log, result>>
          /\ req.chain \in Seq(Platforms) /\ attempted \in Seq(Platforms)
        BY <1>1, ChainTyped DEF MissingAdapter, Advance, CallInv, CallType, CallTypeOK
    <2>2. Len(attempted) = index - 1 /\ \A k \in 1..Len(attempted) : attempted[k] = req.chain[k]
        BY <2>1 DEF MirrorInv, Trail
    <2>3. Len(attempted') = index /\ \A k \in 1..index : attempted'[k] = req.chain[k]
        BY <2>1, <2>2, PrefixGrows
    <2>4. \A k \in 1..Len(req.chain) : k < index + 1 /\ req.chain[k] \in Registered => k < index
        BY <2>1
    <2>5. Trail'
        BY <2>1, <2>3, <2>4 DEF MirrorInv, Trail
    <2>6. Tally' /\ Told'
        BY <2>1 DEF MirrorInv, Tally, Told
    <2> QED
        BY <2>5, <2>6 DEF MirrorInv
<1>2. CASE PreflightPasses
    <2>1. /\ at = "preflight" /\ at' = "run" /\ UNCHANGED <<req, index, tries, attempted, decisions, log, result>>
          /\ tries = 1
        BY <1>2 DEF PreflightPasses, CallInv, Stages
    <2> QED
        BY <2>1 DEF MirrorInv, Trail, Tally, Told
<1>3. ASSUME NEW s \in FailureStatuses, NEW raised \in BOOLEAN,
             PreflightFails(s) \/ RunFails(s, raised)
      PROVE  MirrorInv'
    BY <1>3, FailureKinds, FailingTrail, FailingTally DEF MirrorInv, CallInv
<1>4. CASE UNCHANGED callVars
    <2>1. UNCHANGED <<req, at, index, tries, attempted, decisions, log, result>>
        BY <1>4 DEF callVars
    <2> QED
        BY <2>1 DEF MirrorInv, Trail, Tally, Told
<1>5. \A s \in PreflightStatuses : s \in FailureStatuses
    BY DEF PreflightStatuses, FailureStatuses
<1> QED
    BY <1>1, <1>2, <1>3, <1>4, <1>5, StartMirror, EndMirror DEF CallNext, AdapterAnswers

\* What execute announces, mirrors and returns agrees, for every chain without a repeated
\* platform: each registered platform left is announced with the next one, and as many
\* fallbacks and retries are mirrored as happened (executor.py, _mirror_metadata).
THEOREM MirrorAlwaysAgrees ==
    ASSUME Usual
    PROVE  CallSpec => []MirrorAgreesWithEvents
<1>1. CallInit => CallInv /\ MirrorInv
    <2> SUFFICES ASSUME CallInit
                 PROVE  CallInv /\ MirrorInv
        OBVIOUS
    <2>1. CallInv
        BY InitCall
    <2>2. at = "start" /\ log = <<>> /\ attempted = <<>> /\ index = 1 /\ decisions = [retry |-> 0, fallback |-> 0]
        BY DEF CallInit
    <2>3. Len(<<>>) = 0 /\ Len(req.chain) \in Nat
        BY <2>1, ChainTyped DEF CallInv
    <2>4. Trail
        BY <2>2, <2>3 DEF Trail
    <2>5. Tally /\ Told
        BY <2>2, CountNothing DEF Tally, Told
    <2> QED
        BY <2>1, <2>4, <2>5 DEF MirrorInv
<1>2. CallInv /\ MirrorInv /\ [CallNext]_callVars => CallInv' /\ MirrorInv'
    BY NextCall, NextMirror
<1>3. CallInv /\ MirrorInv => MirrorAgreesWithEvents
    <2> SUFFICES ASSUME CallInv, MirrorInv
                 PROVE  MirrorAgreesWithEvents
        OBVIOUS
    <2>1. /\ req.chain \in Seq(Platforms) /\ Len(req.chain) \in Nat /\ index \in Nat /\ attempted \in Seq(Platforms)
        BY ChainTyped DEF CallInv, CallType, CallTypeOK
    <2>2. MovesAreAnnounced
        <3> SUFFICES ASSUME NEW k \in 1..(Len(attempted) - 1), attempted[k] \in Registered
                     PROVE  \E n \in Fallbacks : log[n].from = attempted[k] /\ log[n].to = attempted[k + 1]
            BY DEF MovesAreAnnounced
        <3>1. /\ k \in 1..Len(attempted) /\ k + 1 \in 1..Len(attempted)
              /\ k \in 1..Len(req.chain) /\ k < index /\ k < Len(req.chain)
            BY <2>1 DEF MirrorInv, Trail
        <3>2. attempted[k] = req.chain[k] /\ attempted[k + 1] = req.chain[k + 1]
            BY <3>1 DEF MirrorInv, Trail
        <3> QED
            BY <3>1, <3>2 DEF MirrorInv, Trail, Fallbacks, Events
    <2>3. /\ Cardinality(Failures) = Count(log, "attempt_failed")
          /\ Cardinality(Fallbacks) = Count(log, "fallback_triggered")
        BY DEF Failures, Fallbacks, Events, Count
    <2>4. Failures # {} <=> Count(log, "attempt_failed") # 0
        <3>1. IsFiniteSet(Failures)
            <4>1. log \in Seq(Entries)
                BY DEF CallInv, CallType
            <4>2. Len(log) \in Nat /\ DOMAIN log = 1..Len(log)
                BY <4>1
            <4>3. Failures \subseteq 1..Len(log) /\ IsFiniteSet(1..Len(log))
                BY <4>2, FS_Interval DEF Failures, Events
            <4> QED
                BY <4>3, FS_Subset
        <3> QED
            BY <2>3, <3>1, FS_EmptySet
    <2>5. result # NoResult => at = "done"
        BY DEF CallInv, Stages, CallType, CallTypeOK, NoResult
    <2>6. ASSUME result # NoResult
          PROVE  LET told == log[Len(log) - 1].decisions
                     stopped == IF /\ Failures # {} /\ result.status # "execution_succeeded"
                                   /\ log[Len(log) - 2].event = "attempt_failed" THEN 1 ELSE 0
                 IN  /\ told.fallback = Cardinality(Fallbacks)
                     /\ told.retry = Cardinality(Failures) - told.fallback - stopped
        BY <2>3, <2>4, <2>5, <2>6 DEF Told, MirrorInv
    <2> QED
        BY <2>2, <2>6 DEF MirrorAgreesWithEvents
<1> QED
    BY <1>1, <1>2, <1>3, PTL DEF CallSpec

-----------------------------------------------------------------------------
(* The turns of a tenant *)

\* What an attempt may be heard to come to.
Classes == Raises \cup Errors \cup Reported \cup {"answer", "missing_credential", "unclassified"}

\* An attempt on the platform under turn t's cursor, whoever walks.
Tried(t, class) ==
    /\ InChain(t) /\ Hear(t, class)
    /\ \/ MoveOn(t)
       \/ Serve(t)
       \/ (class \in Final /\ GiveUp(t))
       \/ /\ attempt[t] < AttemptCap /\ attempt' = [attempt EXCEPT ![t] = @ + 1]
          /\ UNCHANGED <<pos, pc, served>>
    /\ cooled' \in {cooled, cooled \cup ({Current(t)} \ {Floor})}
    /\ \/ UNCHANGED limited
       \/ /\ limited' = limited \cup ({Current(t)} \ {Floor})
          /\ limited' \subseteq limited \cup cooled'
    /\ running' \in {running, [running EXCEPT ![t] = @ \cup {Current(t)}]}
    /\ UNCHANGED <<requested, available, todo, chain, since>>

\* A turn resolves its chain, tries a platform, or stops at the end of its chain.
LEMMA TurnKinds ==
    ASSUME NEW t \in Turns, TurnStep(t)
    PROVE  ResolveOne(t) \/ Resolved(t) \/ WalkEnds(t) \/ \E class \in Classes : Tried(t, class)
<1> USE DEF Classes, Tried, history
<1> DEFINE action(s) == Decide(s, attempt[t], Current(t), NextInChain(t)).action
<1>1. ASSUME NEW class \in Raises, AttemptRaises(t, class)
      PROVE  Tried(t, class)
    BY <1>1 DEF AttemptRaises, Legacy, PaneCompleted, Final
<1>2. ASSUME AttemptAnswers(t)
      PROVE  Tried(t, "answer")
    BY <1>2 DEF AttemptAnswers, Legacy, PaneCompleted
<1>3. ASSUME NEW class \in Errors, AttemptCools(t, class)
      PROVE  Tried(t, class)
    <2>1. /\ InChain(t) /\ Hear(t, class) /\ MoveOn(t)
          /\ limited' = limited \cup ({Current(t)} \ {Floor})
          /\ UNCHANGED <<requested, available, todo, chain, since>>
        BY <1>3 DEF AttemptCools, Legacy, HitsLimit
    <2>2. cooled' = cooled \cup ({Current(t)} \ {Floor})
        BY <1>3 DEF AttemptCools, MarkCooldown
    <2>3. running' = [running EXCEPT ![t] = @ \cup {Current(t)}]
        BY <1>3 DEF AttemptCools, PaneLeftRunning
    <2>4. /\ cooled' \in {cooled, cooled \cup ({Current(t)} \ {Floor})}
          /\ limited' \subseteq limited \cup cooled'
        BY <2>1, <2>2
    <2>5. running' \in {running, [running EXCEPT ![t] = @ \cup {Current(t)}]}
        BY <2>3
    <2> QED
        BY <2>1, <2>4, <2>5
<1>4. ASSUME AttemptLacksCredential(t)
      PROVE  Tried(t, "missing_credential")
    BY <1>4 DEF AttemptLacksCredential, Legacy, PaneLeftRunning
<1>5. ASSUME AttemptUnclassified(t)
      PROVE  Tried(t, "unclassified")
    BY <1>5 DEF AttemptUnclassified, Legacy, PaneCompleted, Final
<1>6. ASSUME NEW s \in Reported, ExecutorAttempt(t, s)
      PROVE  Tried(t, s)
    <2>1. s \in Statuses
        BY RoutingAssumption
    <2>2. CASE s = "execution_succeeded"
        <3>1. action(s) = "stop"
            BY <2>2 DEF Decide, SetupStatuses, RetriedStatuses
        <3> QED
            BY <1>6, <2>2, <3>1 DEF ExecutorAttempt, PaneCompleted
    <2>3. CASE s # "execution_succeeded"
        <3>1. action(s) = "stop" => s \in Final
            BY <2>1, <2>3 DEF Decide, SetupStatuses, RetriedStatuses, Statuses, FailureStatuses, Final
        <3> HIDE DEF action
        <3> QED
            BY <1>6, <2>3, <3>1 DEF ExecutorAttempt, PaneCompleted, action
    <2> QED
        BY <2>2, <2>3
<1> QED
    BY <1>1, <1>2, <1>3, <1>4, <1>5, <1>6 DEF TurnStep, AttemptLacksCredential, AttemptUnclassified

\* Shapes of the variables: TypeOK with the heard sequences and the histories.
RouteType ==
    /\ RoutingTypeOK
    /\ pos \in [Turns -> Nat] /\ attempt \in [Turns -> Nat]
    /\ heard \in [Turns -> Seq([platform : Platforms, class : Classes])]
    /\ since \in [Turns -> SUBSET Platforms] /\ limited \subseteq Platforms \ {Floor}

\* Before its walk a turn has tried nothing; on it, all the platforms it has left
\* behind, and the floor is among those it will try.
Resolving(t) ==
    /\ pc[t] \in {"idle", "resolve"} => pos[t] = 0 /\ attempt[t] = 1
    /\ pc[t] # "done" => served[t] = NoCLI
Walking(t) ==
    pc[t] = "walk" =>
        /\ pos[t] >= 1
        /\ \E n \in 1..Len(chain[t]) : chain[t][n] = Floor
        /\ \A n \in 1..Len(chain[t]) : n < pos[t] => \E k \in 1..Len(heard[t]) : heard[t][k].platform = chain[t][n]
Silence(t) ==
    pc[t] = "done" /\ served[t] = NoCLI =>
        \/ \E k \in 1..Len(heard[t]) : heard[t][k].platform = Floor
        \/ heard[t] # <<>> /\ heard[t][Len(heard[t])].class \in Final

\* No turn has a platform before it that has been limited since before the turn.
Fresh(t) ==
    /\ pc[t] = "idle" => chain[t] = <<>> /\ since[t] = {}
    /\ since[t] \subseteq limited
    /\ \A n \in 1..Len(chain[t]) : chain[t][n] \notin since[t]

RouteInv == RouteType /\ \A t \in Turns : Resolving(t) /\ Walking(t) /\ Silence(t)
LimitInv == limited \subseteq cooled /\ \A t \in Turns : Fresh(t)

\* What joins a chain is appended, and is not cooled at that moment.
LEMMA ChainGrows ==
    ASSUME NEW p \in Platforms, NEW ps \in Seq(Platforms)
    PROVE  /\ Added(p, ps) = ps \/ (Added(p, ps) = Append(ps, p) /\ (p = Floor \/ p \notin cooled))
           /\ Added(p, ps) \in Seq(Platforms)
BY DEF Added, InCooldown

\* The floor ends up in the chain.
LEMMA FloorJoins ==
    ASSUME NEW ps \in Seq(Platforms)
    PROVE  /\ WithFloor(ps) = ps \/ WithFloor(ps) = Append(ps, Floor)
           /\ WithFloor(ps) \in Seq(Platforms)
           /\ \E n \in 1..Len(WithFloor(ps)) : WithFloor(ps)[n] = Floor
<1>1. CASE Contains(ps, Floor)
    BY <1>1 DEF WithFloor, Contains
<1>2. CASE ~ Contains(ps, Floor)
    <2>1. WithFloor(ps) = Append(ps, Floor)
        BY <1>2 DEF WithFloor
    <2>2. /\ Append(ps, Floor) \in Seq(Platforms)
          /\ Len(Append(ps, Floor)) \in 1..Len(Append(ps, Floor))
          /\ Append(ps, Floor)[Len(Append(ps, Floor))] = Floor
        BY RoutingAssumption
    <2> QED
        BY <2>1, <2>2
<1> QED
    BY <1>1, <1>2

LEMMA InitRoute ==
    ASSUME RoutingInit
    PROVE  RouteInv /\ LimitInv
<1>1. <<>> \in Seq(Platforms) /\ <<>> \in Seq([platform : Platforms, class : Classes]) /\ Len(<<>>) = 0
    OBVIOUS
<1>2. 1 \in 1..AttemptCap
    BY RoutingAssumption
<1>3. RouteType
    BY <1>1, <1>2 DEF RoutingInit, RouteType, RoutingTypeOK
<1>4. \A t \in Turns : Resolving(t) /\ Walking(t) /\ Silence(t)
    BY DEF RoutingInit, Resolving, Walking, Silence
<1>5. LimitInv
    <2>1. 1..Len(<<>>) = {}
        OBVIOUS
    <2> QED
        BY <2>1 DEF RoutingInit, LimitInv, Fresh
<1> QED
    BY <1>3, <1>4, <1>5 DEF RouteInv

-----------------------------------------------------------------------------
\* An attempt adds what was heard, and moves the turn in one of four ways.
LEMMA AttemptAfter ==
    ASSUME RouteType, NEW t \in Turns, NEW class \in Classes, Tried(t, class)
    PROVE  /\ pc[t] = "walk" /\ pos[t] \in Nat /\ pos[t] <= Len(chain[t])
           /\ pos[t] >= 1 => Current(t) \in Platforms
           /\ heard' = [heard EXCEPT ![t] = Append(heard[t], [platform |-> Current(t), class |-> class])]
           /\ \/ /\ pos' = [pos EXCEPT ![t] = pos[t] + 1] /\ attempt' = [attempt EXCEPT ![t] = 1]
                 /\ pc' = pc /\ served' = served
              \/ /\ pos' = pos /\ attempt' = attempt
                 /\ pc' = [pc EXCEPT ![t] = "done"] /\ served' = [served EXCEPT ![t] = Current(t)]
              \/ /\ class \in Final /\ pos' = pos /\ attempt' = attempt
                 /\ pc' = [pc EXCEPT ![t] = "done"] /\ served' = served
              \/ /\ attempt[t] < AttemptCap /\ attempt' = [attempt EXCEPT ![t] = attempt[t] + 1]
                 /\ pos' = pos /\ pc' = pc /\ served' = served
<1>1. pc[t] = "walk" /\ pos[t] <= Len(chain[t])
    BY DEF Tried, InChain
<1>2. pos[t] \in Nat /\ chain[t] \in Seq(Platforms)
    BY DEF RouteType, RoutingTypeOK
<1>3. pos[t] >= 1 => Current(t) \in Platforms
    BY <1>1, <1>2 DEF Current
<1>4. heard' = [heard EXCEPT ![t] = Append(heard[t], [platform |-> Current(t), class |-> class])]
    BY DEF Tried, Hear
<1> QED
    BY <1>1, <1>2, <1>3, <1>4 DEF Tried, MoveOn, Serve, GiveUp

\* What a step that is not an attempt does to the turn that takes it.
LEMMA ResolvingAfter ==
    ASSUME RouteType, NEW t \in Turns, ResolveOne(t)
    PROVE  /\ pc[t] = "resolve"
           /\ todo' \in [Turns -> Seq(Platforms)] /\ chain' \in [Turns -> Seq(Platforms)]
           /\ \A u \in Turns \ {t} : chain'[u] = chain[u]
           /\ \/ chain'[t] = chain[t]
              \/ \E p \in Platforms : chain'[t] = Append(chain[t], p) /\ (p = Floor \/ p \notin cooled)
<1> USE DEF RouteType, RoutingTypeOK
<1>1. pc[t] = "resolve" /\ todo[t] # <<>> /\ todo[t] \in Seq(Platforms) /\ chain[t] \in Seq(Platforms)
    BY DEF ResolveOne
<1>2. PICK p \in Platforms : p = Head(todo[t])
    BY <1>1
<1>3. Tail(todo[t]) \in Seq(Platforms)
    BY <1>1
<1>4. chain' = chain \/ chain' = [chain EXCEPT ![t] = Added(p, chain[t])]
    BY <1>2 DEF ResolveOne
<1>5. todo' = [todo EXCEPT ![t] = Tail(todo[t])]
    BY DEF ResolveOne
<1>6. /\ \/ Added(p, chain[t]) = chain[t]
         \/ Added(p, chain[t]) = Append(chain[t], p) /\ (p = Floor \/ p \notin cooled)
      /\ Added(p, chain[t]) \in Seq(Platforms)
    BY <1>1, ChainGrows
<1>7. todo' \in [Turns -> Seq(Platforms)] /\ chain' \in [Turns -> Seq(Platforms)]
    BY <1>3, <1>4, <1>5, <1>6
<1> QED
    BY <1>1, <1>4, <1>6, <1>7

LEMMA ResolvedAfter ==
    ASSUME RouteType, NEW t \in Turns, Resolved(t)
    PROVE  /\ pc[t] = "resolve" /\ pc' = [pc EXCEPT ![t] = "walk"]
           /\ pos' = [pos EXCEPT ![t] = 1]
           /\ chain' \in [Turns -> Seq(Platforms)]
           /\ \A u \in Turns \ {t} : chain'[u] = chain[u]
           /\ chain'[t] = chain[t] \/ chain'[t] = Append(chain[t], Floor)
           /\ \E n \in 1..Len(chain'[t]) : chain'[t][n] = Floor
<1> USE DEF RouteType, RoutingTypeOK
<1>1. /\ pc[t] = "resolve" /\ pc' = [pc EXCEPT ![t] = "walk"] /\ pos' = [pos EXCEPT ![t] = 1]
      /\ chain' = [chain EXCEPT ![t] = WithFloor(chain[t])]
    BY DEF Resolved, Dispatch
<1>2. chain[t] \in Seq(Platforms)
    OBVIOUS
<1>3. /\ WithFloor(chain[t]) = chain[t] \/ WithFloor(chain[t]) = Append(chain[t], Floor)
      /\ WithFloor(chain[t]) \in Seq(Platforms)
      /\ \E n \in 1..Len(WithFloor(chain[t])) : WithFloor(chain[t])[n] = Floor
    BY <1>2, FloorJoins
<1> QED
    BY <1>1, <1>2, <1>3

LEMMA CandidatesArePlatforms ==
    ASSUME NEW explicit \in Explicit, NEW queryOk \in BOOLEAN
    PROVE  Candidates(explicit, queryOk) \in Seq(Platforms) /\ Available(queryOk) \subseteq Platforms
<1>1. Available(queryOk) \subseteq Platforms
    BY RoutingAssumption DEF Available
<1>2. Priority \in Seq(Platforms)
    BY RoutingAssumption
<1>3. PICK h : h = IF explicit \in Available(queryOk) \/ (explicit # NoCLI /\ ~ queryOk)
                   THEN <<explicit>> ELSE <<>>
    OBVIOUS
<1>4. h \in Seq(Platforms)
    BY <1>1, <1>3, RoutingAssumption
<1>5. h \o Priority \in Seq(Platforms)
    BY <1>2, <1>4
<1> QED
    BY <1>1, <1>3, <1>5 DEF Candidates

LEMMA AttemptType ==
    ASSUME RouteInv, NEW t \in Turns, NEW class \in Classes, Tried(t, class)
    PROVE  RouteType'
<1>1. RouteType /\ Walking(t)
    BY DEF RouteInv
<1>2. PICK p : p = Current(t)
    OBVIOUS
<1>3. /\ UNCHANGED <<requested, available, todo, chain, since>>
      /\ limited' \in {limited, limited \cup ({p} \ {Floor})}
      /\ cooled' \in {cooled, cooled \cup ({p} \ {Floor})}
      /\ running' \in {running, [running EXCEPT ![t] = @ \cup {p}]}
    BY <1>2 DEF Tried
<1>4. p \in Platforms
    BY <1>1, <1>2, AttemptAfter DEF Walking
<1>5. /\ limited' \subseteq Platforms \ {Floor} /\ cooled' \subseteq Platforms \ {Floor}
      /\ running' \in [Turns -> SUBSET Platforms]
    <2>1. /\ limited \subseteq Platforms \ {Floor} /\ cooled \subseteq Platforms \ {Floor}
          /\ running \in [Turns -> SUBSET Platforms]
        BY <1>1 DEF RouteType, RoutingTypeOK
    <2>2. running[t] \cup {p} \in SUBSET Platforms
        BY <1>4, <2>1
    <2> QED
        BY <1>3, <1>4, <2>1, <2>2
<1>6. heard' \in [Turns -> Seq([platform : Platforms, class : Classes])]
    <2> DEFINE Sayings == [platform : Platforms, class : Classes]
    <2>1. heard \in [Turns -> Seq(Sayings)]
        BY <1>1 DEF RouteType
    <2>2. PICK o \in Sayings : o = [platform |-> p, class |-> class]
        BY <1>4
    <2> HIDE DEF Sayings
    <2>3. Append(heard[t], o) \in Seq(Sayings)
        BY <2>1
    <2>4. heard' = [heard EXCEPT ![t] = Append(heard[t], o)]
        BY <1>1, <1>2, <2>2, AttemptAfter
    <2>5. heard' \in [Turns -> Seq(Sayings)]
        BY <2>1, <2>3, <2>4
    <2> QED
        BY <2>5 DEF Sayings
<1>7. /\ pos' \in [Turns -> Nat] /\ attempt' \in [Turns -> Nat]
      /\ \A u \in Turns : pos'[u] \in 0..(Len(chain[u]) + 1) /\ attempt'[u] \in 1..AttemptCap
    <2>1. AttemptCap \in Nat \ {0} /\ pos[t] <= Len(chain[t])
        BY <1>1, AttemptAfter, RoutingAssumption
    <2>2. \/ pos' = pos /\ attempt' = attempt
          \/ pos' = [pos EXCEPT ![t] = pos[t] + 1] /\ attempt' = [attempt EXCEPT ![t] = 1]
          \/ attempt[t] < AttemptCap /\ attempt' = [attempt EXCEPT ![t] = attempt[t] + 1] /\ pos' = pos
        BY <1>1, AttemptAfter
    <2>3. /\ pos \in [Turns -> Nat] /\ attempt \in [Turns -> Nat]
          /\ \A u \in Turns : pos[u] \in 0..(Len(chain[u]) + 1) /\ attempt[u] \in 1..AttemptCap
          /\ \A u \in Turns : Len(chain[u]) \in Nat
        BY <1>1 DEF RouteType, RoutingTypeOK
    <2>4. CASE pos' = pos /\ attempt' = attempt
        BY <2>3, <2>4
    <2>5. CASE pos' = [pos EXCEPT ![t] = pos[t] + 1] /\ attempt' = [attempt EXCEPT ![t] = 1]
        BY <2>1, <2>3, <2>5
    <2>6. CASE attempt[t] < AttemptCap /\ attempt' = [attempt EXCEPT ![t] = attempt[t] + 1] /\ pos' = pos
        BY <2>1, <2>3, <2>6
    <2> QED
        BY <2>2, <2>4, <2>5, <2>6
<1>8. /\ pc' \in [Turns -> {"idle", "resolve", "walk", "done"}]
      /\ served' \in [Turns -> Platforms \cup {NoCLI}]
    <2>1. /\ pc' = pc \/ pc' = [pc EXCEPT ![t] = "done"]
          /\ served' = served \/ served' = [served EXCEPT ![t] = p]
        BY <1>1, <1>2, AttemptAfter
    <2>2. pc \in [Turns -> {"idle", "resolve", "walk", "done"}] /\ served \in [Turns -> Platforms \cup {NoCLI}]
        BY <1>1 DEF RouteType, RoutingTypeOK
    <2> QED
        BY <1>4, <2>1, <2>2
<1> QED
    BY <1>1, <1>3, <1>5, <1>6, <1>7, <1>8 DEF RouteType, RoutingTypeOK

LEMMA NextRouteType ==
    ASSUME RouteInv, [RoutingNext]_routingVars
    PROVE  RouteType'
<1> USE DEF RouteType, RoutingTypeOK
<1>0. RouteType /\ \A t \in Turns : Resolving(t) /\ Walking(t)
    BY DEF RouteInv
<1>1. ASSUME NEW t \in Turns, BeginTurn(t)
      PROVE  RouteType'
    <2>1. PICK explicit \in Explicit, queryOk \in BOOLEAN :
             /\ requested' = [requested EXCEPT ![t] = explicit]
             /\ available' = [available EXCEPT ![t] = Available(queryOk)]
             /\ todo' = [todo EXCEPT ![t] = Candidates(explicit, queryOk)]
        BY <1>1 DEF BeginTurn
    <2>2. Candidates(explicit, queryOk) \in Seq(Platforms) /\ Available(queryOk) \subseteq Platforms
        BY CandidatesArePlatforms
    <2>3. explicit \in Platforms \cup {NoCLI}
        BY RoutingAssumption
    <2>4. /\ pc' \in [Turns -> {"idle", "resolve", "walk", "done"}]
          /\ since' \in [Turns -> SUBSET Platforms]
          /\ UNCHANGED <<cooled, limited, chain, pos, attempt, heard, served, running>>
        BY <1>0, <1>1 DEF BeginTurn
    <2>5. /\ requested' \in [Turns -> Platforms \cup {NoCLI}] /\ available' \in [Turns -> SUBSET Platforms]
          /\ todo' \in [Turns -> Seq(Platforms)]
        BY <1>0, <2>1, <2>2, <2>3
    <2> QED
        BY <1>0, <2>4, <2>5
<1>2. ASSUME NEW t \in Turns, ResolveOne(t)
      PROVE  RouteType'
    <2>1. /\ UNCHANGED <<cooled, pc, requested, available, pos, attempt, heard, served, running, limited, since>>
          /\ todo' \in [Turns -> Seq(Platforms)] /\ chain' \in [Turns -> Seq(Platforms)]
        BY <1>0, <1>2, ResolvingAfter DEF ResolveOne, history
    <2>2. ASSUME NEW u \in Turns
          PROVE  pos[u] \in 0..(Len(chain'[u]) + 1)
        <3>1. CASE u = t
            <4>1. pos[u] = 0
                BY <1>0, <1>2, <3>1 DEF Resolving, ResolveOne
            <4>2. chain'[u] \in Seq(Platforms)
                BY <2>1
            <4> QED
                BY <4>1, <4>2
        <3>2. CASE u # t
            BY <1>0, <1>2, <3>2, ResolvingAfter
        <3> QED
            BY <3>1, <3>2
    <2> QED
        BY <1>0, <2>1, <2>2
<1>3. ASSUME NEW t \in Turns, Resolved(t)
      PROVE  RouteType'
    <2>1. /\ UNCHANGED <<cooled, requested, attempt, heard, served, running, limited, since>>
          /\ todo' \in [Turns -> Seq(Platforms)] /\ available' \in [Turns -> SUBSET Platforms]
        BY <1>0, <1>3 DEF Resolved, Dispatch, history
    <2>2. /\ pc' = [pc EXCEPT ![t] = "walk"] /\ pos' = [pos EXCEPT ![t] = 1]
          /\ chain' \in [Turns -> Seq(Platforms)]
          /\ \A u \in Turns \ {t} : chain'[u] = chain[u]
        BY <1>0, <1>3, ResolvedAfter
    <2>3. \A u \in Turns : pos'[u] \in 0..(Len(chain'[u]) + 1)
        BY <1>0, <2>2
    <2>4. pos' \in [Turns -> Nat] /\ pc' \in [Turns -> {"idle", "resolve", "walk", "done"}]
        BY <1>0, <2>2
    <2> QED
        BY <1>0, <2>1, <2>2, <2>3, <2>4
<1>4. ASSUME NEW t \in Turns, WalkEnds(t)
      PROVE  RouteType'
    BY <1>0, <1>4 DEF WalkEnds, GiveUp, history
<1>5. ASSUME NEW t \in Turns, NEW class \in Classes, Tried(t, class)
      PROVE  RouteType'
    BY <1>5, AttemptType
<1>6. ASSUME NEW p \in Platforms, Expire(p)
      PROVE  RouteType'
    BY <1>0, <1>6 DEF Expire, turnVars
<1>7. CASE UNCHANGED routingVars
    BY <1>0, <1>7 DEF routingVars, turnVars, history
<1> HIDE DEF RouteType, RoutingTypeOK
<1> QED
    BY <1>1, <1>2, <1>3, <1>4, <1>5, <1>6, <1>7, TurnKinds DEF RoutingNext

\* What a step of one turn leaves alone of another.
Untouched(u) ==
    /\ pc'[u] = pc[u] /\ chain'[u] = chain[u] /\ pos'[u] = pos[u] /\ attempt'[u] = attempt[u]
    /\ heard'[u] = heard[u] /\ served'[u] = served[u] /\ since'[u] = since[u]

LEMMA OthersUntouched ==
    ASSUME RouteType, NEW t \in Turns, NEW u \in Turns \ {t}, BeginTurn(t) \/ TurnStep(t)
    PROVE  Untouched(u)
<1> USE DEF Untouched
<1>1. CASE BeginTurn(t)
    BY <1>1 DEF RouteType, RoutingTypeOK, BeginTurn
<1>2. CASE ResolveOne(t)
    BY <1>2, ResolvingAfter DEF ResolveOne, history
<1>3. CASE Resolved(t)
    BY <1>3, ResolvedAfter DEF RouteType, RoutingTypeOK, Resolved, Dispatch, history
<1>4. CASE WalkEnds(t)
    BY <1>4 DEF RouteType, RoutingTypeOK, WalkEnds, GiveUp, history
<1>5. ASSUME NEW class \in Classes, Tried(t, class)
      PROVE  Untouched(u)
    <2>1. UNCHANGED <<chain, since>>
        BY <1>5 DEF Tried
    <2>2. PICK o : heard' = [heard EXCEPT ![t] = Append(heard[t], o)]
        BY <1>5, AttemptAfter
    <2>3. heard'[u] = heard[u]
        BY <2>2 DEF RouteType
    <2>4. /\ pos \in [Turns -> Nat] /\ attempt \in [Turns -> Nat] /\ DOMAIN pc = Turns /\ DOMAIN served = Turns
        BY DEF RouteType, RoutingTypeOK
    <2>5. pc'[u] = pc[u] /\ pos'[u] = pos[u] /\ attempt'[u] = attempt[u] /\ served'[u] = served[u]
        <3>1. /\ pos' = pos \/ pos' = [pos EXCEPT ![t] = pos[t] + 1]
              /\ \/ attempt' = attempt \/ attempt' = [attempt EXCEPT ![t] = 1]
                 \/ attempt' = [attempt EXCEPT ![t] = attempt[t] + 1]
              /\ pc' = pc \/ pc' = [pc EXCEPT ![t] = "done"]
              /\ served' = served \/ served' = [served EXCEPT ![t] = Current(t)]
            BY <1>5, AttemptAfter
        <3> QED
            BY <2>4, <3>1
    <2> QED
        BY <2>1, <2>3, <2>5
<1> QED
    BY <1>1, <1>2, <1>3, <1>4, <1>5, TurnKinds

\* What is heard is kept: an attempt adds to it.
LEMMA HeardGrows ==
    ASSUME RouteInv, NEW t \in Turns, NEW class \in Classes, Tried(t, class)
    PROVE  /\ heard'[t] # <<>> /\ heard'[t][Len(heard'[t])].platform = Current(t)
           /\ heard'[t][Len(heard'[t])].class = class
           /\ Len(heard'[t]) \in 1..Len(heard'[t])
           /\ \A k \in 1..Len(heard[t]) : k \in 1..Len(heard'[t]) /\ heard'[t][k] = heard[t][k]
<1>1. RouteType
    BY DEF RouteInv
<1>2. heard[t] \in Seq([platform : Platforms, class : Classes])
    BY <1>1 DEF RouteType
<1>3. PICK o : o = [platform |-> Current(t), class |-> class]
    OBVIOUS
<1>4. heard'[t] = Append(heard[t], o)
    <2>1. heard' = [heard EXCEPT ![t] = Append(heard[t], o)]
        BY <1>1, <1>3, AttemptAfter
    <2> QED
        BY <1>1, <2>1 DEF RouteType
<1>5. Len(Append(heard[t], o)) = Len(heard[t]) + 1 /\ Append(heard[t], o)[Len(heard[t]) + 1] = o
    BY <1>2
<1>6. \A k \in 1..Len(heard[t]) : Append(heard[t], o)[k] = heard[t][k]
    BY <1>2
<1>7. Len(heard[t]) \in Nat
    BY <1>2
<1>8. Append(heard[t], o) # <<>>
    BY <1>2
<1> QED
    BY <1>3, <1>4, <1>5, <1>6, <1>7, <1>8

LEMMA AttemptWalks ==
    ASSUME RouteInv, NEW t \in Turns, NEW class \in Classes, Tried(t, class)
    PROVE  Resolving(t)' /\ Walking(t)' /\ Silence(t)'
<1>1. RouteType /\ Resolving(t) /\ Walking(t)
    BY DEF RouteInv
<1>2. /\ pc[t] = "walk" /\ pos[t] >= 1 /\ pos[t] \in Nat /\ Current(t) \in Platforms
      /\ \E n \in 1..Len(chain[t]) : chain[t][n] = Floor
      /\ \A n \in 1..Len(chain[t]) : n < pos[t] => \E k \in 1..Len(heard[t]) : heard[t][k].platform = chain[t][n]
    BY <1>1, AttemptAfter DEF Walking
<1>3. /\ heard'[t] # <<>> /\ heard'[t][Len(heard'[t])].platform = chain[t][pos[t]]
      /\ heard'[t][Len(heard'[t])].class = class
      /\ Len(heard'[t]) \in 1..Len(heard'[t])
      /\ \A k \in 1..Len(heard[t]) : k \in 1..Len(heard'[t]) /\ heard'[t][k] = heard[t][k]
    BY HeardGrows DEF Current
<1>4. \A n \in 1..Len(chain[t]) : n < pos[t] + 1 => \E k \in 1..Len(heard'[t]) : heard'[t][k].platform = chain[t][n]
    <2> SUFFICES ASSUME NEW n \in 1..Len(chain[t]), n < pos[t] + 1
                 PROVE  \E k \in 1..Len(heard'[t]) : heard'[t][k].platform = chain[t][n]
        OBVIOUS
    <2>1. CASE n < pos[t]
        BY <1>2, <1>3, <2>1
    <2>2. CASE n = pos[t]
        BY <1>3, <2>2
    <2> QED
        BY <1>2, <2>1, <2>2
<1>5. served[t] = NoCLI /\ NoCLI \notin Platforms
    BY <1>1, <1>2, RoutingAssumption DEF Resolving
<1>6. chain' = chain
    BY DEF Tried
<1>7. /\ pc \in [Turns -> {"idle", "resolve", "walk", "done"}] /\ served \in [Turns -> Platforms \cup {NoCLI}]
      /\ pos \in [Turns -> Nat]
    BY <1>1 DEF RouteType, RoutingTypeOK
<1>8. \/ pc'[t] = "walk" /\ pos'[t] = pos[t] + 1 /\ served'[t] = served[t]
      \/ pc'[t] = "done" /\ served'[t] = Current(t)
      \/ class \in Final /\ pc'[t] = "done" /\ served'[t] = served[t]
      \/ pc'[t] = "walk" /\ pos'[t] = pos[t] /\ served'[t] = served[t]
    BY <1>1, <1>2, <1>7, AttemptAfter
<1>9. Resolving(t)'
    BY <1>5, <1>8 DEF Resolving
<1>10. Walking(t)'
    <2>1. CASE pc'[t] = "walk" /\ pos'[t] = pos[t] + 1
        BY <1>2, <1>4, <1>6, <2>1 DEF Walking
    <2>2. CASE pc'[t] = "walk" /\ pos'[t] = pos[t]
        <3>1. \A n \in 1..Len(chain[t]) : n < pos[t] => n < pos[t] + 1
            BY <1>2
        <3> QED
            BY <1>2, <1>4, <1>6, <2>2, <3>1 DEF Walking
    <2>3. CASE pc'[t] = "done"
        BY <2>3 DEF Walking
    <2> QED
        BY <1>8, <2>1, <2>2, <2>3
<1>11. Silence(t)'
    BY <1>2, <1>3, <1>5, <1>8 DEF Silence
<1> QED
    BY <1>9, <1>10, <1>11

LEMMA NextRoute ==
    ASSUME RouteInv, [RoutingNext]_routingVars
    PROVE  RouteInv'
<1>0. RouteType /\ \A t \in Turns : Resolving(t) /\ Walking(t) /\ Silence(t)
    BY DEF RouteInv
<1>1. ASSUME NEW u \in Turns, Untouched(u)
      PROVE  Resolving(u)' /\ Walking(u)' /\ Silence(u)'
    <2>1. Resolving(u) /\ Walking(u) /\ Silence(u)
        BY <1>0
    <2>2. Resolving(u)' /\ Walking(u)'
        BY <1>1, <2>1 DEF Untouched, Resolving, Walking
    <2>3. Silence(u)'
        BY <1>1, <2>1 DEF Untouched, Silence
    <2> QED
        BY <2>2, <2>3
<1>2. ASSUME NEW t \in Turns, BeginTurn(t) \/ TurnStep(t)
      PROVE  Resolving(t)' /\ Walking(t)' /\ Silence(t)'
    <2>0. Resolving(t) /\ Walking(t) /\ Silence(t) /\ pc \in [Turns -> {"idle", "resolve", "walk", "done"}]
          /\ served \in [Turns -> Platforms \cup {NoCLI}] /\ pos \in [Turns -> Nat]
        BY <1>0 DEF RouteType, RoutingTypeOK
    <2>1. CASE BeginTurn(t)
        BY <2>0, <2>1 DEF BeginTurn, Resolving, Walking, Silence
    <2>2. CASE ResolveOne(t)
        BY <2>0, <2>2 DEF ResolveOne, Resolving, Walking, Silence
    <2>3. CASE Resolved(t)
        <3>1. /\ pc'[t] = "walk" /\ pos'[t] = 1 /\ served' = served /\ pc[t] = "resolve"
              /\ \E n \in 1..Len(chain'[t]) : chain'[t][n] = Floor
            BY <1>0, <2>0, <2>3, ResolvedAfter DEF Resolved, Dispatch
        <3>2. \A n \in 1..Len(chain'[t]) : ~ (n < 1)
            OBVIOUS
        <3> QED
            BY <2>0, <3>1, <3>2 DEF Resolving, Walking, Silence
    <2>4. CASE WalkEnds(t)
        <3>1. /\ pc[t] = "walk" /\ pc'[t] = "done" /\ pos[t] > Len(chain[t])
              /\ UNCHANGED <<served, heard>>
            BY <2>0, <2>4 DEF WalkEnds, GiveUp
        <3>2. \E k \in 1..Len(heard[t]) : heard[t][k].platform = Floor
            <4>1. PICK n \in 1..Len(chain[t]) : chain[t][n] = Floor
                BY <2>0, <3>1 DEF Walking
            <4>2. n < pos[t]
                BY <2>0, <3>1, <4>1
            <4> QED
                BY <2>0, <3>1, <4>1, <4>2 DEF Walking
        <3> QED
            BY <3>1, <3>2 DEF Resolving, Walking, Silence
    <2>5. ASSUME NEW class \in Classes, Tried(t, class)
          PROVE  Resolving(t)' /\ Walking(t)' /\ Silence(t)'
        BY <2>5, AttemptWalks
    <2> QED
        BY <1>2, <2>1, <2>2, <2>3, <2>4, <2>5, TurnKinds
<1>3. CASE \E p \in Platforms : Expire(p)
    <2>1. UNCHANGED <<pc, chain, pos, attempt, heard, served>>
        BY <1>3 DEF Expire, turnVars
    <2> QED
        BY <1>0, <2>1, NextRouteType DEF RouteInv, Resolving, Walking, Silence
<1>4. CASE UNCHANGED routingVars
    BY <1>0, <1>4, NextRouteType DEF RouteInv, Resolving, Walking, Silence, routingVars, turnVars
<1>5. ASSUME NEW t \in Turns, BeginTurn(t) \/ TurnStep(t)
      PROVE  \A u \in Turns : Resolving(u)' /\ Walking(u)' /\ Silence(u)'
    BY <1>0, <1>1, <1>2, <1>5, OthersUntouched
<1> QED
    BY <1>3, <1>4, <1>5, NextRouteType DEF RoutingNext, RouteInv

\* No turn ends without an answer before it has tried the local platform, or has met
\* an outcome no other platform may paper over (both chain walks of agent_router.py).
THEOREM FloorAlwaysBeforeSilence == RoutingSpec => []FloorBeforeSilence
<1>1. RoutingInit => RouteInv
    BY InitRoute
<1>2. RouteInv /\ [RoutingNext]_routingVars => RouteInv'
    BY NextRoute
<1>3. RouteInv => FloorBeforeSilence
    <2> SUFFICES ASSUME RouteInv, NEW t \in Turns, pc[t] = "done", served[t] = NoCLI
                 PROVE  Floor \in Heard(t) \/ (heard[t] # <<>> /\ Last(heard[t]).class \in Final)
        BY DEF FloorBeforeSilence
    <2>1. heard[t] \in Seq([platform : Platforms, class : Classes]) /\ Silence(t)
        BY DEF RouteInv, RouteType
    <2>2. DOMAIN heard[t] = 1..Len(heard[t])
        BY <2>1
    <2> QED
        BY <2>1, <2>2 DEF Silence, Heard, Last
<1> QED
    BY <1>1, <1>2, <1>3, PTL DEF RoutingSpec

-----------------------------------------------------------------------------
LEMMA TurnSteps ==
    ASSUME RouteInv, LimitInv, NEW t \in Turns, BeginTurn(t) \/ TurnStep(t)
    PROVE  limited \subseteq limited' /\ limited' \subseteq cooled' /\ Fresh(t)'
<1>0. RouteType /\ Fresh(t) /\ limited \subseteq cooled /\ Floor \notin limited
    BY DEF RouteInv, LimitInv, RouteType
<1>1. /\ since[t] \subseteq limited /\ \A n \in 1..Len(chain[t]) : chain[t][n] \notin since[t]
      /\ chain[t] \in Seq(Platforms) /\ DOMAIN pc = Turns /\ DOMAIN since = Turns /\ DOMAIN chain = Turns
    BY <1>0 DEF Fresh, RouteType, RoutingTypeOK
<1>2. ASSUME NEW p \in Platforms, p = Floor \/ p \notin cooled
      PROVE  \A n \in 1..Len(Append(chain[t], p)) : Append(chain[t], p)[n] \notin since[t]
    <2>1. p \notin since[t]
        BY <1>0, <1>1, <1>2
    <2>2. /\ Len(Append(chain[t], p)) = Len(chain[t]) + 1 /\ Append(chain[t], p)[Len(chain[t]) + 1] = p
          /\ \A n \in 1..Len(chain[t]) : Append(chain[t], p)[n] = chain[t][n]
          /\ Len(chain[t]) \in Nat
        BY <1>1
    <2> QED
        BY <1>1, <2>1, <2>2
<1>3. CASE BeginTurn(t)
    <2>1. pc[t] = "idle" /\ pc'[t] = "resolve" /\ since'[t] = limited /\ UNCHANGED <<limited, cooled, chain>>
        BY <1>1, <1>3 DEF BeginTurn
    <2>2. chain'[t] = <<>>
        BY <1>0, <2>1 DEF Fresh
    <2>3. 1..Len(<<>>) = {}
        OBVIOUS
    <2> QED
        BY <1>0, <2>1, <2>2, <2>3 DEF Fresh
<1>4. CASE ResolveOne(t)
    <2>1. pc[t] = "resolve" /\ UNCHANGED <<pc, since, limited, cooled>>
        BY <1>4 DEF ResolveOne, history
    <2>2. \A n \in 1..Len(chain'[t]) : chain'[t][n] \notin since[t]
        BY <1>0, <1>1, <1>2, <1>4, ResolvingAfter
    <2> QED
        BY <1>0, <1>1, <2>1, <2>2 DEF Fresh
<1>5. CASE Resolved(t)
    <2>1. pc'[t] = "walk" /\ UNCHANGED <<since, limited, cooled>>
        BY <1>1, <1>5 DEF Resolved, Dispatch, history
    <2>2. chain'[t] = chain[t] \/ chain'[t] = Append(chain[t], Floor)
        BY <1>0, <1>5, ResolvedAfter
    <2>3. \A n \in 1..Len(chain'[t]) : chain'[t][n] \notin since[t]
        BY <1>1, <1>2, <2>2, RoutingAssumption
    <2> QED
        BY <1>0, <1>1, <2>1, <2>3 DEF Fresh
<1>6. CASE WalkEnds(t)
    <2>1. pc'[t] = "done" /\ UNCHANGED <<since, limited, cooled, chain>>
        BY <1>1, <1>6 DEF WalkEnds, GiveUp, history
    <2> QED
        BY <1>0, <1>1, <2>1 DEF Fresh
<1>7. ASSUME NEW class \in Classes, Tried(t, class)
      PROVE  limited \subseteq limited' /\ limited' \subseteq cooled' /\ Fresh(t)'
    <2>1. /\ limited \subseteq limited' /\ cooled \subseteq cooled' /\ limited' \subseteq limited \cup cooled'
          /\ UNCHANGED <<chain, since>>
        BY <1>7 DEF Tried
    <2>2. pc[t] = "walk" /\ pc'[t] # "idle"
        <3>1. pc' = pc \/ pc' = [pc EXCEPT ![t] = "done"]
            BY <1>0, <1>7, AttemptAfter
        <3> QED
            BY <1>0, <1>1, <1>7, <3>1, AttemptAfter
    <2> QED
        BY <1>0, <1>1, <2>1, <2>2 DEF Fresh
<1> QED
    BY <1>3, <1>4, <1>5, <1>6, <1>7, TurnKinds

LEMMA NextLimit ==
    ASSUME RouteInv, LimitInv, [RoutingNext]_routingVars
    PROVE  LimitInv'
<1>1. ASSUME NEW t \in Turns, BeginTurn(t) \/ TurnStep(t)
      PROVE  LimitInv'
    <2>1. limited \subseteq limited' /\ limited' \subseteq cooled' /\ Fresh(t)'
        BY <1>1, TurnSteps
    <2>2. ASSUME NEW u \in Turns \ {t}
          PROVE  Fresh(u)'
        <3>1. Untouched(u)
            BY <1>1, OthersUntouched DEF RouteInv
        <3> QED
            BY <2>1, <3>1 DEF LimitInv, Fresh, Untouched
    <2> QED
        BY <2>1, <2>2 DEF LimitInv
<1>2. ASSUME NEW p \in Platforms, Expire(p)
      PROVE  LimitInv'
    <2>1. /\ cooled' = cooled \ {p} /\ limited' = limited \ {p} /\ since' = [u \in Turns |-> since[u] \ {p}]
          /\ UNCHANGED <<pc, chain>>
        BY <1>2 DEF Expire, turnVars
    <2>2. \A u \in Turns : Fresh(u)'
        BY <2>1 DEF LimitInv, Fresh
    <2> QED
        BY <2>1, <2>2 DEF LimitInv
<1>3. CASE UNCHANGED routingVars
    BY <1>3 DEF LimitInv, Fresh, routingVars, turnVars, history
<1> QED
    BY <1>1, <1>2, <1>3 DEF RoutingNext

\* A platform that has met a legacy turn with a quota or auth failure is left alone, until its
\* cooldown has passed, by every turn that begins later, whoever walks for it: what a turn hears
\* comes from a platform of its chain (cli_platform_resolver.py, mark_cooldown and
\* resolve_cli_chain).
THEOREM LimitsSpareLaterTurns == RoutingSpec => LimitSparesLaterTurns
<1>1. RoutingInit => RouteInv /\ LimitInv
    BY InitRoute
<1>2. RouteInv /\ LimitInv /\ [RoutingNext]_routingVars => RouteInv' /\ LimitInv'
    BY NextRoute, NextLimit
<1>3. RouteInv /\ LimitInv /\ [RoutingNext]_routingVars =>
          [\A t \in Turns : heard'[t] # heard[t] => Last(heard'[t]).platform \notin since[t]]_routingVars
    <2> SUFFICES ASSUME RouteInv, LimitInv, [RoutingNext]_routingVars, NEW t \in Turns, heard'[t] # heard[t]
                 PROVE  Last(heard'[t]).platform \notin since[t]
        OBVIOUS
    <2>1. BeginTurn(t) \/ TurnStep(t)
        <3>1. ~ UNCHANGED heard
            OBVIOUS
        <3>2. PICK u \in Turns : BeginTurn(u) \/ TurnStep(u)
            BY <3>1 DEF RoutingNext, Expire, routingVars, turnVars
        <3> QED
            BY <3>2, OthersUntouched DEF Untouched, RouteInv
    <2>2. PICK class \in Classes : Tried(t, class)
        BY <2>1, TurnKinds DEF BeginTurn, ResolveOne, Resolved, Dispatch, WalkEnds
    <2>3. Last(heard'[t]).platform = chain[t][pos[t]]
        BY <2>2, HeardGrows DEF Last, Current
    <2>4. pos[t] \in 1..Len(chain[t])
        <3>1. pc[t] = "walk" /\ pos[t] \in Nat /\ pos[t] <= Len(chain[t]) /\ chain[t] \in Seq(Platforms)
            BY <2>2, AttemptAfter DEF RouteInv, RouteType, RoutingTypeOK
        <3>2. pos[t] >= 1
            BY <3>1 DEF RouteInv, Walking
        <3> QED
            BY <3>1, <3>2
    <2> QED
        BY <2>3, <2>4 DEF LimitInv, Fresh
<1> QED
    BY <1>1, <1>2, <1>3, PTL DEF RoutingSpec, LimitSparesLaterTurns

-----------------------------------------------------------------------------

LEMMA AttemptIsWalkStep ==
    ASSUME RouteInv, NEW t \in Turns, NEW class \in Classes, Tried(t, class)
    PROVE  TurnWalk(t)!Next
<1>1. RouteType /\ Resolving(t) /\ Walking(t)
    BY DEF RouteInv
<1>2. /\ pc[t] = "walk" /\ pos[t] \in Nat /\ pos[t] <= Len(chain[t]) /\ pos[t] >= 1
      /\ Current(t) \in Platforms /\ chain' = chain /\ Len(chain[t]) \in Nat
    <2>1. /\ pc[t] = "walk" /\ pos[t] \in Nat /\ pos[t] <= Len(chain[t])
          /\ pos[t] >= 1 => Current(t) \in Platforms
        BY <1>1, AttemptAfter
    <2>2. pos[t] >= 1
        BY <1>1, <2>1 DEF Walking
    <2>3. chain' = chain /\ Len(chain[t]) \in Nat
        BY <1>1 DEF Tried, RouteType, RoutingTypeOK
    <2> QED
        BY <2>1, <2>2, <2>3
<1>3. served[t] = NoCLI /\ NoCLI \notin Platforms
    BY <1>1, <1>2, RoutingAssumption DEF Resolving
<1>4. /\ DOMAIN pc = Turns /\ DOMAIN served = Turns /\ DOMAIN pos = Turns /\ DOMAIN attempt = Turns
      /\ attempt[t] \in Nat /\ AttemptCap \in Nat
    BY <1>1, RoutingAssumption DEF RouteType, RoutingTypeOK
<1>5. \/ pos'[t] = pos[t] + 1 /\ attempt'[t] = 1 /\ pc'[t] = "walk" /\ served'[t] = NoCLI
      \/ pos'[t] = pos[t] /\ attempt'[t] = attempt[t] /\ pc'[t] = "done" /\ served'[t] = Current(t)
      \/ pos'[t] = pos[t] /\ attempt'[t] = attempt[t] /\ pc'[t] = "done" /\ served'[t] = NoCLI
      \/ /\ attempt[t] < AttemptCap /\ attempt'[t] = attempt[t] + 1
         /\ pos'[t] = pos[t] /\ pc'[t] = "walk" /\ served'[t] = NoCLI
    BY <1>1, <1>2, <1>3, <1>4, AttemptAfter
<1>6. CASE pos'[t] = pos[t] + 1 /\ attempt'[t] = 1 /\ pc'[t] = "walk" /\ served'[t] = NoCLI
    <2>1. TurnWalk(t)!MoveOn
        BY <1>2, <1>6 DEF TurnWalk!MoveOn
    <2> QED
        BY <2>1 DEF TurnWalk!Next
<1>7. CASE pos'[t] = pos[t] /\ attempt'[t] = attempt[t] /\ pc'[t] = "done" /\ served'[t] = Current(t)
    <2>1. TurnWalk(t)!Answer
        BY <1>2, <1>3, <1>7 DEF TurnWalk!Answer
    <2> QED
        BY <2>1 DEF TurnWalk!Next
<1>8. CASE pos'[t] = pos[t] /\ attempt'[t] = attempt[t] /\ pc'[t] = "done" /\ served'[t] = NoCLI
    <2>1. TurnWalk(t)!GiveUp
        BY <1>2, <1>3, <1>8 DEF TurnWalk!GiveUp
    <2> QED
        BY <2>1 DEF TurnWalk!Next
<1>9. CASE /\ attempt[t] < AttemptCap /\ attempt'[t] = attempt[t] + 1
           /\ pos'[t] = pos[t] /\ pc'[t] = "walk" /\ served'[t] = NoCLI
    <2>1. TurnWalk(t)!TryAgain
        BY <1>2, <1>4, <1>9 DEF TurnWalk!TryAgain
    <2> QED
        BY <2>1 DEF TurnWalk!Next
<1> QED
    BY <1>5, <1>6, <1>7, <1>8, <1>9

LEMMA TurnIsWalkStep ==
    ASSUME RouteInv, [RoutingNext]_routingVars, NEW t \in Turns
    PROVE  TurnWalk(t)!Next \/ UNCHANGED TurnWalk(t)!walk
<1>0. RouteType /\ Resolving(t) /\ Walking(t)
    BY DEF RouteInv
<1>1. /\ DOMAIN pc = Turns /\ DOMAIN served = Turns /\ DOMAIN pos = Turns
      /\ pc[t] # "done" => served[t] = NoCLI
      /\ pc[t] \in {"idle", "resolve"} => pos[t] = 0
    BY <1>0 DEF RouteType, RoutingTypeOK, Resolving
<1>2. ASSUME UNCHANGED <<pc, chain, pos, attempt, served>> \/ Untouched(t)
      PROVE  UNCHANGED TurnWalk(t)!walk
    <2>1. /\ pc'[t] = pc[t] /\ chain'[t] = chain[t] /\ pos'[t] = pos[t] /\ attempt'[t] = attempt[t]
          /\ served'[t] = served[t]
        BY <1>2 DEF Untouched
    <2> QED
        BY <2>1 DEF TurnWalk!walk
<1>3. CASE BeginTurn(t)
    <2>1. /\ pc[t] = "idle" /\ pc'[t] = "resolve" /\ UNCHANGED <<chain, pos, attempt, served>>
        BY <1>1, <1>3 DEF BeginTurn
    <2> QED
        BY <2>1 DEF TurnWalk!walk
<1>4. CASE ResolveOne(t)
    <2>1. /\ pc[t] = "resolve" /\ UNCHANGED <<pc, pos, attempt, served>> /\ pos[t] = 0
        BY <1>1, <1>4 DEF ResolveOne
    <2>2. chain'[t] \in Seq(Platforms)
        BY <1>0, <1>4, ResolvingAfter
    <2>3. TurnWalk(t)!FixChain
        BY <2>1, <2>2 DEF TurnWalk!FixChain
    <2> QED
        BY <2>3 DEF TurnWalk!Next
<1>5. CASE Resolved(t)
    <2>1. /\ pc[t] = "resolve" /\ pc'[t] = "walk" /\ pos[t] = 0 /\ pos'[t] = 1 /\ UNCHANGED <<attempt, served>>
          /\ chain'[t] \in Seq(Platforms)
        BY <1>0, <1>1, <1>5, ResolvedAfter DEF Resolved, Dispatch
    <2>2. TurnWalk(t)!FixChain
        BY <2>1 DEF TurnWalk!FixChain
    <2> QED
        BY <2>2 DEF TurnWalk!Next
<1>6. CASE WalkEnds(t)
    <2>1. /\ pc[t] = "walk" /\ pc'[t] = "done" /\ served[t] = NoCLI
          /\ UNCHANGED <<chain, pos, attempt, served>>
        BY <1>1, <1>6 DEF WalkEnds, GiveUp
    <2>2. TurnWalk(t)!GiveUp
        BY <2>1 DEF TurnWalk!GiveUp
    <2> QED
        BY <2>2 DEF TurnWalk!Next
<1>7. ASSUME NEW class \in Classes, Tried(t, class)
      PROVE  TurnWalk(t)!Next
    BY <1>7, AttemptIsWalkStep
<1>8. ASSUME NEW u \in Turns \ {t}, BeginTurn(u) \/ TurnStep(u)
      PROVE  UNCHANGED TurnWalk(t)!walk
    BY <1>0, <1>2, <1>8, OthersUntouched
<1>9. CASE (\E p \in Platforms : Expire(p)) \/ UNCHANGED routingVars
    BY <1>2, <1>9 DEF Expire, turnVars, routingVars
<1> QED
    BY <1>3, <1>4, <1>5, <1>6, <1>7, <1>8, <1>9, TurnKinds DEF RoutingNext

\* Both walkers of agent_router.py implement FallbackChain: the chain is fixed before
\* the first platform, the cursor moves on by one, tries stay below the cap, and a walk
\* ends once.
THEOREM BothWalkersImplementFallbackChain == RoutingSpec => WalksImplementFallbackChain
<1>1. RoutingInit => RouteInv
    BY InitRoute
<1>2. RouteInv /\ [RoutingNext]_routingVars => RouteInv'
    BY NextRoute
<1>3. RoutingInit => \A t \in Turns : TurnWalk(t)!Init
    BY DEF RoutingInit, TurnWalk!Init
<1>4. RouteInv /\ [RoutingNext]_routingVars =>
          [\A t \in Turns : TurnWalk(t)!Next \/ UNCHANGED TurnWalk(t)!walk]_routingVars
    BY TurnIsWalkStep
<1> QED
    BY <1>1, <1>2, <1>3, <1>4, PTL DEF RoutingSpec, WalksImplementFallbackChain

\* The chain a turn hands to its walker names no platform twice: the executor is only
\* given chains of the kind MirrorAlwaysAgrees asks for (resolve_cli_chain's seen).
Distinct(ps) == \A a, b \in 1..Len(ps) : ps[a] = ps[b] => a = b

LEMMA DistinctGrows ==
    ASSUME NEW p \in Platforms, NEW ps \in Seq(Platforms), Distinct(ps)
    PROVE  Distinct(Added(p, ps)) /\ (p = Floor => Distinct(WithFloor(ps)))
<1>1. ASSUME ~ Contains(ps, p)
      PROVE  Distinct(Append(ps, p))
    <2>1. /\ Len(Append(ps, p)) = Len(ps) + 1 /\ Append(ps, p)[Len(ps) + 1] = p /\ Len(ps) \in Nat
          /\ \A a \in 1..Len(ps) : Append(ps, p)[a] = ps[a] /\ ps[a] # p
        BY <1>1 DEF Contains
    <2>2. \A a \in 1..(Len(ps) + 1) : a \in 1..Len(ps) \/ a = Len(ps) + 1
        BY <2>1
    <2> QED
        BY <2>1, <2>2 DEF Distinct
<1> QED
    BY <1>1 DEF Added, WithFloor

THEOREM ChainsAreDistinct == RoutingSpec => [](\A t \in Turns : Distinct(chain[t]))
<1> DEFINE Inv == RouteInv /\ \A t \in Turns : Distinct(chain[t])
<1>1. RoutingInit => Inv
    <2>1. Distinct(<<>>)
        BY DEF Distinct
    <2> QED
        BY <2>1, InitRoute DEF RoutingInit
<1>2. Inv /\ [RoutingNext]_routingVars => Inv'
    <2> SUFFICES ASSUME Inv, [RoutingNext]_routingVars
                 PROVE  \A u \in Turns : Distinct(chain'[u])
        BY NextRoute
    <2>1. chain \in [Turns -> Seq(Platforms)] /\ todo \in [Turns -> Seq(Platforms)] /\ Floor \in Platforms
        BY RoutingAssumption DEF RouteInv, RouteType, RoutingTypeOK
    <2>2. ASSUME NEW t \in Turns, ResolveOne(t)
          PROVE  \A u \in Turns : Distinct(chain'[u])
        <3>1. PICK p \in Platforms : p = Head(todo[t])
            BY <2>1, <2>2 DEF ResolveOne
        <3>2. chain' = chain \/ chain' = [chain EXCEPT ![t] = Added(p, chain[t])]
            BY <2>2, <3>1 DEF ResolveOne
        <3> QED
            BY <2>1, <3>2, DistinctGrows
    <2>3. ASSUME NEW t \in Turns, Resolved(t)
          PROVE  \A u \in Turns : Distinct(chain'[u])
        <3>1. chain' = [chain EXCEPT ![t] = WithFloor(chain[t])]
            BY <2>3 DEF Resolved, Dispatch
        <3> QED
            BY <2>1, <3>1, DistinctGrows
    <2>4. ASSUME UNCHANGED chain
          PROVE  \A u \in Turns : Distinct(chain'[u])
        BY <2>4
    <2>5. UNCHANGED chain \/ \E t \in Turns : ResolveOne(t) \/ Resolved(t)
        BY TurnKinds DEF RoutingNext, BeginTurn, WalkEnds, Tried, Expire, turnVars, routingVars
    <2> QED
        BY <2>2, <2>3, <2>4, <2>5
<1> QED
    BY <1>1, <1>2, PTL DEF RoutingSpec

\* Every variable of the turns keeps its type: the cursor stays within one of the chain,
\* and the tries within the cap.
THEOREM RoutingIsTyped == RoutingSpec => []RoutingTypeOK
<1>1. RoutingInit => RouteInv
    BY InitRoute
<1>2. RouteInv /\ [RoutingNext]_routingVars => RouteInv'
    BY NextRoute
<1>3. RouteInv => RoutingTypeOK
    BY DEF RouteInv, RouteType
<1> QED
    BY <1>1, <1>2, <1>3, PTL DEF RoutingSpec
=============================================================================
