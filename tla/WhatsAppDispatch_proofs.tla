----------------------- MODULE WhatsAppDispatch_proofs -----------------------
(***************************************************************************)
(* For any number of senders, turns, threads and any caps: the counter of  *)
(* the gate is exact until the drain, no queued job is lost on its way     *)
(* from a sender's queue over the pool to its end, and a sender's turns    *)
(* are answered in the order he sent them.                                 *)
(*                                                                         *)
(* All rest on the order of a sender's turns: they arrive in ascending     *)
(* order, so what a consumer holds comes before what waits behind it, and  *)
(* no turn is in two places.                                               *)
(* That is also why a sender is answered in the order he wrote.            *)
(***************************************************************************)
EXTENDS WhatsAppDispatch, TLAPS, FiniteSetTheorems

JobStatuses == {"none", "queued", "running"} \cup JobTerminal
Futures == {"none", "pending", "running", "finished", "cancelled"}
Stages == {"none", "spawned", "waiting", "failing", "sending", "leaving"}
Resting == {"none", "spawned"}

Types ==
  /\ status \in [Turns -> JobStatuses]
  /\ future \in [Turns -> Futures]
  /\ work \in Seq(Turns)
  /\ queue \in [Senders -> Seq(Turns)]
  /\ consumer \in [Senders -> Stages]
  /\ held \in [Senders -> Turns \cup {0}]
  /\ \A f \in failing : f.turn \in Turns
  /\ phase \in {"no", "waiting", "notifying", "stopped"}

(* A sender's queue q behind the turn h of its consumer: his own turns, that
   have arrived (in jobs), in the order he sent them. *)
Lined(q, h, s, jobs) ==
  /\ \A k \in 1..Len(q) : /\ SenderOf[q[k]] = s /\ jobs[q[k]] # "none" /\ h < q[k]
                          /\ \A i \in 1..Len(q) : i < k => q[i] < q[k]
  /\ h # 0 => SenderOf[h] = s /\ jobs[h] # "none"

(* Turns arrive in the order they are sent. *)
Closed(jobs) ==
  \A t, u \in Turns : u < t /\ SenderOf[u] = SenderOf[t] /\ jobs[t] # "none" => jobs[u] # "none"

(* A run on the pool's queue is waited for. *)
Awaited(t) ==
  /\ Contains(work, t) /\ held[SenderOf[t]] = t /\ consumer[SenderOf[t]] = "waiting"

Active == {t \in Turns : \E s \in Senders : t = held[s] \/ Contains(queue[s], t)}

(* A run that returned, and whose consumer has not looked yet. *)
Unread(t) ==
  /\ future[t] = "finished" /\ held[SenderOf[t]] = t /\ consumer[SenderOf[t]] = "waiting"

Carried(t) ==
  \/ Contains(queue[SenderOf[t]], t)
  \/ future[t] = "pending" /\ Contains(work, t) /\ held[SenderOf[t]] = t
  \/ Unread(t)
  \/ \E f \in failing : f.turn = t
  \/ future[t] \in {"cancelled", "finished"} /\ phase = "stopped"

IInv ==
  /\ Types
  /\ \A s \in Senders : Lined(queue[s], held[s], s, status)
  /\ Closed(status)
  /\ \A s \in Senders : held[s] = 0 <=> consumer[s] \in Resting
  /\ \A t \in Turns : future[t] = "pending" => Awaited(t)
  /\ \A f \in failing : future[f.turn] # "pending"
  /\ \A t \in Turns : status[t] = "queued" => Carried(t)
  /\ GateCounts

-----------------------------------------------------------------------------
(* What Append, Head and Tail do to the elements of a queue. *)
LEMMA Appended ==
  ASSUME NEW q \in Seq(Turns), NEW t \in Turns
  PROVE  /\ Append(q, t) \in Seq(Turns)
         /\ \A u \in Turns : Contains(Append(q, t), u) <=> Contains(q, u) \/ u = t
         /\ Len(Append(q, t)) = Len(q) + 1
         /\ \A k \in 1..Len(q) : Append(q, t)[k] = q[k]
         /\ Append(q, t)[Len(q) + 1] = t
<1> DEFINE r == Append(q, t)
<1>1. r \in Seq(Turns) /\ Len(r) = Len(q) + 1 /\ Len(q) \in Nat  OBVIOUS
<1>2. (\A k \in 1..Len(q) : r[k] = q[k]) /\ r[Len(q) + 1] = t  OBVIOUS
<1>3. ASSUME NEW u \in Turns PROVE Contains(r, u) <=> Contains(q, u) \/ u = t
  <2> HIDE DEF r
  <2> QED BY <1>1, <1>2 DEF Contains
<1> QED BY <1>1, <1>2, <1>3

LEMMA Split ==
  ASSUME NEW q \in Seq(Turns), q # <<>>
  PROVE  /\ Head(q) \in Turns /\ Tail(q) \in Seq(Turns) /\ Head(q) = q[1]
         /\ Len(Tail(q)) = Len(q) - 1 /\ Len(q) \in Nat \ {0}
         /\ \A k \in 1..Len(Tail(q)) : Tail(q)[k] = q[k + 1]
         /\ \A u \in Turns : Contains(q, u) <=> Contains(Tail(q), u) \/ u = Head(q)
<1> DEFINE r == Tail(q)
           h == Head(q)
<1>1. /\ h \in Turns /\ r \in Seq(Turns) /\ h = q[1] /\ Len(r) = Len(q) - 1 /\ Len(q) \in Nat \ {0}
  OBVIOUS
<1>2. \A k \in 1..Len(r) : r[k] = q[k + 1]  OBVIOUS
<1>3. ASSUME NEW u \in Turns PROVE Contains(q, u) <=> Contains(r, u) \/ u = h
  <2> HIDE DEF r, h
  <2>1. ASSUME NEW k \in 1..Len(q), q[k] = u PROVE Contains(r, u) \/ u = h
    <3>1. CASE k = 1  BY <3>1, <2>1, <1>1
    <3>2. CASE k # 1
      <4>1. k - 1 \in 1..Len(r) /\ r[k - 1] = q[(k - 1) + 1]  BY <3>2, <1>1, <1>2
      <4> QED BY <4>1, <2>1 DEF Contains
    <3> QED BY <3>1, <3>2
  <2>2. ASSUME NEW k \in 1..Len(r), r[k] = u PROVE Contains(q, u)
    <3>1. k + 1 \in 1..Len(q) /\ q[k + 1] = u  BY <2>2, <1>1, <1>2
    <3> QED BY <3>1 DEF Contains
  <2>3. u = h => Contains(q, u)  BY <1>1 DEF Contains
  <2> QED BY <2>1, <2>2, <2>3 DEF Contains
<1> QED BY <1>1, <1>2, <1>3

(* Turns move on: none that arrived is gone again. *)
Moves(old, new) == \A t \in Turns : old[t] # "none" => new[t] # "none"

LEMMA LinedStays ==
  ASSUME NEW s \in Senders, NEW q \in Seq(Turns), NEW h \in Turns \cup {0},
         Lined(q, h, s, status), Moves(status, status')
  PROVE  Lined(q, h, s, status')
<1>1. \A k \in 1..Len(q) : q[k] \in Turns  OBVIOUS
<1> QED BY <1>1 DEF Lined, Moves

LEMMA TurnsAreFinite == IsFiniteSet(Active) /\ Cardinality(Active) \in Nat
<1>1. IsFiniteSet(Turns)  BY DispatchAssumption, FS_Interval DEF Turns
<1>2. Active \subseteq Turns  BY DEF Active
<1> QED BY <1>1, <1>2, FS_Subset, FS_CardinalityType

LEMMA GateIsActive ==
  GateCounts <=> IF phase \in {"no", "waiting"} THEN inflight = Cardinality(Active) ELSE inflight = 0
BY DEF GateCounts, Active

(* Nobody waits on the pool for a turn that waits in a queue. *)
LEMMA QueuedNotPending ==
  ASSUME IInv, NEW t \in Turns, NEW s \in Senders, Contains(queue[s], t)
  PROVE  /\ SenderOf[t] = s /\ held[s] < t /\ status[t] # "none"
         /\ future[t] # "pending"
<1>1. PICK k \in 1..Len(queue[s]) : queue[s][k] = t  BY DEF Contains
<1>2. SenderOf[t] = s /\ held[s] < t /\ status[t] # "none"  BY <1>1 DEF IInv, Lined
<1>3. held[s] \in Turns \cup {0} /\ t \in Nat  BY DEF IInv, Types, Turns
<1>4. future[t] = "pending" => held[s] = t  BY <1>2 DEF IInv, Awaited
<1>5. held[s] # t  BY <1>2, <1>3 DEF Turns
<1> QED BY <1>2, <1>4, <1>5

(* A step that moves no turn in a queue or in a consumer's hands. *)
LEMMA Calm ==
  ASSUME IInv, Types', Moves(status, status'), Closed(status'), UNCHANGED <<queue, held, inflight>>,
         \A s \in Senders : consumer'[s] \in Resting <=> consumer[s] \in Resting,
         phase' = phase \/ (phase = "no" /\ phase' = "waiting"),
         \A t \in Turns : future'[t] = "pending" => Awaited(t)',
         \A f \in failing' : future'[f.turn] # "pending",
         \A t \in Turns : status'[t] = "queued" => Carried(t)'
  PROVE  IInv'
<1>1. ASSUME NEW s \in Senders PROVE Lined(queue'[s], held'[s], s, status')
  <2>1. Lined(queue[s], held[s], s, status) /\ queue[s] \in Seq(Turns) /\ held[s] \in Turns \cup {0}
    BY DEF IInv, Types
  <2>2. Lined(queue[s], held[s], s, status')  BY <2>1, LinedStays
  <2> QED BY <2>2
<1>2. ASSUME NEW s \in Senders PROVE held'[s] = 0 <=> consumer'[s] \in Resting
  <2>1. held[s] = 0 <=> consumer[s] \in Resting  BY DEF IInv
  <2> QED BY <2>1
<1>3. GateCounts'
  <2>1. Active' = Active  BY DEF Active
  <2> QED BY <2>1 DEF IInv, GateCounts, Active
<1> QED BY <1>1, <1>2, <1>3 DEF IInv

(* A step of the rows alone. *)
LEMMA RowStep ==
  ASSUME IInv, NEW t \in Turns, status[t] # "none", UNCHANGED <<poolVars, late, loopVars>>,
         \E x \in JobTerminal : status' = [status EXCEPT ![t] = x]
  PROVE  IInv'
<1>1. UNCHANGED <<future, work, queue, consumer, held, inflight, failing, phase>>
  BY DEF poolVars, loopVars, turnVars
<1>2. PICK x \in JobTerminal : status' = [status EXCEPT ![t] = x]  OBVIOUS
<1>3. \A u \in Turns : status'[u] = IF u = t THEN x ELSE status[u]  BY <1>2 DEF IInv, Types
<1>4. Types'  BY <1>1, <1>2 DEF IInv, Types, JobStatuses
<1>5. Moves(status, status') /\ Closed(status')
  BY <1>3 DEF IInv, Moves, Closed, JobTerminal
<1>6. \A u \in Turns : future'[u] = "pending" => Awaited(u)'
  BY <1>1 DEF IInv, Awaited
<1>7. ASSUME NEW u \in Turns, status'[u] = "queued" PROVE Carried(u)'
  <2>1. status[u] = "queued"  BY <1>7, <1>3 DEF JobTerminal
  <2> QED BY <2>1, <1>1 DEF IInv, Carried, Unread
<1>8. \A f \in failing' : future'[f.turn] # "pending"  BY <1>1 DEF IInv
<1>9. /\ UNCHANGED <<queue, held, inflight>> /\ phase' = phase
      /\ \A s \in Senders : consumer'[s] \in Resting <=> consumer[s] \in Resting
  BY <1>1
<1> QED BY <1>4, <1>5, <1>6, <1>7, <1>8, <1>9, Calm

(* The consumer takes the next turn of its queue, or goes. *)
LEMMA Taking ==
  ASSUME IInv, NEW s \in Senders, LoopFree, consumer[s] \in {"spawned", "leaving"}, TakeNext(s),
         UNCHANGED <<status, phase>>, GateCounts'
  PROVE  IInv'
<1> DEFINE t == Head(queue[s])
           q == queue[s]
<1>1. q \in Seq(Turns) /\ Lined(q, held[s], s, status) /\ failing = {}  BY DEF IInv, Types, LoopFree
<1>2. \A u \in Turns : future[u] = "pending" => SenderOf[u] # s /\ Awaited(u)  BY DEF IInv, Awaited
<1>5. \A u \in Turns : Unread(u) => SenderOf[u] # s  BY DEF Unread
<1>3. CASE q = <<>>
  <2>1. /\ consumer' = [consumer EXCEPT ![s] = "none"] /\ held' = [held EXCEPT ![s] = 0]
        /\ UNCHANGED <<queue, future, work, failing>>
    BY <1>3 DEF TakeNext, poolVars
  <2>2. Types'  BY <2>1 DEF IInv, Types, Stages
  <2>3. \A z \in Senders : Lined(queue'[z], held'[z], z, status')
    BY <2>1, <1>1, <1>3 DEF IInv, Lined, Types
  <2>4. \A z \in Senders : held'[z] = 0 <=> consumer'[z] \in Resting
    BY <2>1 DEF IInv, Resting, Types
  <2>5. \A u \in Turns : future'[u] = "pending" => Awaited(u)'
    BY <1>2, <2>1 DEF Awaited, IInv, Types
  <2>6. \A u \in Turns : status'[u] = "queued" => Carried(u)'
    BY <1>2, <1>5, <2>1 DEF IInv, Carried, Awaited, Unread, Types
  <2> QED BY <2>1, <2>2, <2>3, <2>4, <2>5, <2>6, <1>1 DEF IInv
<1>4. CASE q # <<>>
  <2>1. /\ t \in Turns /\ Tail(q) \in Seq(Turns) /\ t = q[1] /\ Len(Tail(q)) = Len(q) - 1
        /\ Len(q) \in Nat \ {0} /\ \A k \in 1..Len(Tail(q)) : Tail(q)[k] = q[k + 1]
        /\ \A u \in Turns : Contains(q, u) <=> Contains(Tail(q), u) \/ u = t
    BY <1>1, <1>4, Split
  <2>2. Contains(q, t) /\ SenderOf[t] = s /\ held[s] < t /\ status[t] # "none" /\ future[t] # "pending"
    BY <2>1, QueuedNotPending
  <2>3. queue' = [queue EXCEPT ![s] = Tail(q)] /\ held' = [held EXCEPT ![s] = t]
    BY <1>4 DEF TakeNext
  <2>4. CASE phase = "stopped"
    <3>1. consumer' = [consumer EXCEPT ![s] = "failing"] /\ UNCHANGED <<future, work>>
      BY <1>4, <2>4 DEF TakeNext, poolVars
    <3>2. (\A f \in failing' : f.turn = t) /\ (\E f \in failing' : f.turn = t)
      <4>1. failing' = {[turn |-> t, why |-> "executor unavailable"]}  BY <1>4, <2>4 DEF TakeNext
      <4> DEFINE r == [turn |-> t, why |-> "executor unavailable"]
      <4>2. r.turn = t  OBVIOUS
      <4> HIDE DEF r, t
      <4> QED BY <4>2, <4>1 DEF r
    <3> HIDE DEF t
    <3>3. Types'  BY <3>1, <3>2, <2>1, <2>3 DEF IInv, Types, Stages
    <3>4. \A z \in Senders : held'[z] = 0 <=> consumer'[z] \in Resting
      BY <2>1, <2>3, <3>1 DEF IInv, Resting, Types, Turns
    <3>5. \A u \in Turns : future'[u] = "pending" => Awaited(u)'
      BY <1>2, <3>1, <2>3 DEF Awaited, IInv, Types
    <3>6. ASSUME NEW u \in Turns, status'[u] = "queued" PROVE Carried(u)'
      <4>1. CASE u = t  BY <4>1, <3>2 DEF Carried
      <4>2. CASE u # t
        <5>1. Carried(u)  BY <3>6 DEF IInv
        <5>2. Contains(queue[SenderOf[u]], u) => Contains(queue'[SenderOf[u]], u)
          BY <4>2, <2>1, <2>3 DEF IInv, Types
        <5>3. future[u] = "pending" => held'[SenderOf[u]] = held[SenderOf[u]]  BY <1>2, <2>3 DEF IInv, Types
        <5>4. Unread(u) => Unread(u)'  BY <1>5, <2>3, <3>1 DEF IInv, Types, Unread
        <5> QED BY <5>1, <5>2, <5>3, <5>4, <3>1, <1>1 DEF Carried
      <4> QED BY <4>1, <4>2
    <3>7. \A f \in failing' : future'[f.turn] # "pending"  BY <3>1, <3>2, <2>2
    <3>8. ASSUME NEW z \in Senders PROVE Lined(queue'[z], held'[z], z, status')
      <4>1. CASE z # s  BY <4>1, <2>3 DEF IInv, Types
      <4>2. CASE z = s
        <5>1. queue'[z] = Tail(q) /\ held'[z] = t  BY <4>2, <2>3 DEF IInv, Types
        <5>2. \A k \in 1..Len(Tail(q)) : k + 1 \in 1..Len(q) /\ 1 \in 1..Len(q)  BY <2>1
        <5> QED BY <5>1, <5>2, <2>1, <2>2, <1>1, <4>2 DEF Lined
      <4> QED BY <4>1, <4>2
    <3> QED BY <3>3, <3>4, <3>5, <3>6, <3>7, <3>8 DEF IInv
  <2>5. CASE phase # "stopped"
    <3>1. /\ consumer' = [consumer EXCEPT ![s] = "waiting"]
          /\ future' = [future EXCEPT ![t] = "pending"] /\ work' = Append(work, t) /\ failing' = failing
      BY <1>4, <2>5 DEF TakeNext
    <3>2. /\ Append(work, t) \in Seq(Turns)
          /\ \A u \in Turns : Contains(Append(work, t), u) <=> Contains(work, u) \/ u = t
      BY <2>1, Appended DEF IInv, Types
    <3> HIDE DEF t
    <3>3. Types'
      <4>1. work' \in Seq(Turns)  BY <3>1, <3>2
      <4> QED BY <4>1, <3>1, <2>1, <2>3 DEF IInv, Types, Stages, Futures
    <3>4. \A z \in Senders : held'[z] = 0 <=> consumer'[z] \in Resting
      BY <2>1, <2>3, <3>1 DEF IInv, Resting, Types, Turns
    <3>5. ASSUME NEW u \in Turns, future'[u] = "pending" PROVE Awaited(u)'
      <4>1. CASE u = t  BY <4>1, <2>1, <2>2, <2>3, <3>1, <3>2 DEF Awaited, IInv, Types
      <4>2. CASE u # t
        <5>1. future[u] = "pending"  BY <4>2, <3>5, <3>1 DEF IInv, Types
        <5> QED BY <5>1, <1>2, <2>3, <3>1, <3>2 DEF Awaited, IInv, Types
      <4> QED BY <4>1, <4>2
    <3>6. ASSUME NEW u \in Turns, status'[u] = "queued" PROVE Carried(u)'
      <4>1. CASE u = t  BY <4>1, <2>1, <2>2, <2>3, <3>1, <3>2 DEF Carried, IInv, Types
      <4>2. CASE u # t
        <5>1. Carried(u)  BY <3>6 DEF IInv
        <5>2. Contains(queue[SenderOf[u]], u) => Contains(queue'[SenderOf[u]], u)
          BY <4>2, <2>1, <2>3 DEF IInv, Types
        <5>3. future'[u] = future[u]  BY <4>2, <3>1 DEF IInv, Types
        <5>4. future[u] = "pending" => held'[SenderOf[u]] = held[SenderOf[u]]  BY <1>2, <2>3 DEF IInv, Types
        <5>5. Contains(work, u) => Contains(work', u)  BY <3>1, <3>2
        <5>6. Unread(u) => Unread(u)'  BY <1>5, <2>3, <3>1, <5>3 DEF IInv, Types, Unread
        <5> QED BY <5>1, <5>2, <5>3, <5>4, <5>5, <5>6, <3>1 DEF Carried
      <4> QED BY <4>1, <4>2
    <3>7. \A f \in failing' : future'[f.turn] # "pending"  BY <3>1, <1>1
    <3>8. ASSUME NEW z \in Senders PROVE Lined(queue'[z], held'[z], z, status')
      <4>1. CASE z # s  BY <4>1, <2>3 DEF IInv, Types
      <4>2. CASE z = s
        <5>1. queue'[z] = Tail(q) /\ held'[z] = t  BY <4>2, <2>3 DEF IInv, Types
        <5>2. \A k \in 1..Len(Tail(q)) : k + 1 \in 1..Len(q) /\ 1 \in 1..Len(q)  BY <2>1
        <5> QED BY <5>1, <5>2, <2>1, <2>2, <1>1, <4>2 DEF Lined
      <4> QED BY <4>1, <4>2
    <3> QED BY <3>3, <3>4, <3>5, <3>6, <3>7, <3>8 DEF IInv
  <2> QED BY <2>4, <2>5
<1> QED BY <1>3, <1>4

(* With its turn gone, the one it takes was counted before. *)
LEMMA TakingKeepsCount ==
  ASSUME IInv, NEW s \in Senders, TakeNext(s)
  PROVE  Active' = Active \ {held[s]}
<1> DEFINE q == queue[s]
<1>1. q \in Seq(Turns) /\ 0 \notin Turns  BY DEF IInv, Types, Turns
<1>2. ASSUME NEW u \in Turns, NEW z \in Senders
      PROVE  /\ u = held[z] => SenderOf[u] = z
             /\ Contains(queue[z], u) => SenderOf[u] = z /\ u # held[z]
  <2>1. u = held[z] => SenderOf[u] = z  BY <1>1 DEF IInv, Lined
  <2>2. Contains(queue[z], u) => SenderOf[u] = z /\ held[z] < u  BY QueuedNotPending
  <2>3. held[z] \in Int /\ u \in Int  BY DEF IInv, Types, Turns
  <2> QED BY <2>1, <2>2, <2>3
<1>3. ASSUME NEW u \in Turns
      PROVE  (\E z \in Senders : u = held'[z] \/ Contains(queue'[z], u))
               <=> (u # held[s] /\ \E z \in Senders : u = held[z] \/ Contains(queue[z], u))
  <2>1. CASE q = <<>>
    <3>1. queue' = queue /\ held' = [held EXCEPT ![s] = 0]  BY <2>1 DEF TakeNext
    <3>2. \A z \in Senders : held'[z] = IF z = s THEN 0 ELSE held[z]  BY <3>1 DEF IInv, Types
    <3> QED BY <3>1, <3>2, <1>1, <1>2
  <2>2. CASE q # <<>>
    <3> DEFINE t == Head(q)
    <3>1. queue' = [queue EXCEPT ![s] = Tail(q)] /\ held' = [held EXCEPT ![s] = t]  BY <2>2 DEF TakeNext
    <3>2. t \in Turns /\ \A v \in Turns : Contains(q, v) <=> Contains(Tail(q), v) \/ v = t
      BY <1>1, <2>2, Split
    <3>3. \A z \in Senders : /\ held'[z] = IF z = s THEN t ELSE held[z]
                             /\ queue'[z] = IF z = s THEN Tail(q) ELSE queue[z]
      BY <3>1 DEF IInv, Types
    <3> HIDE DEF t
    <3> QED BY <3>2, <3>3, <1>2
  <2> QED BY <2>1, <2>2
<1> QED BY <1>3 DEF Active

LEMMA InitIInv == Init => IInv
<1> SUFFICES ASSUME Init PROVE IInv  OBVIOUS
<1>1. Types  BY DEF Init, Types, JobStatuses, Futures, Stages
<1>2. /\ \A s \in Senders : Lined(queue[s], held[s], s, status)
      /\ \A s \in Senders : held[s] = 0 <=> consumer[s] \in Resting
  BY DEF Init, Lined, Resting
<1>3. Closed(status) /\ \A t \in Turns : future[t] # "pending" /\ status[t] # "queued"
  BY DEF Init, Closed
<1>4. GateCounts
  <2>1. Active = {}  BY DEF Init, Active, Contains, Turns
  <2> QED BY <2>1, FS_EmptySet, GateIsActive DEF Init
<1> QED BY <1>1, <1>2, <1>3, <1>4 DEF Init, IInv

(* A turn that arrives goes behind all the others of its sender. *)
LEMMA ArrivalCounted ==
  ASSUME IInv, NEW t \in Turns, Arrive(t), Admits(SenderOf[t])
  PROVE  IInv'
<1> DEFINE s == SenderOf[t]
           q == queue[s]
           r == Append(q, t)
<1>1. /\ s \in Senders /\ q \in Seq(Turns) /\ Len(q) \in Nat /\ held[s] \in Turns \cup {0}
      /\ phase = "no" /\ failing = {} /\ status[t] = "none"
      /\ \A u \in Turns : u < t /\ SenderOf[u] = s => status[u] # "none"
  <2>1. s \in Senders  BY DispatchAssumption
  <2>2. q \in Seq(Turns) /\ Len(q) \in Nat /\ held[s] \in Turns \cup {0}  BY <2>1 DEF IInv, Types
  <2> HIDE DEF q, r
  <2>3. /\ phase = "no" /\ failing = {} /\ status[t] = "none"
        /\ \A u \in Turns : u < t /\ SenderOf[u] = s => status[u] # "none"
    BY DEF Arrive, LoopFree
  <2> QED BY <2>1, <2>2, <2>3
<1>2. /\ status' = [status EXCEPT ![t] = "queued"] /\ queue' = [queue EXCEPT ![s] = r]
      /\ inflight' = inflight + 1
      /\ consumer' = [consumer EXCEPT ![s] = IF @ = "none" THEN "spawned" ELSE @]
      /\ UNCHANGED <<future, work, held, failing, phase>>
  BY DEF Arrive, Enqueued, poolVars
<1>3. /\ r \in Seq(Turns) /\ Len(r) = Len(q) + 1 /\ r[Len(q) + 1] = t
      /\ \A u \in Turns : Contains(r, u) <=> Contains(q, u) \/ u = t
      /\ \A k \in 1..Len(q) : r[k] = q[k]
  BY <1>1, Appended
<1> HIDE DEF r
<1>4. /\ \A u \in Turns : status'[u] = IF u = t THEN "queued" ELSE status[u]
      /\ \A z \in Senders : /\ queue'[z] = IF z = s THEN r ELSE queue[z]
                            /\ consumer'[z] = IF z = s /\ consumer[z] = "none" THEN "spawned" ELSE consumer[z]
  BY <1>2 DEF IInv, Types
<1>5. Moves(status, status') /\ Closed(status')
  BY <1>1, <1>4 DEF IInv, Moves, Closed
<1>6. Types'
  <2>1. queue' \in [Senders -> Seq(Turns)]  BY <1>2, <1>3 DEF IInv, Types
  <2> QED BY <1>2, <2>1 DEF IInv, Types, JobStatuses, Stages
<1>7. ASSUME NEW u \in Turns, u = held[s] \/ Contains(q, u) PROVE u < t
  <2>1. SenderOf[u] = s /\ status[u] # "none"  BY <1>7, <1>1, QueuedNotPending DEF IInv, Lined, Turns
  <2>2. u # t /\ ~ (t < u)  BY <2>1, <1>1 DEF IInv, Closed
  <2> QED BY <2>2 DEF Turns
<1>8. ASSUME NEW z \in Senders PROVE Lined(queue'[z], held'[z], z, status')
  <2>1. CASE z # s
    <3>1. Lined(queue[z], held[z], z, status) /\ queue[z] \in Seq(Turns) /\ held[z] \in Turns \cup {0}
      BY DEF IInv, Types
    <3>2. Lined(queue[z], held[z], z, status')  BY <3>1, <1>5, LinedStays
    <3> QED BY <3>2, <2>1, <1>2, <1>4
  <2>2. CASE z = s
    <3>1. Lined(q, held[s], s, status')  BY <1>1, <1>5, LinedStays DEF IInv
    <3>2. held[s] < t  BY <1>1, <1>7 DEF Turns
    <3>3. \A i \in 1..Len(q) : q[i] \in Turns /\ q[i] < t  BY <1>1, <1>7 DEF Contains
    <3>4. \A k \in 1..Len(r) : k \in 1..Len(q) \/ k = Len(q) + 1  BY <1>1, <1>3
    <3>5. SenderOf[t] = s /\ status'[t] # "none"  BY <1>4
    <3>6. Lined(r, held[s], s, status')
      <4>1. ASSUME NEW k \in 1..Len(r)
            PROVE  /\ SenderOf[r[k]] = s /\ status'[r[k]] # "none" /\ held[s] < r[k]
                   /\ \A i \in 1..Len(r) : i < k => r[i] < r[k]
        <5>1. CASE k \in 1..Len(q)
          <6>1. \A i \in 1..Len(r) : i < k => i \in 1..Len(q)  BY <5>1, <1>1, <1>3
          <6> QED BY <5>1, <6>1, <3>1, <1>3 DEF Lined
        <5>2. CASE k = Len(q) + 1
          <6>1. \A i \in 1..Len(r) : i < k => i \in 1..Len(q)  BY <5>2, <1>1, <1>3
          <6> QED BY <5>2, <6>1, <3>2, <3>3, <3>5, <1>3
        <5> QED BY <3>4, <5>1, <5>2
      <4> QED BY <4>1, <3>1 DEF Lined
    <3> QED BY <3>6, <2>2, <1>2, <1>4
  <2> QED BY <2>1, <2>2
<1>9. \A z \in Senders : held'[z] = 0 <=> consumer'[z] \in Resting
  BY <1>2, <1>4 DEF IInv, Resting
<1>10. \A u \in Turns : future'[u] = "pending" => Awaited(u)'
  BY <1>2, <1>4, DispatchAssumption DEF IInv, Awaited
<1>11. ASSUME NEW u \in Turns, status'[u] = "queued" PROVE Carried(u)'
  <2>1. SenderOf[u] \in Senders  BY DispatchAssumption
  <2>2. CASE u = t  BY <2>2, <1>1, <1>3, <1>4 DEF Carried
  <2>3. CASE u # t
    <3>1. Carried(u)  BY <1>11, <2>3, <1>4 DEF IInv
    <3>2. Contains(queue[SenderOf[u]], u) => Contains(queue'[SenderOf[u]], u)
      BY <2>1, <1>3, <1>4
    <3> QED BY <3>1, <3>2, <2>1, <1>2, <1>4 DEF Carried, Unread
  <2> QED BY <2>2, <2>3
<1>12. GateCounts'
  <2>1. Active' = Active \cup {t}
    <3>1. \A u \in Turns : (\E z \in Senders : u = held'[z] \/ Contains(queue'[z], u))
                             <=> (u = t \/ \E z \in Senders : u = held[z] \/ Contains(queue[z], u))
      BY <1>1, <1>2, <1>3, <1>4
    <3> QED BY <3>1 DEF Active
  <2>2. t \notin Active
    <3>1. ASSUME NEW z \in Senders, t = held[z] \/ Contains(queue[z], t) PROVE status[t] # "none"
      BY <3>1, QueuedNotPending DEF IInv, Lined, Turns
    <3> QED BY <3>1, <1>1 DEF Active
  <2>3. Cardinality(Active') = Cardinality(Active) + 1
    BY <2>1, <2>2, TurnsAreFinite, FS_AddElement
  <2>4. inflight = Cardinality(Active)  BY <1>1, GateIsActive DEF IInv
  <2>5. phase' = "no" /\ inflight' = Cardinality(Active')  BY <1>1, <1>2, <2>3, <2>4
  <2> QED BY <2>5 DEF GateCounts, Active
<1> QED BY <1>2, <1>1, <1>5, <1>6, <1>8, <1>9, <1>10, <1>11, <1>12 DEF IInv

(* The rest of the steps leave queues and hands alone, but for the drain. *)
LEMMA RefusalCalm ==
  ASSUME IInv, NEW t \in Turns, Arrive(t), ~ Admits(SenderOf[t])
  PROVE  IInv'
<1>1. /\ failing = {} /\ status[t] = "none"
      /\ \A u \in Turns : u < t /\ SenderOf[u] = SenderOf[t] => status[u] # "none"
      /\ status' = [status EXCEPT ![t] = "queued"]
      /\ UNCHANGED <<future, work, queue, consumer, held, inflight, phase>>
  BY DEF Arrive, LoopFree, poolVars
<1>2. (\A f \in failing' : f.turn = t) /\ (\E f \in failing' : f.turn = t)
  <2> DEFINE r == [turn |-> t, why |-> "overloaded"]
  <2>1. failing' = {r} /\ r.turn = t  BY DEF Arrive
  <2> HIDE DEF r
  <2> QED BY <2>1
<1>3. \A u \in Turns : status'[u] = IF u = t THEN "queued" ELSE status[u]  BY <1>1 DEF IInv, Types
<1>4. Moves(status, status') /\ Closed(status')  BY <1>1, <1>3 DEF IInv, Moves, Closed
<1>5. Types'  BY <1>1, <1>2 DEF IInv, Types, JobStatuses
<1>6. future[t] # "pending"
  <2>1. SenderOf[t] \in Senders /\ t # 0  BY DispatchAssumption DEF Turns
  <2> QED BY <1>1, <2>1 DEF IInv, Awaited, Lined
<1>7. \A u \in Turns : future'[u] = "pending" => Awaited(u)'  BY <1>1 DEF IInv, Awaited
<1>8. ASSUME NEW u \in Turns, status'[u] = "queued" PROVE Carried(u)'
  <2>1. CASE u = t  BY <2>1, <1>2 DEF Carried
  <2>2. CASE u # t
    <3>1. Carried(u)  BY <2>2, <1>8, <1>3 DEF IInv
    <3> QED BY <3>1, <1>1 DEF Carried, Unread
  <2> QED BY <2>1, <2>2
<1>9. \A f \in failing' : future'[f.turn] # "pending"  BY <1>1, <1>2, <1>6
<1>10. /\ UNCHANGED <<queue, held, inflight>> /\ phase' = phase
       /\ \A s \in Senders : consumer'[s] \in Resting <=> consumer[s] \in Resting
  BY <1>1
<1> QED BY <1>4, <1>5, <1>7, <1>8, <1>9, <1>10, Calm

LEMMA FailingCalm == ASSUME IInv, FailJobSafe PROVE IInv'
<1>1. PICK f \in failing :
        /\ SetStatus(f.turn, "failed") /\ failing' = failing \ {f}
        /\ consumer' = IF held[SenderOf[f.turn]] = f.turn
                         THEN [consumer EXCEPT ![SenderOf[f.turn]] = "sending"] ELSE consumer
        /\ UNCHANGED <<future, work, queue, held, inflight, phase>>
  BY DEF FailJobSafe, poolVars
<1> DEFINE t == f.turn
           s == SenderOf[t]
<1>2. t \in Turns /\ s \in Senders /\ t # 0 /\ future[t] # "pending"
  BY DispatchAssumption DEF IInv, Types, Turns
<1>3. /\ status' = IF Open(t) THEN [status EXCEPT ![t] = "failed"] ELSE status
      /\ consumer' = IF held[s] = t THEN [consumer EXCEPT ![s] = "sending"] ELSE consumer
      /\ \A g \in failing : g.turn # t => g \in failing'
      /\ \A g \in failing' : g \in failing
  BY <1>1 DEF SetStatus
<1> HIDE DEF t, s
<1>4. \A u \in Turns : status'[u] = IF u = t /\ Open(t) THEN "failed" ELSE status[u]
  BY <1>2, <1>3 DEF IInv, Types
<1>5. \A z \in Senders : consumer'[z] = IF z = s /\ held[s] = t THEN "sending" ELSE consumer[z]
  BY <1>2, <1>3 DEF IInv, Types
<1>6. Moves(status, status') /\ Closed(status')  BY <1>2, <1>4 DEF IInv, Moves, Closed, Open
<1>7. Types'
  <2>1. status' \in [Turns -> JobStatuses]  BY <1>3 DEF IInv, Types, JobStatuses, JobTerminal
  <2>2. consumer' \in [Senders -> Stages]  BY <1>3 DEF IInv, Types, Stages
  <2> QED BY <1>1, <1>3, <2>1, <2>2 DEF IInv, Types
<1>8. \A z \in Senders : consumer'[z] \in Resting <=> consumer[z] \in Resting
  BY <1>2, <1>5 DEF IInv, Resting
<1>9. ASSUME NEW u \in Turns, future'[u] = "pending" PROVE Awaited(u)'
  <2>1. future[u] = "pending" /\ Awaited(u)  BY <1>9, <1>1 DEF IInv
  <2>2. SenderOf[u] \in Senders  BY DispatchAssumption
  <2>3. ~ (SenderOf[u] = s /\ held[s] = t)  BY <2>1, <1>2 DEF Awaited
  <2> QED BY <2>1, <2>2, <2>3, <1>1, <1>5 DEF Awaited
<1>10. ASSUME NEW u \in Turns, status'[u] = "queued" PROVE Carried(u)'
  <2>1. u # t /\ status[u] = "queued"  BY <1>10, <1>4 DEF Open
  <2>2. Carried(u)  BY <2>1 DEF IInv
  <2>3. Unread(u) => Unread(u)'
    <3>1. SenderOf[u] \in Senders  BY DispatchAssumption
    <3> QED BY <2>1, <3>1, <1>1, <1>5 DEF Unread
  <2> QED BY <2>1, <2>2, <2>3, <1>1, <1>3 DEF Carried
<1>11. \A g \in failing' : future'[g.turn] # "pending"  BY <1>1, <1>3 DEF IInv
<1>12. UNCHANGED <<queue, held, inflight>> /\ phase' = phase  BY <1>1
<1> QED BY <1>6, <1>7, <1>8, <1>9, <1>10, <1>11, <1>12, Calm

(* The watch withdraws the run if it can, and reads the row either way. *)
LEMMA WatchCalm ==
  ASSUME IInv, NEW s \in Senders, RunFinished(s) \/ WatchTimesOut(s)
  PROVE  IInv'
<1> DEFINE t == held[s]
<1>1. /\ consumer[s] = "waiting" /\ failing = {} /\ ReadReply(s)
      /\ UNCHANGED <<status, work, queue, held, inflight, phase>>
  BY DEF RunFinished, WatchTimesOut, LoopFree, jobVars, poolVars
<1>2. t \in Turns /\ SenderOf[t] = s
  <2>1. t # 0  BY <1>1 DEF IInv, Resting
  <2> QED BY <2>1 DEF IInv, Types, Lined
<1>3. /\ future' \in [Turns -> Futures] /\ future'[t] # "pending"
      /\ \A u \in Turns : u # t => future'[u] = future[u]
      /\ \A u \in Turns : future'[u] = "pending" => future[u] = "pending"
  <2>1. CASE RunFinished(s)
    <3>1. future' = future /\ future[t] = "finished"  BY <2>1 DEF RunFinished, poolVars
    <3> QED BY <3>1 DEF IInv, Types
  <2>2. CASE WatchTimesOut(s)
    <3>1. future' = [u \in Turns |-> IF u \in {t} /\ future[u] = "pending" THEN "cancelled" ELSE future[u]]
      BY <2>2 DEF WatchTimesOut, Withdrawn
    <3> HIDE DEF t
    <3> QED BY <3>1, <1>2 DEF IInv, Types, Futures
  <2> QED BY <2>1, <2>2
<1>4. /\ \E x \in {"sending", "failing"} : consumer' = [consumer EXCEPT ![s] = x]
      /\ status[t] = "queued" => \E f \in failing' : f.turn = t
      /\ \A f \in failing' : f.turn = t
  <2> DEFINE r == [turn |-> t, why |-> "not done"]
  <2>1. r.turn = t  OBVIOUS
  <2>2. \/ status[t] = "done" /\ consumer' = [consumer EXCEPT ![s] = "sending"] /\ failing' = failing
        \/ failing' = {r} /\ consumer' = [consumer EXCEPT ![s] = "failing"]
    BY <1>1 DEF ReadReply
  <2> HIDE DEF r, t
  <2> QED BY <2>1, <2>2, <1>1
<1> HIDE DEF t
<1>5. \A z \in Senders : /\ z # s => consumer'[z] = consumer[z]
                         /\ z = s => consumer'[z] \in {"sending", "failing"}
  BY <1>4 DEF IInv, Types
<1>6. Types'
  <2>1. consumer' \in [Senders -> Stages]  BY <1>4 DEF IInv, Types, Stages
  <2> QED BY <1>1, <1>2, <1>3, <1>4, <2>1 DEF IInv, Types
<1>7. Moves(status, status') /\ Closed(status')  BY <1>1 DEF IInv, Moves
<1>8. \A z \in Senders : consumer'[z] \in Resting <=> consumer[z] \in Resting
  BY <1>1, <1>5 DEF Resting
<1>9. ASSUME NEW u \in Turns, future'[u] = "pending" PROVE Awaited(u)'
  <2>1. u # t /\ Awaited(u) /\ SenderOf[u] \in Senders
    BY <1>9, <1>3, DispatchAssumption DEF IInv
  <2>2. SenderOf[u] # s  BY <2>1 DEF Awaited, t
  <2> QED BY <2>1, <2>2, <1>1, <1>5 DEF Awaited
<1>10. ASSUME NEW u \in Turns, status'[u] = "queued" PROVE Carried(u)'
  <2>1. Carried(u) /\ status[u] = "queued"  BY <1>10, <1>1 DEF IInv
  <2>2. CASE u = t  BY <2>1, <2>2, <1>4 DEF Carried
  <2>3. CASE u # t
    <3>1. Unread(u) => Unread(u)'
      BY <2>3, <1>1, <1>3, <1>5, DispatchAssumption DEF Unread, t
    <3> QED BY <2>1, <2>3, <3>1, <1>1, <1>3 DEF Carried
  <2> QED BY <2>2, <2>3
<1>11. \A f \in failing' : future'[f.turn] # "pending"  BY <1>3, <1>4
<1>12. UNCHANGED <<queue, held, inflight>> /\ phase' = phase  BY <1>1
<1> QED BY <1>6, <1>7, <1>8, <1>9, <1>10, <1>11, <1>12, Calm

LEMMA SendCalm == ASSUME IInv, NEW s \in Senders, SendVerdict(s) PROVE IInv'
<1>1. /\ consumer[s] = "sending" /\ consumer' = [consumer EXCEPT ![s] = "leaving"]
      /\ UNCHANGED <<status, future, work, queue, held, inflight, failing, phase>>
  BY DEF SendVerdict, jobVars, poolVars
<1>2. \A z \in Senders : consumer'[z] = IF z = s THEN "leaving" ELSE consumer[z]
  BY <1>1 DEF IInv, Types
<1>3. Types' /\ Moves(status, status') /\ Closed(status')
  BY <1>1 DEF IInv, Types, Stages, Moves
<1>4. \A z \in Senders : consumer'[z] \in Resting <=> consumer[z] \in Resting
  BY <1>1, <1>2 DEF Resting
<1>5. ASSUME NEW u \in Turns, future'[u] = "pending" PROVE Awaited(u)'
  <2>1. Awaited(u) /\ SenderOf[u] \in Senders  BY <1>5, <1>1, DispatchAssumption DEF IInv
  <2> QED BY <2>1, <1>1, <1>2 DEF Awaited
<1>6. ASSUME NEW u \in Turns, status'[u] = "queued" PROVE Carried(u)'
  <2>1. Carried(u) /\ SenderOf[u] \in Senders  BY <1>6, <1>1, DispatchAssumption DEF IInv
  <2> QED BY <2>1, <1>1, <1>2 DEF Carried, Unread
<1>7. /\ UNCHANGED <<queue, held, inflight>> /\ phase' = phase
      /\ \A f \in failing' : future'[f.turn] # "pending"
  BY <1>1 DEF IInv
<1> QED BY <1>3, <1>4, <1>5, <1>6, <1>7, Calm

(* A thread drops from the pool's queue only the run that it decides. *)
LEMMA StartCalm == ASSUME IInv, ThreadStarts PROVE IInv'
<1> DEFINE t == Head(work)
<1>0. PICK starts \in BOOLEAN :
        /\ starts => status[t] = "queued"
        /\ future' = [future EXCEPT ![t] = IF starts THEN "running"
                                           ELSE IF @ = "pending" THEN "finished" ELSE @]
        /\ status' = IF starts THEN [status EXCEPT ![t] = "running"] ELSE status
  BY DEF ThreadStarts
<1>1. /\ work # <<>> /\ work' = Tail(work)
      /\ UNCHANGED <<queue, consumer, held, inflight, failing, phase>>
  BY DEF ThreadStarts, loopVars, turnVars
<1>2. /\ t \in Turns /\ work' \in Seq(Turns)
      /\ \A u \in Turns : Contains(work, u) <=> Contains(work', u) \/ u = t
  BY <1>1, Split DEF IInv, Types
<1> HIDE DEF t
<1>3. /\ starts => status[t] = "queued"
      /\ \A u \in Turns : future'[u] = IF u = t THEN IF starts THEN "running" ELSE
                                              IF future[t] = "pending" THEN "finished" ELSE future[t]
                                       ELSE future[u]
      /\ \A u \in Turns : status'[u] = IF u = t /\ starts THEN "running" ELSE status[u]
  BY <1>0, <1>2 DEF IInv, Types
<1>4. future' \in [Turns -> Futures] /\ status' \in [Turns -> JobStatuses]
  BY <1>0, <1>2 DEF IInv, Types, Futures, JobStatuses
<1>5. Types'  BY <1>1, <1>2, <1>4 DEF IInv, Types
<1>6. Moves(status, status') /\ Closed(status')  BY <1>2, <1>3 DEF IInv, Moves, Closed
<1>7. ASSUME NEW u \in Turns, future'[u] = "pending" PROVE Awaited(u)'
  <2>1. u # t /\ future[u] = "pending"  BY <1>7, <1>3
  <2>2. Awaited(u)  BY <2>1 DEF IInv
  <2> QED BY <2>1, <2>2, <1>1, <1>2 DEF Awaited
<1>8. ASSUME NEW u \in Turns, status'[u] = "queued" PROVE Carried(u)'
  <2>1. status[u] = "queued" /\ Carried(u)  BY <1>8, <1>3 DEF IInv
  <2>2. CASE u = t /\ future[t] = "pending"
    <3>1. future'[t] = "finished" /\ Awaited(t)  BY <2>2, <1>2, <1>3, <1>8 DEF IInv
    <3> QED BY <2>2, <3>1, <1>1 DEF Carried, Unread, Awaited
  <2>3. CASE ~ (u = t /\ future[t] = "pending")
    <3>1. future'[u] = future[u]  BY <2>3, <1>3, <1>8
    <3>2. Unread(u) => Unread(u)'  BY <3>1, <1>1 DEF Unread
    <3> QED BY <2>1, <2>3, <3>1, <3>2, <1>1, <1>2 DEF Carried
  <2> QED BY <2>2, <2>3
<1>9. ASSUME NEW f \in failing' PROVE future'[f.turn] # "pending"
  <2>1. f.turn \in Turns /\ future[f.turn] # "pending"  BY <1>1, <1>9 DEF IInv, Types
  <2> QED BY <2>1, <1>3
<1>10. /\ UNCHANGED <<queue, held, inflight>> /\ phase' = phase
       /\ \A s \in Senders : consumer'[s] \in Resting <=> consumer[s] \in Resting
  BY <1>1
<1> QED BY <1>5, <1>6, <1>7, <1>8, <1>9, <1>10, Calm

LEMMA EndCalm == ASSUME IInv, NEW t \in Turns, ThreadEnds(t) PROVE IInv'
<1>1. /\ future[t] = "running" /\ future' = [future EXCEPT ![t] = "finished"]
      /\ \/ status' = status
         \/ Open(t) /\ \E x \in {"done", "failed"} : status' = [status EXCEPT ![t] = x]
      /\ UNCHANGED <<work, queue, consumer, held, inflight, failing, phase>>
  BY DEF ThreadEnds, SetStatus, jobVars, loopVars, turnVars
<1>2. /\ \A u \in Turns : future'[u] = IF u = t THEN "finished" ELSE future[u]
      /\ \A u \in Turns : u # t => status'[u] = status[u]
      /\ status'[t] # status[t] => status'[t] \in {"done", "failed"} /\ Open(t)
  BY <1>1 DEF IInv, Types
<1>3. future' \in [Turns -> Futures] /\ status' \in [Turns -> JobStatuses]
  BY <1>1 DEF IInv, Types, Futures, JobStatuses, JobTerminal
<1>4. Types'  BY <1>1, <1>3 DEF IInv, Types
<1>5. Moves(status, status') /\ Closed(status')
  BY <1>2 DEF IInv, Moves, Closed, Open
<1>6. ASSUME NEW u \in Turns, future'[u] = "pending" PROVE Awaited(u)'
  <2>1. Awaited(u)  BY <1>6, <1>2 DEF IInv
  <2> QED BY <2>1, <1>1 DEF Awaited
<1>7. ASSUME NEW u \in Turns, status'[u] = "queued" PROVE Carried(u)'
  <2>1. status[u] = "queued"  BY <1>7, <1>2
  <2>2. Carried(u)  BY <2>1 DEF IInv
  <2>3. Unread(u) => Unread(u)'  BY <1>1, <1>2 DEF Unread
  <2> QED BY <2>2, <2>3, <1>1, <1>2 DEF Carried
<1>8. ASSUME NEW f \in failing' PROVE future'[f.turn] # "pending"
  <2>1. f.turn \in Turns /\ future[f.turn] # "pending"  BY <1>1, <1>8 DEF IInv, Types
  <2> QED BY <2>1, <1>2
<1>9. /\ UNCHANGED <<queue, held, inflight>> /\ phase' = phase
      /\ \A s \in Senders : consumer'[s] \in Resting <=> consumer[s] \in Resting
  BY <1>1
<1> QED BY <1>4, <1>5, <1>6, <1>7, <1>8, <1>9, Calm

(* The drain fails what still waits, and then what no thread runs is dropped. *)
LEMMA ClearCalm == ASSUME IInv, DrainClears PROVE IInv'
<1>1. /\ failing = {} /\ phase = "waiting" /\ phase' = "notifying" /\ inflight' = 0
      /\ queue' = [s \in Senders |-> <<>>]
      /\ UNCHANGED <<status, future, work, consumer, held>>
  BY DEF DrainClears, LoopFree, jobVars, poolVars, turnVars
<1>2. /\ \A f \in failing' : f.turn \in Pending
      /\ \A t \in Pending : \E f \in failing' : f.turn = t
  <2> DEFINE r(t) == [turn |-> t, why |-> "draining"]
  <2>1. \A t : r(t).turn = t  OBVIOUS
  <2>2. failing' = {r(t) : t \in Pending}  BY DEF DrainClears
  <2> HIDE DEF r
  <2> QED BY <2>1, <2>2
<1>3. \A t \in Pending : t \in Turns /\ future[t] # "pending"  BY QueuedNotPending DEF Pending
<1>4. Types'
  <2>1. queue' \in [Senders -> Seq(Turns)]  BY <1>1
  <2> QED BY <1>1, <1>2, <1>3, <2>1 DEF IInv, Types
<1>5. ASSUME NEW s \in Senders PROVE Lined(queue'[s], held'[s], s, status')
  <2>1. queue'[s] = <<>> /\ Lined(queue[s], held[s], s, status)  BY <1>1 DEF IInv
  <2> QED BY <2>1, <1>1 DEF Lined
<1>6. ASSUME NEW u \in Turns, status'[u] = "queued" PROVE Carried(u)'
  <2>1. Carried(u) /\ SenderOf[u] \in Senders  BY <1>6, <1>1, DispatchAssumption DEF IInv
  <2>2. Contains(queue[SenderOf[u]], u) => \E f \in failing' : f.turn = u
    BY <2>1, <1>2 DEF Pending
  <2> QED BY <2>1, <2>2, <1>1 DEF Carried, Unread
<1>7. \A u \in Turns : future'[u] = "pending" => Awaited(u)'  BY <1>1 DEF IInv, Awaited
<1>8. GateCounts'  BY <1>1 DEF GateCounts
<1>9. /\ Closed(status') /\ \A s \in Senders : held'[s] = 0 <=> consumer'[s] \in Resting
      /\ \A f \in failing' : future'[f.turn] # "pending"
  BY <1>1, <1>2, <1>3 DEF IInv
<1> QED BY <1>4, <1>5, <1>6, <1>7, <1>8, <1>9 DEF IInv

LEMMA StopCalm == ASSUME IInv, DrainStops PROVE IInv'
<1>1. /\ failing = {} /\ phase = "notifying" /\ phase' = "stopped" /\ work' = <<>>
      /\ consumer' = [s \in Senders |-> "none"] /\ held' = [s \in Senders |-> 0]
      /\ future' = [t \in Turns |-> IF t \in Turns /\ future[t] = "pending" THEN "cancelled" ELSE future[t]]
      /\ UNCHANGED <<status, queue, inflight, failing>>
  BY DEF DrainStops, LoopFree, Withdrawn, jobVars
<1>2. Types'
  <2>1. future' \in [Turns -> Futures]  BY <1>1 DEF IInv, Types, Futures
  <2> QED BY <1>1, <2>1 DEF IInv, Types, Stages
<1>3. ASSUME NEW s \in Senders PROVE Lined(queue'[s], held'[s], s, status')
  <2>1. Lined(queue[s], held[s], s, status) /\ queue[s] \in Seq(Turns)  BY DEF IInv, Types
  <2>2. \A k \in 1..Len(queue[s]) : 0 < queue[s][k]
    <3>1. \A u \in Turns : 0 < u  BY DEF Turns
    <3>2. \A k \in 1..Len(queue[s]) : queue[s][k] \in Turns  BY <2>1
    <3> QED BY <3>1, <3>2
  <2>3. queue'[s] = queue[s] /\ held'[s] = 0 /\ status' = status  BY <1>1
  <2> QED BY <2>1, <2>2, <2>3 DEF Lined
<1>4. \A u \in Turns : future'[u] # "pending"  BY <1>1
<1>5. ASSUME NEW u \in Turns, status'[u] = "queued" PROVE Carried(u)'
  <2>1. Carried(u)  BY <1>5, <1>1 DEF IInv
  <2>2. future'[u] = IF future[u] = "pending" THEN "cancelled" ELSE future[u]  BY <1>1
  <2> QED BY <2>1, <2>2, <1>1 DEF Carried, Unread
<1>6. GateCounts'  BY <1>1 DEF IInv, GateCounts
<1>7. Closed(status') /\ \A s \in Senders : held'[s] = 0 <=> consumer'[s] \in Resting
  BY <1>1 DEF IInv, Resting
<1> QED BY <1>1, <1>2, <1>3, <1>4, <1>5, <1>6, <1>7 DEF IInv

(* The drain begins, or tells one sender: the turns do not notice. *)
LEMMA DrainCalm ==
  ASSUME IInv, UNCHANGED <<status, future, work, queue, consumer, held, inflight, failing>>,
         phase' = phase \/ (phase = "no" /\ phase' = "waiting")
  PROVE  IInv'
<1>1. Types' /\ Moves(status, status') /\ Closed(status')  BY DEF IInv, Types, Moves
<1>2. \A u \in Turns : future'[u] = "pending" => Awaited(u)'  BY DEF IInv, Awaited
<1>3. ASSUME NEW u \in Turns, status'[u] = "queued" PROVE Carried(u)'
  BY <1>3 DEF IInv, Carried, Unread
<1>4. /\ UNCHANGED <<queue, held, inflight>> /\ \A f \in failing' : future'[f.turn] # "pending"
      /\ \A s \in Senders : consumer'[s] \in Resting <=> consumer[s] \in Resting
  BY DEF IInv
<1> QED BY <1>1, <1>2, <1>3, <1>4, Calm

LEMMA NextIInv == IInv /\ [Next]_vars => IInv'
<1> SUFFICES ASSUME IInv, [Next]_vars PROVE IInv'  OBVIOUS
<1>1. ASSUME NEW t \in Turns, Arrive(t) PROVE IInv'  BY <1>1, ArrivalCounted, RefusalCalm
<1>2. ASSUME NEW t \in Turns, ThreadEnds(t) PROVE IInv'  BY <1>2, EndCalm
<1>3. ASSUME NEW t \in Turns, CancelQueued(t) PROVE IInv'
  <2>1. /\ status[t] = "queued" /\ status' = [status EXCEPT ![t] = "cancelled"]
        /\ UNCHANGED <<poolVars, late, loopVars>>
    BY <1>3 DEF CancelQueued
  <2> QED BY <2>1, RowStep DEF JobTerminal
<1>4. CASE FailJobSafe  BY <1>4, FailingCalm
<1>5. CASE ThreadStarts  BY <1>5, StartCalm
<1>6. ASSUME NEW s \in Senders, ConsumerStarts(s) PROVE IInv'
  <2>1. /\ LoopFree /\ consumer[s] = "spawned" /\ TakeNext(s) /\ UNCHANGED <<status, phase, inflight>>
    BY <1>6 DEF ConsumerStarts, jobVars
  <2>2. held[s] = 0  BY <2>1 DEF IInv, Resting
  <2>3. Active' = Active
    <3>1. 0 \notin Active  BY DEF Active, Turns
    <3> QED BY <3>1, <2>1, <2>2, TakingKeepsCount
  <2>4. GateCounts'  BY <2>1, <2>3 DEF IInv, GateCounts, Active
  <2> QED BY <2>1, <2>4, Taking
<1>7. ASSUME NEW s \in Senders, TurnEnds(s) PROVE IInv'
  <2>1. /\ LoopFree /\ consumer[s] = "leaving" /\ TakeNext(s) /\ UNCHANGED <<status, phase>>
        /\ inflight' = IF inflight = 0 THEN 0 ELSE inflight - 1
    BY <1>7 DEF TurnEnds, Released, jobVars
  <2>2. held[s] \in Active
    <3>1. held[s] # 0  BY <2>1 DEF IInv, Resting
    <3> QED BY <3>1 DEF IInv, Types, Active
  <2>3. Cardinality(Active') = Cardinality(Active) - 1
    BY <2>1, <2>2, TakingKeepsCount, TurnsAreFinite, FS_RemoveElement
  <2>4. Cardinality(Active) # 0  BY <2>2, TurnsAreFinite, FS_EmptySet
  <2>5. IF phase \in {"no", "waiting"} THEN inflight = Cardinality(Active) ELSE inflight = 0
    BY GateIsActive DEF IInv
  <2>6. IF phase' \in {"no", "waiting"} THEN inflight' = Cardinality(Active') ELSE inflight' = 0
    BY <2>1, <2>3, <2>4, <2>5, TurnsAreFinite
  <2>7. GateCounts'  BY <2>6 DEF GateCounts, Active
  <2> QED BY <2>1, <2>7, Taking
<1>8. ASSUME NEW s \in Senders, RunFinished(s) \/ WatchTimesOut(s) PROVE IInv'  BY <1>8, WatchCalm
<1>9. ASSUME NEW s \in Senders, SendVerdict(s) PROVE IInv'  BY <1>9, SendCalm
<1>10. CASE DrainStarts  BY <1>10, DrainCalm DEF DrainStarts, jobVars, poolVars, turnVars
<1>11. CASE DrainClears  BY <1>11, ClearCalm
<1>12. CASE DrainStops  BY <1>12, StopCalm
<1>13. ASSUME NEW s \in Senders, DrainNotifies(s) PROVE IInv'
  BY <1>13, DrainCalm DEF DrainNotifies, jobVars, poolVars, turnVars
<1>14. CASE UNCHANGED vars
  BY <1>14, DrainCalm DEF vars, jobVars, poolVars, loopVars, turnVars
<1> QED
  BY <1>1, <1>2, <1>3, <1>4, <1>5, <1>6, <1>7, <1>8, <1>9, <1>10, <1>11, <1>12, <1>13, <1>14
  DEF Next, Consumer, Drain

LEMMA Inductive == Spec => []IInv
BY InitIInv, NextIInv, PTL DEF Spec

-----------------------------------------------------------------------------
(* The counter of the gate is the number of turns that are queued or held
   until the drain resets it, and 0 from then on (_enqueue_turn,
   _release_turn, drain_chat_turns), for any caps and any senders. *)
THEOREM GateAlwaysCounts == Spec => []GateCounts
<1>1. IInv => GateCounts  BY DEF IInv
<1> QED BY <1>1, Inductive, PTL

(* A queued job is in its sender's queue, on the pool's, returned by a thread
   whose database failed and not yet looked at by its consumer, about to be
   failed, or left by the shutdown: no other step leaves one behind. *)
THEOREM QueuedAlwaysCarried == Spec => []QueuedIsCarried
<1>1. IInv => QueuedIsCarried  BY DEF IInv, Carried, Unread, QueuedIsCarried
<1> QED BY <1>1, Inductive, PTL
-----------------------------------------------------------------------------
(* The order of the answers.  An answer's turn comes before everything its  *)
(* sender still has in the queue, and before the turn the consumer holds,   *)
(* unless it is that turn's own answer and the consumer is leaving it.      *)

IsAnswer(m) == m[2] \in {"reply", "fallback"}

Before(u, s) ==
  /\ u \in Turns /\ SenderOf[u] = s /\ status[u] # "none"
  /\ \A t \in Turns : Contains(queue[s], t) => u < t
  /\ held[s] # 0 => u < held[s] \/ (u = held[s] /\ consumer[s] = "leaving")

OutboxType ==
  /\ outbox \in [Senders -> Seq((Turns \cup {0}) \X Kinds)]
  /\ verdict \in [Senders -> {"reply", "fallback"}]

(* Of a turn in a consumer's hands that the loop is failing, nothing was    *)
(* said yet, and the loop fails no other.                                   *)
FailsUnsent ==
  \A f \in failing : held[SenderOf[f.turn]] = f.turn =>
    consumer[SenderOf[f.turn]] = "failing" /\ failing = {f}

AnswerInv ==
  /\ OutboxType
  /\ FailsUnsent
  /\ AnsweredInOrder
  /\ \A s \in Senders : \A i \in DOMAIN outbox[s] :
       IsAnswer(outbox[s][i]) => \E u \in Turns : u = outbox[s][i][1] /\ Before(u, s)

(* What is held or queued has arrived, the held turn first. *)
LEMMA HeldComesFirst ==
  ASSUME IInv, NEW s \in Senders
  PROVE  /\ held[s] \in Turns \cup {0} /\ 0 \notin Turns
         /\ held[s] # 0 => SenderOf[held[s]] = s /\ status[held[s]] # "none"
         /\ \A t \in Turns : Contains(queue[s], t) => SenderOf[t] = s /\ held[s] < t /\ status[t] # "none"
         /\ held[s] # 0 <=> consumer[s] \notin Resting
<1>1. held[s] \in Turns \cup {0} /\ 0 \notin Turns  BY DEF IInv, Types, Turns
<1>2. held[s] # 0 => SenderOf[held[s]] = s /\ status[held[s]] # "none"  BY DEF IInv, Lined
<1>3. \A t \in Turns : Contains(queue[s], t) => SenderOf[t] = s /\ held[s] < t /\ status[t] # "none"
  BY QueuedNotPending
<1> QED BY <1>1, <1>2, <1>3 DEF IInv

(* A step that puts no turn into this sender's hands or queue. *)
LEMMA BeforeHolds ==
  ASSUME NEW s \in Senders, NEW u \in Turns, Before(u, s), Moves(status, status'),
         \A t \in Turns : Contains(queue'[s], t) => Contains(queue[s], t),
         held'[s] = 0 \/ (held'[s] = held[s] /\ (consumer[s] = "leaving" => consumer'[s] = "leaving"))
  PROVE  Before(u, s)'
BY DEF Before, Moves

LEMMA StatusMoves ==
  ASSUME IInv, NEW t \in Turns, NEW x \in JobTerminal, SetStatus(t, x)
  PROVE  Moves(status, status')
<1>1. CASE status' = status  BY <1>1 DEF Moves
<1>2. CASE status' = [status EXCEPT ![t] = x]
  <2>1. \A u \in Turns : status'[u] = IF u = t THEN x ELSE status[u]  BY <1>2 DEF IInv, Types
  <2> QED BY <2>1 DEF Moves, JobTerminal
<1> QED BY <1>1, <1>2 DEF SetStatus

(* The turn a consumer takes comes after every answer so far. *)
LEMMA TakingAfter ==
  ASSUME IInv, NEW s \in Senders, consumer[s] \in {"spawned", "leaving"}, TakeNext(s), status' = status
  PROVE  /\ \A z \in Senders, u \in Turns : Before(u, z) => Before(u, z)'
         /\ LoopFree => FailsUnsent'
         /\ \A z \in Senders : verdict'[z] \in {verdict[z], "fallback"}
         /\ DOMAIN verdict' = DOMAIN verdict
<1> DEFINE q == queue[s]
           t == Head(q)
<1>0. /\ q \in Seq(Turns) /\ consumer \in [Senders -> Stages] /\ held \in [Senders -> Turns \cup {0}]
      /\ queue \in [Senders -> Seq(Turns)]
  BY DEF IInv, Types
<1>1. verdict' = [verdict EXCEPT ![s] = "fallback"]  BY DEF TakeNext
<1>2. CASE q = <<>>
  <2>1. /\ consumer' = [consumer EXCEPT ![s] = "none"] /\ held' = [held EXCEPT ![s] = 0]
        /\ UNCHANGED <<queue, failing>>
    BY <1>2 DEF TakeNext
  <2>2. \A z \in Senders, u \in Turns : Before(u, z) => Before(u, z)'
    BY <1>0, <2>1 DEF Before
  <2>3. LoopFree => FailsUnsent'  BY <2>1 DEF LoopFree, FailsUnsent
  <2> QED BY <1>1, <2>2, <2>3
<1>3. CASE q # <<>>
  <2>1. /\ t \in Turns /\ Tail(q) \in Seq(Turns)
        /\ \A u \in Turns : Contains(q, u) <=> Contains(Tail(q), u) \/ u = t
    BY <1>0, <1>3, Split
  <2>2. Contains(q, t) /\ SenderOf[t] = s  BY <2>1, HeldComesFirst
  <2>3. queue' = [queue EXCEPT ![s] = Tail(q)] /\ held' = [held EXCEPT ![s] = t]
    BY <1>3 DEF TakeNext
  <2>4. CASE phase = "stopped"
    <3>1. /\ consumer' = [consumer EXCEPT ![s] = "failing"]
          /\ failing' = {[turn |-> t, why |-> "executor unavailable"]}
      BY <1>3, <2>4 DEF TakeNext
    <3>2. PICK f : f = [turn |-> t, why |-> "executor unavailable"]  OBVIOUS
    <3>3. f.turn = t /\ failing' = {f}  BY <3>1, <3>2
    <3> HIDE DEF t, q
    <3>4. consumer'[s] = "failing" /\ held'[s] = t  BY <1>0, <3>1, <2>3
    <3>5. FailsUnsent'  BY <2>2, <3>3, <3>4 DEF FailsUnsent
    <3>6. \A z \in Senders : z # s => /\ queue'[z] = queue[z] /\ held'[z] = held[z]
                                      /\ consumer'[z] = consumer[z]
      BY <1>0, <2>3, <3>1
    <3>7. queue'[s] = Tail(q)  BY <1>0, <2>3
    <3>8. \A z \in Senders, u \in Turns : Before(u, z) => Before(u, z)'
      BY <2>1, <2>2, <3>4, <3>6, <3>7 DEF Before, q
    <3> QED BY <1>1, <3>5, <3>8
  <2>5. CASE phase # "stopped"
    <3>1. consumer' = [consumer EXCEPT ![s] = "waiting"] /\ failing' = failing
      BY <1>3, <2>5 DEF TakeNext
    <3> HIDE DEF t, q
    <3>2. consumer'[s] = "waiting" /\ held'[s] = t /\ queue'[s] = Tail(q)  BY <1>0, <3>1, <2>3
    <3>3. \A z \in Senders : z # s => /\ queue'[z] = queue[z] /\ held'[z] = held[z]
                                      /\ consumer'[z] = consumer[z]
      BY <1>0, <2>3, <3>1
    <3>4. \A z \in Senders, u \in Turns : Before(u, z) => Before(u, z)'
      BY <2>1, <2>2, <3>2, <3>3 DEF Before, q
    <3>5. LoopFree => FailsUnsent'  BY <3>1 DEF LoopFree, FailsUnsent
    <3> QED BY <1>1, <3>4, <3>5
  <2> QED BY <2>4, <2>5
<1> QED BY <1>2, <1>3
(* A step that says nothing. *)
LEMMA Silent ==
  ASSUME AnswerInv, outbox' = outbox, FailsUnsent',
         \A s \in Senders : verdict'[s] \in {verdict[s], "fallback"}, DOMAIN verdict' = DOMAIN verdict,
         verdict' = [s \in Senders |-> verdict'[s]],
         \A s \in Senders, u \in Turns : Before(u, s) => Before(u, s)'
  PROVE  AnswerInv'
<1>1. OutboxType'  BY DEF AnswerInv, OutboxType
<1>2. AnsweredInOrder'  BY DEF AnswerInv, AnsweredInOrder
<1>3. ASSUME NEW s \in Senders, NEW i \in DOMAIN outbox'[s], IsAnswer(outbox'[s][i])
      PROVE  \E u \in Turns : u = outbox'[s][i][1] /\ Before(u, s)'
  BY <1>3 DEF AnswerInv
<1> QED BY <1>1, <1>2, <1>3 DEF AnswerInv

(* A message that is no answer, or the answer to a turn after all answered
   ones, with what waits after it. *)
LEMMA Says ==
  ASSUME AnswerInv, NEW s \in Senders, NEW m \in (Turns \cup {0}) \X Kinds,
         outbox' = [outbox EXCEPT ![s] = Append(@, m)], verdict' = verdict, FailsUnsent',
         \A z \in Senders, u \in Turns : Before(u, z) => Before(u, z)',
         IsAnswer(m) => /\ \E u \in Turns : u = m[1] /\ Before(u, s)'
                        /\ \A u \in Turns : Before(u, s) => u < m[1]
  PROVE  AnswerInv'
<1> DEFINE o == outbox[s]
<1>1. o \in Seq((Turns \cup {0}) \X Kinds) /\ outbox \in [Senders -> Seq((Turns \cup {0}) \X Kinds)]
  BY DEF AnswerInv, OutboxType
<1>2. /\ Append(o, m) \in Seq((Turns \cup {0}) \X Kinds)
      /\ Len(o) \in Nat /\ DOMAIN o = 1..Len(o) /\ DOMAIN Append(o, m) = 1..(Len(o) + 1)
      /\ \A i \in 1..Len(o) : Append(o, m)[i] = o[i]
      /\ Append(o, m)[Len(o) + 1] = m
  BY <1>1
<1>3. outbox' \in [Senders -> Seq((Turns \cup {0}) \X Kinds)] /\ outbox'[s] = Append(o, m)
  BY <1>1, <1>2
<1>4. \A z \in Senders : z # s => outbox'[z] = outbox[z]  BY <1>1
<1>5. OutboxType'  BY <1>3 DEF AnswerInv, OutboxType
<1> HIDE DEF o
<1>6. ASSUME NEW i \in 1..Len(o), IsAnswer(o[i])
      PROVE  \E u \in Turns : u = o[i][1] /\ Before(u, s) /\ Before(u, s)'
  BY <1>2, <1>6 DEF AnswerInv, o
<1>7. ASSUME NEW z \in Senders, NEW i \in DOMAIN outbox'[z], IsAnswer(outbox'[z][i])
      PROVE  \E u \in Turns : u = outbox'[z][i][1] /\ Before(u, z)'
  <2>1. CASE z # s
    BY <1>4, <1>7, <2>1 DEF AnswerInv
  <2>2. CASE z = s
    <3>1. i \in 1..(Len(o) + 1) /\ outbox'[z][i] = Append(o, m)[i]  BY <1>2, <1>3, <1>7, <2>2
    <3>2. CASE i = Len(o) + 1
      <4>1. outbox'[z][i] = m  BY <3>1, <3>2, <1>2
      <4> QED BY <4>1, <1>7, <2>2
    <3>3. CASE i # Len(o) + 1
      <4>1. i \in 1..Len(o)  BY <3>1, <3>3, <1>2
      <4>2. outbox'[z][i] = o[i]  BY <3>1, <4>1, <1>2
      <4> QED BY <4>1, <4>2, <1>6, <1>7, <2>2
    <3> QED BY <3>2, <3>3
  <2> QED BY <2>1, <2>2
<1>8. ASSUME NEW z \in Senders, NEW i \in DOMAIN outbox'[z], NEW k \in DOMAIN outbox'[z], i < k,
             IsAnswer(outbox'[z][i]), IsAnswer(outbox'[z][k])
      PROVE  outbox'[z][i][1] < outbox'[z][k][1]
  <2>1. CASE z # s
    BY <2>1, <1>4, <1>8 DEF AnswerInv, AnsweredInOrder, IsAnswer
  <2>2. CASE z = s
    <3>1. i \in 1..(Len(o) + 1) /\ k \in 1..(Len(o) + 1)  BY <1>2, <1>3, <1>8, <2>2
    <3>2. i \in 1..Len(o)  BY <3>1, <1>2, <1>8
    <3>3. outbox'[z][i] = o[i]  BY <3>2, <1>2, <1>3, <2>2
    <3>4. CASE k = Len(o) + 1
      <4>1. outbox'[z][k] = m  BY <3>4, <1>2, <1>3, <2>2
      <4> QED BY <4>1, <3>2, <3>3, <1>6, <1>8
    <3>5. CASE k # Len(o) + 1
      <4>1. k \in 1..Len(o)  BY <3>1, <3>5, <1>2
      <4>2. outbox'[z][k] = o[k]  BY <4>1, <1>2, <1>3, <2>2
      <4> QED BY <4>1, <4>2, <3>2, <3>3, <1>2, <1>8 DEF AnswerInv, AnsweredInOrder, IsAnswer, o
    <3> QED BY <3>4, <3>5
  <2> QED BY <2>1, <2>2
<1>9. AnsweredInOrder'  BY <1>8 DEF AnsweredInOrder, IsAnswer
<1> QED BY <1>5, <1>7, <1>9 DEF AnswerInv

(* Steps that touch neither queues nor what consumers hold. *)
LEMMA Bystanders ==
  ASSUME AnswerInv, Moves(status, status'),
         UNCHANGED <<queue, consumer, held, verdict, failing, outbox>>
  PROVE  AnswerInv'
<1>1. \A s \in Senders, u \in Turns : Before(u, s) => Before(u, s)'  BY BeforeHolds
<1>2. FailsUnsent'  BY DEF AnswerInv, FailsUnsent
<1>3. verdict' = [s \in Senders |-> verdict'[s]]  BY DEF AnswerInv, OutboxType
<1> QED BY <1>1, <1>2, <1>3, Silent

(* A turn arrives after all its sender sent before, the answered ones too. *)
LEMMA ArrivalAfter == ASSUME IInv, AnswerInv, NEW t \in Turns, Arrive(t) PROVE AnswerInv'
<1> DEFINE s == SenderOf[t]
<1>1. s \in Senders  BY DispatchAssumption
<1> HIDE DEF s
<1>2. /\ status[t] = "none" /\ failing = {} /\ status' = [status EXCEPT ![t] = "queued"]
      /\ UNCHANGED <<held, verdict, outbox>>
      /\ \A z \in Senders : consumer'[z] \in {consumer[z], "spawned"}
      /\ \A z \in Senders : consumer[z] # "none" => consumer'[z] = consumer[z]
  BY <1>1 DEF Arrive, LoopFree, IInv, Types, s
<1>3. Moves(status, status')
  <2>1. \A u \in Turns : status'[u] = IF u = t THEN "queued" ELSE status[u]  BY <1>2 DEF IInv, Types
  <2> QED BY <2>1 DEF Moves
<1>4. \A z \in Senders, v \in Turns : Contains(queue'[z], v) => Contains(queue[z], v) \/ (z = s /\ v = t)
  <2>1. CASE queue' = queue  BY <2>1
  <2>2. CASE queue' = [queue EXCEPT ![s] = Append(@, t)]
    <3>1. queue[s] \in Seq(Turns) /\ queue \in [Senders -> Seq(Turns)]  BY <1>1 DEF IInv, Types
    <3>2. \A v \in Turns : Contains(Append(queue[s], t), v) => Contains(queue[s], v) \/ v = t
      BY <3>1, Appended
    <3>3. \A z \in Senders : queue'[z] = IF z = s THEN Append(queue[s], t) ELSE queue[z]
      BY <2>2, <3>1
    <3> QED BY <3>2, <3>3
  <2> QED BY <2>1, <2>2 DEF Arrive, Enqueued, s
<1>5. ASSUME NEW z \in Senders, NEW u \in Turns, Before(u, z) PROVE Before(u, z)'
  <2>1. z = s => u < t
    <3>1. ASSUME z = s, t < u PROVE FALSE
      <4>1. status[u] # "none" /\ SenderOf[u] = SenderOf[t]  BY <1>5, <3>1 DEF Before, s
      <4> QED BY <4>1, <3>1, <1>2 DEF IInv, Closed
    <3>2. u # t  BY <1>2, <1>5 DEF Before
    <3> QED BY <3>1, <3>2 DEF Turns
  <2>2. \A v \in Turns : Contains(queue'[z], v) => u < v  BY <2>1, <1>4, <1>5 DEF Before
  <2>3. consumer[z] = "leaving" => consumer'[z] = "leaving"  BY <1>2
  <2> QED BY <2>2, <2>3, <1>2, <1>3, <1>5 DEF Before, Moves
<1>6. FailsUnsent'
  <2>1. \A z \in Senders : held[z] # t  BY <1>2, HeldComesFirst
  <2>2. ASSUME NEW f \in failing' PROVE f.turn = t
    <3>1. PICK r : r = [turn |-> t, why |-> "overloaded"]  OBVIOUS
    <3>2. failing' = {r} \/ failing' = failing  BY <3>1 DEF Arrive
    <3> QED BY <3>1, <3>2, <2>2, <1>2
  <2> QED BY <2>1, <2>2, <1>1, <1>2 DEF FailsUnsent, s
<1>7. verdict' = [z \in Senders |-> verdict'[z]]  BY <1>2 DEF AnswerInv, OutboxType
<1> QED BY <1>2, <1>5, <1>6, <1>7, Silent

(* A failed turn goes on to its fallback; a refused one is told so. *)
LEMMA FailingAfter == ASSUME IInv, AnswerInv, FailJobSafe PROVE AnswerInv'
<1>1. PICK f \in failing :
        /\ SetStatus(f.turn, "failed") /\ failing' = failing \ {f}
        /\ outbox' = outbox \/ Tell(SenderOf[f.turn], f.turn, "overloaded")
        /\ consumer' = IF held[SenderOf[f.turn]] = f.turn
                         THEN [consumer EXCEPT ![SenderOf[f.turn]] = "sending"] ELSE consumer
        /\ UNCHANGED <<queue, held, verdict>>
  BY DEF FailJobSafe
<1>2. PICK t \in Turns : t = f.turn  BY DEF IInv, Types
<1>3. PICK s \in Senders : s = SenderOf[t]  BY DispatchAssumption
<1>4. Moves(status, status')  BY <1>1, <1>2, StatusMoves DEF JobTerminal
<1>5. held[s] = t => consumer[s] = "failing" /\ failing' = {}
  BY <1>1, <1>2, <1>3 DEF AnswerInv, FailsUnsent
<1>6. \A z \in Senders : consumer'[z] = IF z = s /\ held[s] = t THEN "sending" ELSE consumer[z]
  BY <1>1, <1>2, <1>3 DEF IInv, Types
<1>7. \A z \in Senders, u \in Turns : Before(u, z) => Before(u, z)'
  <2>1. \A z \in Senders : consumer[z] = "leaving" => consumer'[z] = "leaving"  BY <1>5, <1>6
  <2> QED BY <2>1, <1>1, <1>4, BeforeHolds
<1>8. FailsUnsent'
  <2>1. CASE held[s] = t  BY <2>1, <1>5 DEF FailsUnsent
  <2>2. CASE held[s] # t
    <3>1. consumer' = consumer /\ held' = held  BY <2>2, <1>1, <1>2, <1>3
    <3>2. ASSUME NEW g \in failing', held'[SenderOf[g.turn]] = g.turn PROVE FALSE
      <4>1. g \in failing /\ g # f  BY <1>1
      <4>2. failing = {g}  BY <4>1, <3>1, <3>2 DEF AnswerInv, FailsUnsent
      <4> QED BY <4>1, <4>2
    <3> QED BY <3>2 DEF FailsUnsent
  <2> QED BY <2>1, <2>2
<1>9. verdict' = [z \in Senders |-> verdict'[z]]  BY <1>1 DEF AnswerInv, OutboxType
<1>10. CASE outbox' = outbox  BY <1>1, <1>7, <1>8, <1>9, <1>10, Silent
<1>11. CASE Tell(s, t, "overloaded")
  <2>1. PICK m : m = <<t, "overloaded">>  OBVIOUS
  <2>2. m \in (Turns \cup {0}) \X Kinds /\ ~ IsAnswer(m)  BY <2>1 DEF Kinds, IsAnswer
  <2>3. outbox' = [outbox EXCEPT ![s] = Append(@, m)]  BY <2>1, <1>11 DEF Tell
  <2> QED BY <2>2, <2>3, <1>1, <1>7, <1>8, Says
<1> QED BY <1>1, <1>2, <1>3, <1>10, <1>11

(* What a consumer reads of its run decides its verdict and sends nothing. *)
LEMMA WatchAfter ==
  ASSUME IInv, AnswerInv, NEW s \in Senders, RunFinished(s) \/ WatchTimesOut(s)
  PROVE  AnswerInv'
<1>1. /\ consumer[s] = "waiting" /\ failing = {} /\ ReadReply(s)
      /\ UNCHANGED <<status, queue, held, outbox>>
  BY DEF RunFinished, WatchTimesOut, LoopFree, jobVars
<1>2. PICK t \in Turns : t = held[s]
  <2>1. held[s] # 0  BY <1>1 DEF IInv, Resting
  <2> QED BY <2>1 DEF IInv, Types
<1>3. PICK f : f = [turn |-> t, why |-> "not done"]  OBVIOUS
<1>4. /\ \/ /\ verdict' = [verdict EXCEPT ![s] = "reply"]
            /\ consumer' = [consumer EXCEPT ![s] = "sending"] /\ failing' = failing
         \/ /\ verdict' = verdict
            /\ consumer' = [consumer EXCEPT ![s] = "failing"] /\ failing' = {f}
  BY <1>1, <1>2, <1>3 DEF ReadReply
<1>5. \A z \in Senders : z # s => consumer'[z] = consumer[z]  BY <1>4 DEF IInv, Types
<1>6. \A z \in Senders, u \in Turns : Before(u, z) => Before(u, z)'
  <2>1. \A z \in Senders : consumer[z] = "leaving" => consumer'[z] = "leaving"  BY <1>1, <1>5
  <2>2. Moves(status, status')  BY <1>1 DEF Moves
  <2> QED BY <2>1, <2>2, <1>1, BeforeHolds
<1>7. FailsUnsent'
  <2>1. CASE failing' = failing  BY <2>1, <1>1 DEF FailsUnsent
  <2>2. CASE failing' = {f} /\ consumer' = [consumer EXCEPT ![s] = "failing"]
    <3>1. f.turn = t /\ SenderOf[t] = s  BY <1>2, <1>3, HeldComesFirst
    <3>2. consumer'[s] = "failing"  BY <2>2 DEF IInv, Types
    <3> QED BY <3>1, <3>2, <2>2 DEF FailsUnsent
  <2> QED BY <2>1, <2>2, <1>4
<1>8. OutboxType'  BY <1>1, <1>4 DEF AnswerInv, OutboxType
<1>9. AnsweredInOrder'  BY <1>1 DEF AnswerInv, AnsweredInOrder
<1>10. ASSUME NEW z \in Senders, NEW i \in DOMAIN outbox'[z], IsAnswer(outbox'[z][i])
       PROVE  \E u \in Turns : u = outbox'[z][i][1] /\ Before(u, z)'
  BY <1>1, <1>6, <1>10 DEF AnswerInv
<1> QED BY <1>7, <1>8, <1>9, <1>10 DEF AnswerInv

(* The answer to the turn in hand: the last so far, and first of the rest. *)
LEMMA SendAfter == ASSUME IInv, AnswerInv, NEW s \in Senders, SendVerdict(s) PROVE AnswerInv'
<1>1. /\ consumer[s] = "sending" /\ consumer' = [consumer EXCEPT ![s] = "leaving"] /\ failing = {}
      /\ Tell(s, held[s], verdict[s])
      /\ UNCHANGED <<status, queue, held, verdict, failing>>
  BY DEF SendVerdict, LoopFree, jobVars
<1>2. \A z \in Senders : consumer'[z] = IF z = s THEN "leaving" ELSE consumer[z]
  BY <1>1 DEF IInv, Types
<1>3. held[s] \in Turns /\ held[s] # 0
  <2>1. held[s] # 0  BY <1>1 DEF IInv, Resting
  <2> QED BY <2>1, HeldComesFirst
<1>4. \A z \in Senders, u \in Turns : Before(u, z) => Before(u, z)'
  <2>1. Moves(status, status')  BY <1>1 DEF Moves
  <2>2. \A z \in Senders : consumer[z] = "leaving" => consumer'[z] = "leaving"  BY <1>2
  <2> QED BY <2>1, <2>2, <1>1, BeforeHolds
<1>5. PICK m : m = <<held[s], verdict[s]>>  OBVIOUS
<1>6. m \in (Turns \cup {0}) \X Kinds /\ m[1] = held[s]
  <2>1. verdict[s] \in Kinds  BY DEF AnswerInv, OutboxType, Kinds
  <2> QED BY <2>1, <1>3, <1>5
<1>7. outbox' = [outbox EXCEPT ![s] = Append(@, m)]  BY <1>1, <1>5 DEF Tell
<1>8. \A u \in Turns : Before(u, s) => u < m[1]  BY <1>1, <1>3, <1>6 DEF Before
<1>9. \E u \in Turns : u = m[1] /\ Before(u, s)'
  <2>1. PICK u \in Turns : u = held[s]  BY <1>3
  <2>2. SenderOf[u] = s /\ status[u] # "none"  BY <1>3, <2>1, HeldComesFirst
  <2>3. \A t \in Turns : Contains(queue[s], t) => u < t  BY <2>1, HeldComesFirst
  <2>4. Before(u, s)'  BY <2>1, <2>2, <2>3, <1>1, <1>2 DEF Before
  <2> QED BY <1>6, <2>1, <2>4
<1>10. FailsUnsent'  BY <1>1 DEF FailsUnsent
<1> QED BY <1>1, <1>4, <1>6, <1>7, <1>8, <1>9, <1>10, Says

(* The notice of the restart is no answer. *)
LEMMA NoticeAfter == ASSUME IInv, AnswerInv, NEW s \in Senders, DrainNotifies(s) PROVE AnswerInv'
<1>1. /\ Tell(s, 0, "restart") /\ UNCHANGED <<status, queue, consumer, held, verdict, failing>>
  BY DEF DrainNotifies, jobVars, turnVars
<1>2. \A z \in Senders, u \in Turns : Before(u, z) => Before(u, z)'  BY <1>1 DEF Before
<1>3. PICK m : m = <<0, "restart">>  OBVIOUS
<1>4. m \in (Turns \cup {0}) \X Kinds /\ ~ IsAnswer(m)  BY <1>3 DEF Kinds, IsAnswer
<1>5. outbox' = [outbox EXCEPT ![s] = Append(@, m)]  BY <1>1, <1>3 DEF Tell
<1>6. FailsUnsent'  BY <1>1 DEF AnswerInv, FailsUnsent
<1> QED BY <1>1, <1>2, <1>4, <1>5, <1>6, Says

(* The drain empties the queues, then the consumers' hands. *)
LEMMA DrainAfter == ASSUME IInv, AnswerInv, DrainClears \/ DrainStops PROVE AnswerInv'
<1>1. failing = {} /\ UNCHANGED <<status, verdict, outbox>>
  BY DEF DrainClears, DrainStops, LoopFree, jobVars, turnVars
<1>2. Moves(status, status')  BY <1>1 DEF Moves
<1>3. verdict' = [z \in Senders |-> verdict'[z]]  BY <1>1 DEF AnswerInv, OutboxType
<1>4. CASE DrainClears
  <2>1. /\ UNCHANGED <<consumer, held>> /\ queue' = [z \in Senders |-> <<>>]
        /\ failing' = {[turn |-> t, why |-> "draining"] : t \in Pending}
    BY <1>4 DEF DrainClears, turnVars
  <2>2. \A z \in Senders, t \in Turns : ~ Contains(queue'[z], t)
    <3>1. Len(<<>>) = 0 /\ 1..0 = {}  OBVIOUS
    <3> QED BY <3>1, <2>1 DEF Contains
  <2>3. \A z \in Senders, u \in Turns : Before(u, z) => Before(u, z)'
    BY <2>1, <2>2, <1>2, BeforeHolds
  <2>4. ASSUME NEW f \in failing', held'[SenderOf[f.turn]] = f.turn PROVE FALSE
    <3>1. PICK t \in Pending : f = [turn |-> t, why |-> "draining"]  BY <2>1, <2>4
    <3>2. f.turn = t  BY <3>1
    <3>3. PICK z \in Senders : t \in Turns /\ Contains(queue[z], t)  BY DEF Pending
    <3>4. SenderOf[t] = z /\ held[z] < t /\ held[z] \in Turns \cup {0}  BY <3>3, HeldComesFirst
    <3> QED BY <3>2, <3>3, <3>4, <2>1, <2>4 DEF Turns
  <2>5. FailsUnsent'  BY <2>4 DEF FailsUnsent
  <2> QED BY <1>1, <1>3, <2>3, <2>5, Silent
<1>5. CASE DrainStops
  <2>1. UNCHANGED <<queue, failing>> /\ held' = [z \in Senders |-> 0]  BY <1>5 DEF DrainStops
  <2>2. \A z \in Senders, u \in Turns : Before(u, z) => Before(u, z)'
    BY <2>1, <1>2, BeforeHolds
  <2>3. FailsUnsent'  BY <1>1, <2>1 DEF FailsUnsent
  <2> QED BY <1>1, <1>3, <2>2, <2>3, Silent
<1> QED BY <1>4, <1>5

LEMMA InitAnswerInv == Init => AnswerInv
<1> SUFFICES ASSUME Init PROVE AnswerInv  OBVIOUS
<1>1. <<>> \in Seq((Turns \cup {0}) \X Kinds) /\ DOMAIN <<>> = {}  OBVIOUS
<1>2. OutboxType  BY <1>1 DEF Init, OutboxType
<1>3. \A s \in Senders : DOMAIN outbox[s] = {}  BY <1>1 DEF Init
<1>4. FailsUnsent  BY DEF Init, FailsUnsent
<1> QED BY <1>2, <1>3, <1>4 DEF AnswerInv, AnsweredInOrder

LEMMA NextAnswerInv == IInv /\ AnswerInv /\ [Next]_vars => AnswerInv'
<1> SUFFICES ASSUME IInv, AnswerInv, [Next]_vars PROVE AnswerInv'  OBVIOUS
<1>1. ASSUME NEW t \in Turns, Arrive(t) PROVE AnswerInv'  BY <1>1, ArrivalAfter
<1>2. ASSUME NEW t \in Turns, ThreadEnds(t) PROVE AnswerInv'
  <2>1. \/ SetStatus(t, "done") \/ SetStatus(t, "failed") \/ status' = status
    BY <1>2 DEF ThreadEnds, jobVars
  <2>2. Moves(status, status')  BY <2>1, StatusMoves DEF JobTerminal, Moves
  <2> QED BY <1>2, <2>2, Bystanders DEF ThreadEnds, loopVars, turnVars
<1>3. ASSUME NEW t \in Turns, CancelQueued(t) PROVE AnswerInv'
  <2>1. SetStatus(t, "cancelled")  BY <1>3 DEF CancelQueued, SetStatus, Open
  <2>2. Moves(status, status')  BY <2>1, StatusMoves DEF JobTerminal
  <2> QED BY <1>3, <2>2, Bystanders DEF CancelQueued, loopVars, turnVars
<1>4. CASE FailJobSafe  BY <1>4, FailingAfter
<1>5. CASE ThreadStarts
  <2>1. \/ status' = status
        \/ \E t : status[t] = "queued" /\ status' = [status EXCEPT ![t] = "running"]
    BY <1>5 DEF ThreadStarts
  <2>2. Moves(status, status')  BY <2>1 DEF Moves, IInv, Types
  <2> QED BY <1>5, <2>2, Bystanders DEF ThreadStarts, loopVars, turnVars
<1>6. ASSUME NEW s \in Senders, ConsumerStarts(s) \/ TurnEnds(s) PROVE AnswerInv'
  <2>1. /\ LoopFree /\ consumer[s] \in {"spawned", "leaving"} /\ TakeNext(s)
        /\ UNCHANGED <<status, outbox>>
    BY <1>6 DEF ConsumerStarts, TurnEnds, jobVars
  <2>2. verdict' = [z \in Senders |-> verdict'[z]]
    BY <2>1 DEF TakeNext, AnswerInv, OutboxType
  <2> QED BY <2>1, <2>2, TakingAfter, Silent
<1>7. ASSUME NEW s \in Senders, RunFinished(s) \/ WatchTimesOut(s) PROVE AnswerInv'
  BY <1>7, WatchAfter
<1>8. ASSUME NEW s \in Senders, SendVerdict(s) PROVE AnswerInv'  BY <1>8, SendAfter
<1>9. CASE DrainStarts
  BY <1>9, Bystanders DEF DrainStarts, jobVars, turnVars, Moves
<1>10. CASE DrainClears \/ DrainStops  BY <1>10, DrainAfter
<1>11. ASSUME NEW s \in Senders, DrainNotifies(s) PROVE AnswerInv'  BY <1>11, NoticeAfter
<1>12. CASE UNCHANGED vars
  BY <1>12, Bystanders DEF vars, jobVars, loopVars, turnVars, Moves
<1> QED
  BY <1>1, <1>2, <1>3, <1>4, <1>5, <1>6, <1>7, <1>8, <1>9, <1>10, <1>11, <1>12
  DEF Next, Consumer, Drain

(* Whatever times out, is cancelled or is failed in between, a sender's turns
   are answered in the order he sent them, each once: the consumer answers
   the turn it holds before it takes the next. *)
THEOREM AlwaysAnsweredInOrder == Spec => []AnsweredInOrder
<1>1. AnswerInv => AnsweredInOrder  BY DEF AnswerInv
<1> QED BY <1>1, InitAnswerInv, NextAnswerInv, Inductive, PTL DEF Spec
=============================================================================
